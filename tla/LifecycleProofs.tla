--------------------------- MODULE LifecycleProofs ---------------------------
(***************************************************************************)
(* Proofs about every behaviour of Lifecycle, for every set of sandboxes   *)
(* and every bound.  The first part is ownership: TypeOK, OneIntent,       *)
(* StartupNeverWedged and NoOrphan.  None of them is inductive alone: an   *)
(* intent or a container may only go because of what the handler in flight *)
(* has done before, so the inductive invariant says what each step of a    *)
(* frame may rely on.  The second part is what the lifecycle promises its  *)
(* clients on top of that.                                                 *)
(***************************************************************************)
EXTENDS Lifecycle, TLAPS

-----------------------------------------------------------------------------
(* What each database transaction of Ownership keeps true, whatever the    *)
(* caller does around it.                                                  *)

DbInv == DbTypeOK /\ OneIntent /\ StartupNeverWedged

\* Intent id is pending for sandbox s, of kind kind.
HasIntent(id, s, kind) ==
  \E o \in ops : o.id = id /\ o.s = s /\ o.kind = kind

LEMMA DbUnchanged ==
  ASSUME DbInv, UNCHANGED dbVars
  PROVE  DbInv'
  BY DEF DbInv, DbTypeOK, OneIntent, StartupNeverWedged, ValidOperation, dbVars

LEMMA BeginCreateInv ==
  ASSUME DbInv, NEW s \in Sandboxes, NEW id \in OpIds, NEW dl \in Deadlines,
         FindOperation(id) = {}, BeginCreate(s, id, dl)
  PROVE  DbInv' /\ HasIntent(id, s, "create")' /\ UNCHANGED owned /\ s \notin owned
  <1> DEFINE new == [id |-> id, kind |-> "create", s |-> s, native |-> FALSE, dl |-> dl]
  <1>1. new \in Operations /\ new.id = id /\ new.s = s /\ new.kind = "create"
    BY DEF Operations, Kinds
  <1>2. ops' = ops \cup {new} /\ owned' = owned /\ deadline' = deadline /\ s \notin owned
    BY DEF BeginCreate
  <1>3. \A o \in ops : o.s # s /\ o.id # id
    BY DEF BeginCreate, Pending, FindOperation
  <1> HIDE DEF new
  <1>4. DbTypeOK'
    BY <1>1, <1>2 DEF DbInv, DbTypeOK
  <1>5. OneIntent'
    BY <1>1, <1>2, <1>3 DEF DbInv, OneIntent
  <1>6. StartupNeverWedged'
    BY <1>1, <1>2 DEF DbInv, StartupNeverWedged, ValidOperation
  <1>. QED
    BY <1>1, <1>2, <1>4, <1>5, <1>6 DEF DbInv, HasIntent

\* Whatever intent a request may go on with is a proper intent of its sandbox,
\* and no other intent shares its sandbox or its ID.
LEMMA BegunTyped ==
  ASSUME DbInv, NEW s \in Sandboxes, NEW kind \in Kinds, NEW id \in OpIds,
         NEW dl \in Deadlines, FindOperation(id) = {},
         NEW op \in Begun(s, kind, id, dl)
  PROVE  /\ op \in Operations /\ op.s = s /\ op.kind = kind /\ s \in owned
         /\ \A o \in ops : o.s = s <=> o.id = op.id
  <1>1. s \in owned
    BY DEF Begun
  <1>2. CASE Pending(s) = {}
    <2>1. op = [id |-> id, kind |-> kind, s |-> s, native |-> TRUE, dl |-> dl]
      BY <1>1, <1>2 DEF Begun
    <2>. QED
      BY <1>1, <1>2, <2>1 DEF Operations, Pending, FindOperation
  <1>3. CASE Pending(s) # {}
    <2>1. PICK o \in Pending(s) : op = [o EXCEPT !.kind = kind, !.native = TRUE]
      BY <1>1, <1>3 DEF Begun
    <2>2. o \in ops /\ o \in Operations /\ o.s = s
      BY <2>1 DEF Pending, DbInv, DbTypeOK
    <2>3. op \in Operations /\ op.s = s /\ op.kind = kind /\ op.id = o.id
      BY <2>1, <2>2 DEF Operations
    <2>. QED
      BY <1>1, <2>2, <2>3 DEF DbInv, OneIntent
  <1>. QED
    BY <1>2, <1>3

LEMMA BeginOperationInv ==
  ASSUME DbInv, NEW s \in Sandboxes, NEW kind \in Kinds, NEW id \in OpIds,
         NEW dl \in Deadlines, FindOperation(id) = {},
         NEW op \in Begun(s, kind, id, dl), BeginOperation(op)
  PROVE  DbInv' /\ HasIntent(op.id, s, kind)' /\ UNCHANGED owned
  <1>1. /\ op \in Operations /\ op.s = s /\ op.kind = kind /\ s \in owned
        /\ \A o \in ops : o.s = s <=> o.id = op.id
    BY BegunTyped
  <1>2. ops' = {o \in ops : o.id # op.id} \cup {op} /\ owned' = owned
        /\ deadline' = deadline
    BY DEF BeginOperation
  <1>3. DbTypeOK'
    BY <1>1, <1>2 DEF DbInv, DbTypeOK
  <1>4. OneIntent'
    BY <1>1, <1>2 DEF DbInv, OneIntent
  <1>5. StartupNeverWedged'
    BY <1>1, <1>2 DEF DbInv, StartupNeverWedged, ValidOperation
  <1>. QED
    BY <1>1, <1>2, <1>3, <1>4, <1>5 DEF DbInv, HasIntent

LEMMA BindCreationInv ==
  ASSUME DbInv, NEW id \in OpIds, BindCreation(id)
  PROVE  /\ DbInv' /\ UNCHANGED owned
         /\ \A s \in Sandboxes, kind \in Kinds, i \in OpIds :
              HasIntent(i, s, kind) => HasIntent(i, s, kind)'
  <1> DEFINE bound(o) == IF o.id = id THEN [o EXCEPT !.native = TRUE] ELSE o
  <1>1. ops' = {bound(o) : o \in ops} /\ owned' = owned /\ deadline' = deadline
    BY DEF BindCreation
  <1>2. \A o \in ops : /\ bound(o) \in Operations /\ bound(o).id = o.id
                       /\ bound(o).s = o.s /\ bound(o).kind = o.kind
    BY DEF DbInv, DbTypeOK, Operations
  <1> HIDE DEF bound
  <1>3. DbTypeOK'
    BY <1>1, <1>2 DEF DbInv, DbTypeOK
  <1>4. OneIntent'
    BY <1>1, <1>2 DEF DbInv, OneIntent
  <1>5. StartupNeverWedged'
    BY <1>1, <1>2 DEF DbInv, StartupNeverWedged, ValidOperation
  <1>. QED
    BY <1>1, <1>2, <1>3, <1>4, <1>5 DEF DbInv, HasIntent

LEMMA CreateOwnershipInv ==
  ASSUME DbInv, NEW s \in Sandboxes, NEW dl \in Deadlines, CreateOwnership(s, dl)
  PROVE  DbInv' /\ UNCHANGED ops /\ owned' = owned \cup {s}
  BY DEF DbInv, DbTypeOK, OneIntent, StartupNeverWedged, ValidOperation,
         CreateOwnership

LEMMA CompleteOperationInv ==
  ASSUME DbInv, NEW s \in Sandboxes, NEW id \in OpIds, NEW dl \in Deadlines,
         CompleteOperation(s, id, dl)
  PROVE  DbInv' /\ UNCHANGED owned /\ ops' = {o \in ops : o.id # id}
  BY DEF DbInv, DbTypeOK, OneIntent, StartupNeverWedged, ValidOperation,
         CompleteOperation

LEMMA DeleteOperationInv ==
  ASSUME DbInv, NEW s \in Sandboxes, NEW id \in OpIds, NEW kind \in Kinds,
         HasIntent(id, s, kind), DeleteOperation(s, id)
  PROVE  /\ DbInv' /\ owned' = owned \ {s}
         /\ ops' = {o \in ops : o.id # id} /\ ops' = {o \in ops : o.s # s}
  BY DEF DbInv, DbTypeOK, OneIntent, StartupNeverWedged, ValidOperation, HasIntent,
         DeleteOperation, Deadlines, NoDeadline

LEMMA SetDeadlineInv ==
  ASSUME DbInv, NEW s \in Sandboxes, NEW dl \in Deadlines, SetDeadline(s, dl)
  PROVE  DbInv' /\ UNCHANGED <<owned, ops>>
  BY DEF DbInv, DbTypeOK, OneIntent, StartupNeverWedged, ValidOperation, SetDeadline

LEMMA AdoptProvenanceInv ==
  ASSUME DbInv, NEW s \in Sandboxes, AdoptProvenance(s)
  PROVE  DbInv' /\ s \in owned /\ UNCHANGED owned
         /\ ops' = {o \in ops : ~(o.s = s /\ o.kind = "create")}
  BY DEF DbInv, DbTypeOK, OneIntent, StartupNeverWedged, ValidOperation,
         AdoptProvenance, CanAdopt

-----------------------------------------------------------------------------
(* What a handler in flight may rely on, and the memory of the process.    *)

CreateSteps == {"create.native", "create.bind", "create.start", "create.commit",
                "create.undo", "create.forget", "create.own"}
RunSteps == {"run.native", "run.complete"}
StopSteps == {"stop.native", "stop.complete"}
RemoveSteps == {"remove.native", "remove.delete"}
ReconcileSteps == {"reconcile.native", "reconcile.commit"}
IntentSteps == CreateSteps \cup RunSteps \cup StopSteps \cup RemoveSteps
                 \cup ReconcileSteps
ReturnSteps == {"retry", "ret", "reconcile.ret"}
TtlSteps == {"ttl.check", "ttl.stop"}

\* What a frame is and what it may rely on at each step: its intent is pending,
\* a creation has no row yet, and a container is gone before its row goes.
FrameInv ==
  /\ h \in FrameType
  /\ h.pc \in IntentSteps \cup ReturnSteps \cup TtlSteps => h.s \in Sandboxes
  /\ h.pc \in IntentSteps \cup ReturnSteps => h.id \in OpIds /\ h.kind \in Kinds
  /\ h.pc \in IntentSteps => HasIntent(h.id, h.s, h.kind)
  /\ h.pc \in CreateSteps => h.kind = "create" /\ h.s \notin owned
  /\ h.pc \in RunSteps => h.kind \in {"start", "restart"}
  /\ h.pc \in StopSteps => h.kind = "stop"
  /\ h.pc \in RemoveSteps => h.kind = "delete"
  /\ \/ h.pc \in {"create.forget", "remove.delete"}
     \/ h.pc = "reconcile.commit" /\ h.kind \in {"create", "delete"}
     => ctr[h.s] = "absent"

\* The durable state, the containers and the frame.
Core == DbInv /\ ctr \in [Sandboxes -> CtrType] /\ FrameInv /\ NoOrphan

\* The bound on timer firings leaves an entry for ScheduleDeadline.
EntryFree == \A s \in Sandboxes : \E e \in Entries : e \notin EntriesOf(s)

QueueInv ==
  /\ ttlJobs \subseteq (Sandboxes \X Entries)
  /\ worker \in WorkerType
  /\ worker.job = "ttl" => worker.s \in Sandboxes
  /\ EntryFree

\* A timer that is armed has an entry.
TimerValues == {NoTimer} \cup [entry : Entries, dl : 0 .. MaxTtl]

\* The memory of the server process.
Memory ==
  /\ timer \in [Sandboxes -> TimerValues]
  /\ opJobs \subseteq OpIds
  /\ QueueInv
  /\ attempt \in [Sandboxes -> 0 .. MaxOps]
  /\ svc \in [Sandboxes -> SvcType]
  /\ up \in {"down", "boot", "serving", "draining", "closing"}
  /\ sweep \in SweepType
  /\ faults \in 0 .. MaxFaults

Inv == Core /\ Memory

-----------------------------------------------------------------------------
(* Memory.                                                                 *)

LEMMA NewOpFresh ==
  ASSUME HasFreshOp
  PROVE  NewOp \in OpIds /\ FindOperation(NewOp) = {}
  BY DEF HasFreshOp, FreshOps, NewOp, UsedOps, FindOperation

LEMMA ScheduleTyped ==
  ASSUME Memory, NEW s \in Sandboxes, NEW dl \in Deadlines, ScheduleDeadline(s, dl)
  PROVE  timer' \in [Sandboxes -> TimerValues]
  <1>1. NewEntry(s) \in Entries
    BY DEF Memory, QueueInv, EntryFree, NewEntry
  <1>2. [entry |-> NewEntry(s), dl |-> IF dl > 0 THEN dl ELSE 0] \in TimerValues
    BY <1>1, OwnershipAssumption, HandlersAssumption
    DEF TimerValues, Deadlines, NoDeadline
  <1>. QED
    BY <1>2 DEF Memory, ScheduleDeadline

LEMMA CancelTyped ==
  ASSUME Memory, NEW s \in Sandboxes, CancelTimer(s)
  PROVE  timer' \in [Sandboxes -> TimerValues]
  <1>1. NoTimer \in TimerValues
    BY OwnershipAssumption, HandlersAssumption DEF NoTimer, TimerValues
  <1>. QED
    BY <1>1 DEF Memory, CancelTimer

LEMMA FaultTyped ==
  ASSUME Memory, Fault
  PROVE  faults' \in 0 .. MaxFaults
  BY HandlersAssumption DEF Memory, Fault

LEMMA QueueUnchanged ==
  ASSUME QueueInv, UNCHANGED <<ttlJobs, worker>>
  PROVE  QueueInv'
  BY DEF QueueInv, EntryFree, EntriesOf

LEMMA WorkerEndsTyped ==
  ASSUME QueueInv, NEW res \in {"run", "locked", "ok", "err"}, WorkerEnds(res),
         UNCHANGED ttlJobs
  PROVE  QueueInv'
  <1>1. /\ worker' \in WorkerType /\ worker'.s = worker.s
        /\ worker'.job = worker.job /\ worker'.entry = worker.entry
    BY DEF QueueInv, WorkerEnds, WorkerType
  <1>. QED
    BY <1>1 DEF QueueInv, EntryFree, EntriesOf

LEMMA NoWorkerTyped ==
  ASSUME QueueInv, worker' = NoWorker, ttlJobs' \subseteq ttlJobs
  PROVE  QueueInv'
  <1>1. /\ NoWorker \in WorkerType /\ NoWorker.s = Nobody /\ NoWorker.job = "none"
    BY OwnershipAssumption, HandlersAssumption DEF NoWorker, WorkerType
  <1>2. \A s \in Sandboxes : EntriesOf(s)' \subseteq EntriesOf(s)
    BY <1>1, HandlersAssumption DEF EntriesOf
  <1>. QED
    BY <1>1, <1>2 DEF QueueInv, EntryFree

LEMMA QueueOperationTyped ==
  ASSUME Memory, NEW id \in 0 .. MaxOps, QueueOperation(id)
  PROVE  opJobs' \subseteq OpIds
  BY OwnershipAssumption DEF Memory, QueueOperation, OpIds

-----------------------------------------------------------------------------
(* Frames.                                                                 *)

LEMMA IdleTyped == Idle \in FrameType /\ Idle.pc = "idle"
  BY OwnershipAssumption DEF Idle, FrameType, Callers, Steps, Deadlines, NoDeadline

LEMMA GotoTyped ==
  ASSUME h \in FrameType, NEW pc \in Steps, Goto(pc)
  PROVE  /\ h' \in FrameType /\ h'.pc = pc /\ h'.s = h.s /\ h'.id = h.id
         /\ h'.kind = h.kind /\ h'.dl = h.dl
  BY DEF FrameType, Goto

LEMMA DbFailsTyped ==
  ASSUME h \in FrameType, NEW pc \in Steps, DbFails(pc)
  PROVE  /\ h' \in FrameType /\ h'.pc = pc /\ h'.s = h.s /\ h'.id = h.id
         /\ h'.kind = h.kind /\ h'.dl = h.dl /\ Fault /\ UNCHANGED dbVars
  BY DEF FrameType, DbFails

LEMMA NativeCallTyped ==
  ASSUME h \in FrameType, h.s \in Sandboxes, ctr \in [Sandboxes -> CtrType],
         NEW eff \in CtrType, NEW okPc \in Steps, NEW errPc \in Steps,
         okPc # errPc, NativeCall(eff, okPc, errPc)
  PROVE  /\ h' \in FrameType /\ h'.pc \in {okPc, errPc} /\ h'.s = h.s
         /\ h'.id = h.id /\ h'.kind = h.kind /\ h'.dl = h.dl
         /\ ctr' \in [Sandboxes -> CtrType]
         /\ \A s \in Sandboxes : s # h.s => ctr'[s] = ctr[s]
         /\ ctr'[h.s] \in {ctr[h.s], eff}
         /\ h'.pc = okPc => ctr'[h.s] = eff
         /\ Fault \/ UNCHANGED faults
  <1>1. CASE /\ ctr' = [ctr EXCEPT ![h.s] = eff]
             /\ h' = [h EXCEPT !.pc = okPc]
             /\ UNCHANGED faults
    BY <1>1 DEF FrameType
  <1>2. CASE /\ Fault
             /\ ctr' \in {ctr, [ctr EXCEPT ![h.s] = eff]}
             /\ h' = [h EXCEPT !.pc = errPc, !.res = "err"]
    <2>1. h' \in FrameType /\ h'.pc = errPc /\ h'.s = h.s /\ h'.id = h.id
          /\ h'.kind = h.kind /\ h'.dl = h.dl
      BY <1>2 DEF FrameType
    <2>2. /\ ctr' \in [Sandboxes -> CtrType]
          /\ \A s \in Sandboxes : s # h.s => ctr'[s] = ctr[s]
          /\ ctr'[h.s] \in {ctr[h.s], eff}
      BY <1>2
    <2>. QED
      BY <1>2, <2>1, <2>2
  <1>. QED
    BY <1>1, <1>2 DEF NativeCall

LEMMA FrameTyped ==
  ASSUME NEW by \in Callers, NEW pc \in Steps, NEW op,
         op.id \in OpIds, op.s \in Sandboxes, op.kind \in Kinds, op.dl \in Deadlines
  PROVE  /\ Frame(by, pc, op) \in FrameType
         /\ Frame(by, pc, op).pc = pc /\ Frame(by, pc, op).s = op.s
         /\ Frame(by, pc, op).id = op.id /\ Frame(by, pc, op).kind = op.kind
  BY OwnershipAssumption DEF Frame, FrameType, OpIds

LEMMA SweepFrameTyped ==
  ASSUME NEW by \in Callers, NEW pc \in {"boot", "shutdown"}
  PROVE  SweepFrame(by, pc) \in FrameType /\ SweepFrame(by, pc).pc = pc
  BY IdleTyped DEF SweepFrame, FrameType, Steps, Idle

\* Nothing durable changes, no container appears, and the frame goes on to a
\* step that relies on nothing.
LEMMA CoreQuiet ==
  ASSUME Core, UNCHANGED dbVars, UNCHANGED ctr, h' \in FrameType,
         h'.pc \in {"idle", "boot", "shutdown"}
  PROVE  Core'
  <1>1. DbInv'
    BY DbUnchanged DEF Core
  <1>2. FrameInv'
    BY DEF FrameInv, IntentSteps, ReturnSteps, TtlSteps, CreateSteps, RunSteps,
           StopSteps, RemoveSteps, ReconcileSteps
  <1>3. NoOrphan'
    BY DEF Core, NoOrphan, Pending, dbVars
  <1>. QED
    BY <1>1, <1>2, <1>3 DEF Core

LEMMA CoreUnchanged ==
  ASSUME Core, UNCHANGED dbVars, UNCHANGED ctr, UNCHANGED h
  PROVE  Core'
  <1>1. DbInv'
    BY DbUnchanged DEF Core
  <1>2. FrameInv'
    BY DEF Core, FrameInv, HasIntent, dbVars
  <1>3. NoOrphan'
    BY DEF Core, NoOrphan, Pending, dbVars
  <1>. QED
    BY <1>1, <1>2, <1>3 DEF Core

-----------------------------------------------------------------------------
(* What the steps have in common.                                          *)

\* The frame goes on with its intent: the classes of step agree with its kind.
LEMMA FrameKept ==
  ASSUME FrameInv, h.pc \in IntentSteps, h' \in FrameType, h'.s = h.s,
         h'.id = h.id, h'.kind = h.kind, h'.pc \in IntentSteps,
         HasIntent(h.id, h.s, h.kind)', owned' = owned,
         h'.pc \in CreateSteps => h.pc \in CreateSteps,
         h'.pc \in RunSteps => h.pc \in RunSteps,
         h'.pc \in StopSteps => h.pc \in StopSteps,
         h'.pc \in RemoveSteps => h.pc \in RemoveSteps,
         h'.pc \in {"create.forget", "remove.delete", "reconcile.commit"} =>
           ctr'[h.s] = "absent" \/ (h'.pc = "reconcile.commit" /\ h.kind \notin {"create", "delete"})
  PROVE  FrameInv'
  BY DEF FrameInv, HasIntent

\* The frame is done with its intent.
LEMMA FrameReturns ==
  ASSUME FrameInv, h.pc \in IntentSteps \cup ReturnSteps, h' \in FrameType, h'.s = h.s,
         h'.id = h.id, h'.kind = h.kind, h'.pc \in ReturnSteps
  PROVE  FrameInv'
  BY DEF FrameInv, IntentSteps, ReturnSteps, CreateSteps, RunSteps, StopSteps,
         RemoveSteps, ReconcileSteps, TtlSteps

\* A frame is entered with a pending intent.
LEMMA FrameBegins ==
  ASSUME NEW by \in Callers, NEW pc \in RunSteps \cup StopSteps \cup RemoveSteps
                                          \cup {"reconcile.native"},
         NEW op \in Operations, h' = Frame(by, pc, op),
         HasIntent(op.id, op.s, op.kind)',
         pc \in RunSteps => op.kind \in {"start", "restart"},
         pc \in StopSteps => op.kind = "stop",
         pc \in RemoveSteps => op.kind = "delete",
         pc # "remove.delete"
  PROVE  FrameInv'
  <1>1. /\ op.id \in OpIds /\ op.s \in Sandboxes /\ op.kind \in Kinds
        /\ op.dl \in Deadlines
    BY DEF Operations
  <1>2. pc \in Steps /\ pc \in IntentSteps
    BY DEF Steps, IntentSteps, RunSteps, StopSteps, RemoveSteps, ReconcileSteps
  <1>3. /\ h' \in FrameType /\ h'.pc = pc /\ h'.s = op.s /\ h'.id = op.id
        /\ h'.kind = op.kind
    BY <1>1, <1>2, FrameTyped
  <1>. QED
    BY <1>1, <1>2, <1>3 DEF FrameInv, IntentSteps, ReturnSteps, CreateSteps, RunSteps,
       StopSteps, RemoveSteps, ReconcileSteps, TtlSteps

\* A native call: one container changes, and appears only under its creation.
LEMMA NativeCore ==
  ASSUME Core, UNCHANGED dbVars, h.s \in Sandboxes,
         ctr' \in [Sandboxes -> CtrType],
         \A s \in Sandboxes : s # h.s => ctr'[s] = ctr[s],
         ctr'[h.s] # "absent" =>
           ctr[h.s] # "absent" \/ HasIntent(h.id, h.s, "create"),
         FrameInv'
  PROVE  Core'
  <1>1. DbInv'
    BY DbUnchanged DEF Core
  <1>2. NoOrphan'
    <2> SUFFICES ASSUME NEW s \in Sandboxes, ctr'[s] # "absent"
                 PROVE  s \in owned' \/ \E o \in Pending(s)' : o.kind = "create"
      BY DEF NoOrphan
    <2>1. owned' = owned /\ Pending(s)' = Pending(s)
      BY DEF dbVars, Pending
    <2>2. ctr[s] # "absent" \/ \E o \in Pending(s) : o.kind = "create"
      BY DEF HasIntent, Pending
    <2>. QED
      BY <2>1, <2>2 DEF Core, NoOrphan
  <1>. QED
    BY <1>1, <1>2 DEF Core

\* BeginOperation turns a creation into a deletion only when there is a row.
LEMMA BeginCore ==
  ASSUME Core, NEW s \in Sandboxes, NEW kind \in Kinds, NEW dl \in Deadlines,
         HasFreshOp, NEW op \in Begun(s, kind, NewOp, dl), BeginOperation(op),
         UNCHANGED ctr, NEW by \in Callers,
         NEW pc \in {"run.native", "stop.native", "remove.native"},
         pc = "run.native" => kind \in {"start", "restart"},
         pc = "stop.native" => kind = "stop",
         pc = "remove.native" => kind = "delete",
         h' = Frame(by, pc, op)
  PROVE  Core'
  <1>1. NewOp \in OpIds /\ FindOperation(NewOp) = {}
    BY NewOpFresh
  <1>2. DbInv
    BY DEF Core
  <1>3. /\ op \in Operations /\ op.s = s /\ op.kind = kind /\ s \in owned
        /\ \A o \in ops : o.s = s <=> o.id = op.id
    BY <1>1, <1>2, BegunTyped
  <1>4. DbInv' /\ HasIntent(op.id, s, kind)' /\ owned' = owned
    BY <1>1, <1>2, BeginOperationInv
  <1>5. FrameInv'
    <2>1. pc \in RunSteps \cup StopSteps \cup RemoveSteps \cup {"reconcile.native"}
          /\ (pc \in RunSteps => op.kind \in {"start", "restart"})
          /\ (pc \in StopSteps => op.kind = "stop")
          /\ (pc \in RemoveSteps => op.kind = "delete")
          /\ pc # "remove.delete"
      BY <1>3 DEF RunSteps, StopSteps, RemoveSteps
    <2>2. HasIntent(op.id, op.s, op.kind)'
      BY <1>3, <1>4
    <2>. QED
      BY <1>3, <2>1, <2>2, FrameBegins
  <1>6. NoOrphan'
    <2> SUFFICES ASSUME NEW t \in Sandboxes, ctr'[t] # "absent", t \notin owned'
                 PROVE  \E o \in Pending(t)' : o.kind = "create"
      BY DEF NoOrphan
    <2>1. t # s
      BY <1>3, <1>4
    <2>2. PICK o \in ops : o.s = t /\ o.kind = "create"
      BY <1>4 DEF Core, NoOrphan, Pending
    <2>3. o \in ops'
      BY <1>3, <2>1, <2>2 DEF BeginOperation
    <2>. QED
      BY <2>2, <2>3 DEF Pending
  <1>. QED
    BY <1>4, <1>5, <1>6 DEF Core

\* CompleteOperation retires an intent that is no creation.
LEMMA CompleteCore ==
  ASSUME Core, h.pc \in IntentSteps, h.kind # "create", NEW dl \in Deadlines,
         CompleteOperation(h.s, h.id, dl), UNCHANGED ctr, Goto("retry") \/ Goto("reconcile.ret")
  PROVE  Core'
  <1>1. /\ h.s \in Sandboxes /\ h.id \in OpIds /\ h.kind \in Kinds
        /\ HasIntent(h.id, h.s, h.kind) /\ DbInv /\ FrameInv /\ h \in FrameType
    BY DEF Core, FrameInv
  <1>2. DbInv' /\ owned' = owned /\ ops' = {o \in ops : o.id # h.id}
    BY <1>1, CompleteOperationInv
  <1>3. FrameInv'
    <2>1. "retry" \in Steps /\ "reconcile.ret" \in Steps
      BY DEF Steps
    <2>2. /\ h' \in FrameType /\ h'.s = h.s /\ h'.id = h.id /\ h'.kind = h.kind
          /\ h'.pc \in ReturnSteps
      BY <1>1, <2>1, GotoTyped DEF ReturnSteps
    <2>. QED
      BY <1>1, <2>2, FrameReturns
  <1>4. NoOrphan'
    <2>1. \A o \in ops : o.kind = "create" => o.id # h.id
      BY <1>1 DEF HasIntent, DbInv, OneIntent
    <2>. QED
      BY <1>2, <2>1 DEF Core, NoOrphan, Pending
  <1>. QED
    BY <1>2, <1>3, <1>4 DEF Core

\* DeleteOperation retires an intent whose container is gone.
LEMMA DeleteCore ==
  ASSUME Core, h.pc \in IntentSteps, ctr[h.s] = "absent",
         DeleteOperation(h.s, h.id), UNCHANGED ctr,
         Goto("retry") \/ Goto("reconcile.ret")
  PROVE  Core'
  <1>1. /\ h.s \in Sandboxes /\ h.id \in OpIds /\ h.kind \in Kinds
        /\ HasIntent(h.id, h.s, h.kind) /\ DbInv /\ FrameInv /\ h \in FrameType
    BY DEF Core, FrameInv
  <1>2. DbInv' /\ owned' = owned \ {h.s} /\ ops' = {o \in ops : o.s # h.s}
    BY <1>1, DeleteOperationInv
  <1>3. FrameInv'
    <2>1. "retry" \in Steps /\ "reconcile.ret" \in Steps
      BY DEF Steps
    <2>2. /\ h' \in FrameType /\ h'.s = h.s /\ h'.id = h.id /\ h'.kind = h.kind
          /\ h'.pc \in ReturnSteps
      BY <1>1, <2>1, GotoTyped DEF ReturnSteps
    <2>. QED
      BY <1>1, <2>2, FrameReturns
  <1>4. NoOrphan'
    BY <1>2 DEF Core, NoOrphan, Pending
  <1>. QED
    BY <1>2, <1>3, <1>4 DEF Core

\* A database step that fails changes nothing durable.
LEMMA DbFailsCore ==
  ASSUME Core, h.pc \in IntentSteps, UNCHANGED ctr,
         NEW pc \in ReturnSteps \cup {"create.undo"}, DbFails(pc),
         pc = "create.undo" => h.pc \in CreateSteps
  PROVE  Core'
  <1>1. FrameInv /\ h \in FrameType /\ h.s \in Sandboxes
    BY DEF Core, FrameInv
  <1>2. pc \in Steps
    BY DEF Steps, ReturnSteps
  <1>3. /\ h' \in FrameType /\ h'.pc = pc /\ h'.s = h.s /\ h'.id = h.id
        /\ h'.kind = h.kind /\ UNCHANGED dbVars
    BY <1>1, <1>2, DbFailsTyped
  <1>4. CASE pc \in ReturnSteps
    <2>1. FrameInv'
      BY <1>1, <1>3, <1>4, FrameReturns
    <2>. QED
      BY <1>1, <1>3, <2>1, NativeCore DEF Core
  <1>5. CASE pc = "create.undo"
    <2>1. HasIntent(h.id, h.s, h.kind)' /\ owned' = owned
      BY <1>1, <1>3 DEF FrameInv, HasIntent, dbVars
    <2>2. h'.pc \in IntentSteps /\ h.pc \in CreateSteps
          /\ h'.pc \notin RunSteps \cup StopSteps \cup RemoveSteps
          /\ h'.pc \notin {"create.forget", "remove.delete", "reconcile.commit"}
      BY <1>3, <1>5 DEF IntentSteps, CreateSteps, RunSteps, StopSteps, RemoveSteps
    <2>3. FrameInv'
      BY <1>1, <1>3, <2>1, <2>2, FrameKept
    <2>. QED
      BY <1>1, <1>3, <2>3, NativeCore DEF Core
  <1>. QED
    BY <1>4, <1>5

-----------------------------------------------------------------------------
(* One lemma per step that touches containers, database or frame.          *)

\* A native call that returns to a step with the intent, or gives it up.
LEMMA NativeCallCore ==
  ASSUME Core, UNCHANGED dbVars, h.pc \in IntentSteps,
         NEW eff \in CtrType, NEW okPc \in IntentSteps \ {"create.own"},
         NEW errPc \in ReturnSteps \cup {"create.undo", "create.own"},
         okPc # errPc, NativeCall(eff, okPc, errPc),
         okPc \in CreateSteps <=> h.pc \in CreateSteps,
         okPc \in RunSteps => h.pc \in RunSteps,
         okPc \in StopSteps => h.pc \in StopSteps,
         okPc \in RemoveSteps => h.pc \in RemoveSteps,
         errPc \in {"create.undo", "create.own"} => h.pc \in CreateSteps,
         okPc \in {"create.forget", "remove.delete", "reconcile.commit"} =>
           eff = "absent" \/ (okPc = "reconcile.commit" /\ h.kind \notin {"create", "delete"}),
         eff # "absent" => ctr[h.s] # "absent" \/ h.kind = "create"
  PROVE  Core' /\ (Fault \/ UNCHANGED faults)
  <1>1. /\ FrameInv /\ h \in FrameType /\ h.s \in Sandboxes
        /\ HasIntent(h.id, h.s, h.kind) /\ ctr \in [Sandboxes -> CtrType]
    BY DEF Core, FrameInv
  <1>2. okPc \in Steps /\ errPc \in Steps
    BY DEF Steps, IntentSteps, ReturnSteps, CreateSteps, RunSteps, StopSteps,
           RemoveSteps, ReconcileSteps
  <1>3. /\ h' \in FrameType /\ h'.pc \in {okPc, errPc} /\ h'.s = h.s
        /\ h'.id = h.id /\ h'.kind = h.kind /\ h'.dl = h.dl
        /\ ctr' \in [Sandboxes -> CtrType]
        /\ \A s \in Sandboxes : s # h.s => ctr'[s] = ctr[s]
        /\ ctr'[h.s] \in {ctr[h.s], eff}
        /\ h'.pc = okPc => ctr'[h.s] = eff
        /\ Fault \/ UNCHANGED faults
    BY <1>1, <1>2, NativeCallTyped
  <1>4. HasIntent(h.id, h.s, h.kind)' /\ owned' = owned
    BY <1>1, <1>3 DEF HasIntent, dbVars
  <1>5. FrameInv'
    <2>1. CASE h'.pc \in ReturnSteps
      BY <1>1, <1>3, <2>1, FrameReturns
    <2>2. CASE h'.pc = okPc
      BY <1>1, <1>3, <1>4, <2>2, FrameKept
    <2>3. CASE h'.pc \in {"create.undo", "create.own"} /\ h'.pc = errPc
      <3>1. h'.pc \in IntentSteps /\ h.pc \in CreateSteps
            /\ h'.pc \notin RunSteps \cup StopSteps \cup RemoveSteps
            /\ h'.pc \notin {"create.forget", "remove.delete", "reconcile.commit"}
        BY <2>3 DEF IntentSteps, CreateSteps, RunSteps, StopSteps, RemoveSteps
      <3>. QED
        BY <1>1, <1>3, <1>4, <3>1, FrameKept
    <2>. QED
      BY <1>3, <2>1, <2>2, <2>3
  <1>6. ctr'[h.s] # "absent" => ctr[h.s] # "absent" \/ HasIntent(h.id, h.s, "create")
    BY <1>1, <1>3
  <1>. QED
    BY <1>1, <1>3, <1>5, <1>6, NativeCore

\* The frame goes on by itself to its next step, or returns.
LEMMA GotoCore ==
  ASSUME Core, UNCHANGED dbVars, UNCHANGED ctr, h.pc \in IntentSteps,
         NEW pc \in ReturnSteps \cup {"create.undo"}, Goto(pc),
         pc = "create.undo" => h.pc \in CreateSteps
  PROVE  Core'
  <1>1. FrameInv /\ h \in FrameType /\ h.s \in Sandboxes
    BY DEF Core, FrameInv
  <1>2. pc \in Steps
    BY DEF Steps, ReturnSteps
  <1>3. /\ h' \in FrameType /\ h'.pc = pc /\ h'.s = h.s /\ h'.id = h.id
        /\ h'.kind = h.kind
    BY <1>1, <1>2, GotoTyped
  <1>4. HasIntent(h.id, h.s, h.kind)' /\ owned' = owned
    BY <1>1, <1>3 DEF FrameInv, HasIntent, dbVars
  <1>5. FrameInv'
    <2>1. CASE pc \in ReturnSteps
      BY <1>1, <1>3, <2>1, FrameReturns
    <2>2. CASE pc = "create.undo"
      <3>1. h'.pc \in IntentSteps /\ h.pc \in CreateSteps
            /\ h'.pc \notin RunSteps \cup StopSteps \cup RemoveSteps
            /\ h'.pc \notin {"create.forget", "remove.delete", "reconcile.commit"}
        BY <1>3, <2>2 DEF IntentSteps, CreateSteps, RunSteps, StopSteps, RemoveSteps
      <3>. QED
        BY <1>1, <1>3, <1>4, <3>1, FrameKept
    <2>. QED
      BY <2>1, <2>2
  <1>. QED
    BY <1>1, <1>5, NativeCore DEF Core

LEMMA CreateNativeCore ==
  ASSUME Core, CreateNative
  PROVE  Core' /\ (Fault \/ UNCHANGED faults)
  <1>1. h.pc = "create.native" /\ h.kind = "create"
        /\ NativeCall("stopped", "create.bind", "retry") /\ UNCHANGED dbVars
    BY DEF CreateNative, Core, FrameInv, CreateSteps
  <1>2. "stopped" \in CtrType
    BY DEF CtrType
  <1>3. h.pc \in IntentSteps /\ "create.bind" \in IntentSteps /\ "retry" \in ReturnSteps
        /\ "create.bind" \in CreateSteps /\ h.pc \in CreateSteps
        /\ "create.bind" \notin RunSteps \cup StopSteps \cup RemoveSteps
    BY <1>1 DEF IntentSteps, CreateSteps, RunSteps, StopSteps, RemoveSteps, ReturnSteps
  <1>. QED
    BY <1>1, <1>2, <1>3, NativeCallCore

LEMMA CreateStartCore ==
  ASSUME Core, CreateStart
  PROVE  Core' /\ (Fault \/ UNCHANGED faults)
  <1>1. h.pc = "create.start" /\ h.kind = "create" /\ UNCHANGED dbVars
    BY DEF CreateStart, Core, FrameInv, CreateSteps
  <1>2. "running" \in CtrType
    BY DEF CtrType
  <1>3. h.pc \in IntentSteps /\ "create.commit" \in IntentSteps
        /\ "create.commit" \in CreateSteps /\ h.pc \in CreateSteps
        /\ "create.commit" \notin RunSteps \cup StopSteps \cup RemoveSteps
    BY <1>1 DEF IntentSteps, CreateSteps, RunSteps, StopSteps, RemoveSteps
  <1>4. CASE NativeCall("running", "create.commit", "create.undo")
    BY <1>1, <1>2, <1>3, <1>4, NativeCallCore
  <1>5. CASE Goto("create.undo") /\ UNCHANGED <<ctr, faults>>
    BY <1>1, <1>3, <1>5, GotoCore
  <1>. QED
    BY <1>4, <1>5 DEF CreateStart

LEMMA CreateUndoCore ==
  ASSUME Core, CreateUndo
  PROVE  Core' /\ (Fault \/ UNCHANGED faults)
  <1>1. h.pc = "create.undo" /\ h.kind = "create" /\ UNCHANGED dbVars
        /\ NativeCall("absent", "create.forget", "create.own")
    BY DEF CreateUndo, Core, FrameInv, CreateSteps
  <1>2. "absent" \in CtrType
    BY DEF CtrType
  <1>3. h.pc \in IntentSteps /\ "create.forget" \in IntentSteps
        /\ "create.forget" \in CreateSteps /\ h.pc \in CreateSteps
        /\ "create.forget" \notin RunSteps \cup StopSteps \cup RemoveSteps
    BY <1>1 DEF IntentSteps, CreateSteps, RunSteps, StopSteps, RemoveSteps
  <1>. QED
    BY <1>1, <1>2, <1>3, NativeCallCore

LEMMA RunNativeCore ==
  ASSUME Core, RunNative
  PROVE  Core' /\ (Fault \/ UNCHANGED faults)
  <1>1. h.pc = "run.native" /\ UNCHANGED dbVars
    BY DEF RunNative
  <1>2. "running" \in CtrType /\ "stopped" \in CtrType
    BY DEF CtrType
  <1>3. h.pc \in IntentSteps /\ "run.complete" \in IntentSteps
        /\ "run.complete" \in RunSteps /\ h.pc \in RunSteps /\ "retry" \in ReturnSteps
        /\ {h.pc, "run.complete"} \cap (CreateSteps \cup StopSteps \cup RemoveSteps) = {}
    BY <1>1 DEF IntentSteps, CreateSteps, RunSteps, StopSteps, RemoveSteps, ReturnSteps
  <1>4. CASE Goto("retry") /\ UNCHANGED <<ctr, faults>>
    BY <1>1, <1>3, <1>4, GotoCore
  <1>5. CASE ctr[h.s] # "absent" /\ NativeCall("running", "run.complete", "retry")
    BY <1>1, <1>2, <1>3, <1>5, NativeCallCore
  <1>6. CASE ctr[h.s] # "absent" /\ HalfRestart
    <2>1. FrameInv /\ h \in FrameType /\ h.s \in Sandboxes
          /\ ctr \in [Sandboxes -> CtrType]
      BY <1>3 DEF Core, FrameInv
    <2>2. /\ h' \in FrameType /\ h'.pc = "retry" /\ h'.s = h.s /\ h'.id = h.id
          /\ h'.kind = h.kind
      BY <1>6, <2>1 DEF HalfRestart, FrameType, Steps
    <2>3. /\ ctr' \in [Sandboxes -> CtrType]
          /\ \A s \in Sandboxes : s # h.s => ctr'[s] = ctr[s]
      BY <1>2, <1>6, <2>1 DEF HalfRestart
    <2>4. FrameInv'
      BY <1>3, <2>1, <2>2, FrameReturns
    <2>. QED
      BY <1>1, <1>6, <2>1, <2>3, <2>4, NativeCore DEF HalfRestart
  <1>. QED
    BY <1>4, <1>5, <1>6 DEF RunNative

LEMMA StoppedType ==
  ASSUME NEW state \in CtrType
  PROVE  Stopped(state) \in CtrType /\ (state = "absent" <=> Stopped(state) = "absent")
  BY DEF Stopped, Live, CtrType

LEMMA StopNativeCore ==
  ASSUME Core, StopNative
  PROVE  Core' /\ (Fault \/ UNCHANGED faults)
  <1>1. h.pc = "stop.native" /\ UNCHANGED dbVars
        /\ NativeCall(Stopped(ctr[h.s]), "stop.complete", "retry")
    BY DEF StopNative
  <1>2. h.pc \in IntentSteps /\ "stop.complete" \in IntentSteps
        /\ "stop.complete" \in StopSteps /\ h.pc \in StopSteps /\ "retry" \in ReturnSteps
        /\ {h.pc, "stop.complete"} \cap (CreateSteps \cup RunSteps \cup RemoveSteps) = {}
    BY <1>1 DEF IntentSteps, CreateSteps, RunSteps, StopSteps, RemoveSteps, ReturnSteps
  <1>3. Stopped(ctr[h.s]) \in CtrType
        /\ (Stopped(ctr[h.s]) # "absent" => ctr[h.s] # "absent")
    BY <1>2, StoppedType DEF Core, FrameInv
  <1>. QED
    BY <1>1, <1>2, <1>3, NativeCallCore

LEMMA RemoveNativeCore ==
  ASSUME Core, RemoveNative
  PROVE  Core' /\ (Fault \/ UNCHANGED faults)
  <1>1. h.pc = "remove.native" /\ UNCHANGED dbVars
        /\ NativeCall("absent", "remove.delete", "retry")
    BY DEF RemoveNative
  <1>2. h.pc \in IntentSteps /\ "remove.delete" \in IntentSteps
        /\ "remove.delete" \in RemoveSteps /\ h.pc \in RemoveSteps
        /\ "retry" \in ReturnSteps
        /\ {h.pc, "remove.delete"} \cap (CreateSteps \cup RunSteps \cup StopSteps) = {}
    BY <1>1 DEF IntentSteps, CreateSteps, RunSteps, StopSteps, RemoveSteps, ReturnSteps
  <1>3. "absent" \in CtrType
    BY DEF CtrType
  <1>. QED
    BY <1>1, <1>2, <1>3, NativeCallCore

LEMMA ReconcileNativeCore ==
  ASSUME Core, ReconcileNative
  PROVE  Core' /\ (Fault \/ UNCHANGED faults)
  <1>1. h.pc = "reconcile.native" /\ UNCHANGED dbVars
    BY DEF ReconcileNative
  <1>2. h.pc \in IntentSteps /\ "reconcile.commit" \in IntentSteps
        /\ "reconcile.ret" \in ReturnSteps
        /\ {h.pc, "reconcile.commit"}
             \cap (CreateSteps \cup RunSteps \cup StopSteps \cup RemoveSteps) = {}
    BY <1>1 DEF IntentSteps, CreateSteps, RunSteps, StopSteps, RemoveSteps,
       ReconcileSteps, ReturnSteps
  <1>3. /\ FrameInv /\ h \in FrameType /\ h.s \in Sandboxes
        /\ HasIntent(h.id, h.s, h.kind) /\ ctr \in [Sandboxes -> CtrType]
    BY <1>2 DEF Core, FrameInv
  <1>4. CASE h.kind \in {"create", "delete"}
             /\ NativeCall("absent", "reconcile.commit", "reconcile.ret")
    <2>1. "absent" \in CtrType
      BY DEF CtrType
    <2>. QED
      BY <1>1, <1>2, <1>4, <2>1, NativeCallCore
  <1>5. CASE h.kind = "stop"
             /\ NativeCall(Stopped(ctr[h.s]), "reconcile.commit", "reconcile.ret")
    <2>1. Stopped(ctr[h.s]) \in CtrType
          /\ (Stopped(ctr[h.s]) # "absent" => ctr[h.s] # "absent")
      BY <1>3, StoppedType
    <2>. QED
      BY <1>1, <1>2, <1>5, <2>1, NativeCallCore
  <1>6. CASE /\ h.kind \in {"start", "restart"} /\ UNCHANGED ctr
             /\ h' = [h EXCEPT !.pc = "reconcile.commit", !.saw = ctr[h.s] \in Live]
             /\ UNCHANGED faults
    <2> DEFINE live == ctr[h.s] \in Live
    <2>0. live \in BOOLEAN /\ h' = [h EXCEPT !.pc = "reconcile.commit", !.saw = live]
      BY <1>6
    <2> HIDE DEF live
    <2>1. /\ h' \in FrameType /\ h'.pc = "reconcile.commit" /\ h'.s = h.s
          /\ h'.id = h.id /\ h'.kind = h.kind
      BY <1>3, <2>0 DEF FrameType, Steps
    <2>2. HasIntent(h.id, h.s, h.kind)' /\ owned' = owned
      BY <1>1, <1>3, <2>1 DEF HasIntent, dbVars
    <2>3. FrameInv'
      BY <1>2, <1>3, <1>6, <2>1, <2>2, FrameKept
    <2>. QED
      BY <1>1, <1>3, <1>6, <2>3, NativeCore
  <1>7. CASE /\ UNCHANGED ctr /\ Fault
             /\ h' = [h EXCEPT !.pc = "reconcile.ret", !.res = "err"]
    <2>1. /\ h' \in FrameType /\ h'.pc = "reconcile.ret" /\ h'.s = h.s
          /\ h'.id = h.id /\ h'.kind = h.kind
      BY <1>3, <1>7 DEF FrameType, Steps
    <2>2. FrameInv'
      BY <1>2, <1>3, <2>1, FrameReturns
    <2>. QED
      BY <1>1, <1>3, <1>7, <2>2, NativeCore
  <1>8. CASE DbFails("reconcile.ret") /\ UNCHANGED ctr
    BY <1>2, <1>8, DbFailsCore DEF DbFails
  <1>. QED
    BY <1>4, <1>5, <1>6, <1>7, <1>8 DEF ReconcileNative

LEMMA CreateBeginCore ==
  ASSUME Core, NEW s \in Sandboxes, NEW ttl \in 1 .. MaxTtl, CreateBegin(s, ttl)
  PROVE  Core'
  <1>1. PICK id \in OpIds : id = NewOp /\ FindOperation(id) = {}
    BY NewOpFresh DEF CreateBegin
  <1> DEFINE op == [id |-> id, kind |-> "create", s |-> s, dl |-> ttl]
  <1>2. /\ ttl \in Deadlines /\ DbInv /\ BeginCreate(s, id, ttl) /\ ctr' = ctr
        /\ h' = Frame("create", "create.native", op)
    BY <1>1, OwnershipAssumption DEF CreateBegin, Deadlines, Core
  <1>3. DbInv' /\ HasIntent(id, s, "create")' /\ owned' = owned /\ s \notin owned
    BY <1>1, <1>2, BeginCreateInv
  <1>4. FrameInv'
    <2>1. /\ op.id = id /\ op.s = s /\ op.kind = "create" /\ op.dl = ttl
          /\ "create" \in Kinds /\ "create" \in Callers /\ "create.native" \in Steps
      BY DEF Kinds, Callers, Steps
    <2> HIDE DEF op
    <2>2. /\ h' \in FrameType /\ h'.pc = "create.native" /\ h'.s = s /\ h'.id = id
          /\ h'.kind = "create"
      BY <1>1, <1>2, <2>1, FrameTyped
    <2>. QED
      BY <1>3, <2>1, <2>2 DEF FrameInv, CreateSteps, RunSteps, StopSteps, RemoveSteps
  <1>5. NoOrphan'
    BY <1>2, <1>3 DEF Core, NoOrphan, Pending, BeginCreate
  <1>. QED
    BY <1>2, <1>3, <1>4, <1>5 DEF Core

\* A row appears for the sandbox of the creation in flight.
LEMMA CreateOwnershipCore ==
  ASSUME Core, NEW s \in Sandboxes, NEW dl \in Deadlines, CreateOwnership(s, dl),
         UNCHANGED ctr, h' \in FrameType, FrameInv'
  PROVE  Core'
  <1>1. DbInv' /\ UNCHANGED ops /\ owned' = owned \cup {s}
    BY CreateOwnershipInv DEF Core
  <1>. QED
    BY <1>1 DEF Core, NoOrphan, Pending

LEMMA CreateBindCore ==
  ASSUME Core, CreateBind
  PROVE  Core' /\ (Fault \/ UNCHANGED faults)
  <1>1. h.pc = "create.bind" /\ h.pc \in IntentSteps /\ h.pc \in CreateSteps
        /\ UNCHANGED ctr /\ "create.start" \in CreateSteps
        /\ "create.start" \in IntentSteps /\ "create.start" \in Steps
        /\ "create.start" \notin RunSteps \cup StopSteps \cup RemoveSteps
    BY DEF CreateBind, IntentSteps, CreateSteps, RunSteps, StopSteps, RemoveSteps, Steps
  <1>2. /\ FrameInv /\ h \in FrameType /\ h.s \in Sandboxes /\ h.id \in OpIds
        /\ h.kind \in Kinds /\ HasIntent(h.id, h.s, h.kind) /\ DbInv
    BY <1>1 DEF Core, FrameInv
  <1>3. CASE BindCreation(h.id) /\ Goto("create.start") /\ UNCHANGED faults
    <2>1. /\ DbInv' /\ UNCHANGED owned
          /\ \A s \in Sandboxes, kind \in Kinds, i \in OpIds :
               HasIntent(i, s, kind) => HasIntent(i, s, kind)'
      BY <1>2, <1>3, BindCreationInv
    <2>2. /\ h' \in FrameType /\ h'.pc = "create.start" /\ h'.s = h.s
          /\ h'.id = h.id /\ h'.kind = h.kind
      BY <1>1, <1>2, <1>3, GotoTyped
    <2>3. FrameInv'
      <3>1. PICK i \in OpIds, s \in Sandboxes, kind \in Kinds :
              i = h.id /\ s = h.s /\ kind = h.kind
        BY <1>2
      <3>2. HasIntent(i, s, kind)'
        BY <1>2, <2>1, <3>1
      <3>3. HasIntent(h.id, h.s, h.kind)'
        BY <2>2, <3>1, <3>2
      <3>. QED
        BY <1>1, <1>2, <2>1, <2>2, <3>3, FrameKept
    <2>4. NoOrphan'
      <3>1. \A s \in Sandboxes :
              (\E o \in Pending(s) : o.kind = "create")
                => \E o \in Pending(s)' : o.kind = "create"
        <4> SUFFICES ASSUME NEW s \in Sandboxes, NEW o \in ops, o.s = s, o.kind = "create"
                     PROVE  \E p \in Pending(s)' : p.kind = "create"
          BY DEF Pending
        <4>1. o.id \in OpIds /\ HasIntent(o.id, s, "create") /\ "create" \in Kinds
          BY <1>2 DEF DbInv, DbTypeOK, Operations, HasIntent, Kinds
        <4>2. PICK i \in OpIds : i = o.id
          BY <4>1
        <4>3. HasIntent(i, s, "create")'
          BY <2>1, <4>1, <4>2
        <4>. QED
          BY <4>3 DEF HasIntent, Pending
      <3>. QED
        BY <1>1, <2>1, <3>1 DEF Core, NoOrphan
    <2>. QED
      BY <1>1, <1>3, <2>1, <2>3, <2>4 DEF Core
  <1>4. CASE DbFails("create.undo")
    BY <1>1, <1>4, DbFailsCore DEF DbFails
  <1>. QED
    BY <1>3, <1>4 DEF CreateBind

LEMMA CreateCommitCore ==
  ASSUME Core, CreateCommit
  PROVE  Core' /\ (Fault \/ UNCHANGED faults)
  <1>1. h.pc = "create.commit" /\ h.pc \in IntentSteps /\ h.pc \in CreateSteps
        /\ UNCHANGED ctr
    BY DEF CreateCommit, IntentSteps, CreateSteps
  <1>2. FrameInv /\ h \in FrameType /\ h.s \in Sandboxes /\ h.dl \in Deadlines
    BY <1>1 DEF Core, FrameInv, FrameType
  <1>3. CASE CommitCreation(h.s, h.dl) /\ h' = Idle /\ UNCHANGED faults
    <2>1. h' \in FrameType /\ FrameInv'
      BY <1>3, IdleTyped DEF FrameInv, IntentSteps, ReturnSteps, TtlSteps, CreateSteps,
         RunSteps, StopSteps, RemoveSteps, ReconcileSteps
    <2>. QED
      BY <1>1, <1>2, <1>3, <2>1, CreateOwnershipCore DEF CommitCreation
  <1>4. CASE DbFails("create.undo")
    BY <1>1, <1>4, DbFailsCore DEF DbFails
  <1>. QED
    BY <1>3, <1>4 DEF CreateCommit

LEMMA CreateForgetCore ==
  ASSUME Core, CreateForget
  PROVE  Core' /\ (Fault \/ UNCHANGED faults)
  <1>1. h.pc = "create.forget" /\ h.pc \in IntentSteps /\ UNCHANGED ctr
        /\ "retry" \in ReturnSteps
    BY DEF CreateForget, IntentSteps, CreateSteps, ReturnSteps
  <1>2. CASE DeleteOperation(h.s, h.id) /\ Goto("retry") /\ UNCHANGED faults
    <2>1. ctr[h.s] = "absent"
      BY <1>1 DEF Core, FrameInv
    <2>. QED
      BY <1>1, <1>2, <2>1, DeleteCore
  <1>3. CASE DbFails("retry")
    BY <1>1, <1>3, DbFailsCore DEF DbFails
  <1>. QED
    BY <1>2, <1>3 DEF CreateForget

LEMMA CreateOwnCore ==
  ASSUME Core, CreateOwn
  PROVE  Core' /\ (Fault \/ UNCHANGED faults)
  <1>1. h.pc = "create.own" /\ h.pc \in IntentSteps /\ UNCHANGED ctr
        /\ "retry" \in ReturnSteps /\ "retry" \in Steps
    BY DEF CreateOwn, IntentSteps, CreateSteps, ReturnSteps, Steps
  <1>2. FrameInv /\ h \in FrameType /\ h.s \in Sandboxes /\ h.dl \in Deadlines
    BY <1>1 DEF Core, FrameInv, FrameType
  <1>3. CASE CreateOwnership(h.s, h.dl) /\ Goto("retry") /\ UNCHANGED faults
    <2>1. /\ h' \in FrameType /\ h'.pc = "retry" /\ h'.s = h.s /\ h'.id = h.id
          /\ h'.kind = h.kind
      BY <1>1, <1>2, <1>3, GotoTyped
    <2>2. FrameInv'
      BY <1>1, <1>2, <2>1, FrameReturns
    <2>. QED
      BY <1>1, <1>2, <1>3, <2>1, <2>2, CreateOwnershipCore
  <1>4. CASE DbFails("retry")
    BY <1>1, <1>4, DbFailsCore DEF DbFails
  <1>. QED
    BY <1>3, <1>4 DEF CreateOwn

LEMMA RunCompleteCore ==
  ASSUME Core, RunComplete
  PROVE  Core' /\ (Fault \/ UNCHANGED faults)
  <1>1. h.pc = "run.complete" /\ h.pc \in IntentSteps /\ UNCHANGED ctr
        /\ "retry" \in ReturnSteps
    BY DEF RunComplete, IntentSteps, RunSteps, ReturnSteps
  <1>2. h.kind # "create" /\ h.dl \in Deadlines
    BY <1>1 DEF Core, FrameInv, FrameType, RunSteps
  <1>3. CASE Goto("retry") /\ UNCHANGED <<dbVars, faults>>
    <2>1. UNCHANGED dbVars
      BY <1>3
    <2>. QED
      BY <1>1, <1>3, <2>1, GotoCore
  <1>4. CASE CompleteOperation(h.s, h.id, h.dl) /\ Goto("retry") /\ UNCHANGED faults
    BY <1>1, <1>2, <1>4, CompleteCore
  <1>5. CASE DbFails("retry")
    BY <1>1, <1>5, DbFailsCore DEF DbFails
  <1>. QED
    BY <1>3, <1>4, <1>5 DEF RunComplete

LEMMA StopCompleteCore ==
  ASSUME Core, StopComplete
  PROVE  Core' /\ (Fault \/ UNCHANGED faults)
  <1>1. h.pc = "stop.complete" /\ h.pc \in IntentSteps /\ UNCHANGED ctr
        /\ "retry" \in ReturnSteps
    BY DEF StopComplete, IntentSteps, StopSteps, ReturnSteps
  <1>2. h.kind # "create" /\ NoDeadline \in Deadlines
    BY <1>1 DEF Core, FrameInv, StopSteps, Deadlines
  <1>3. CASE CompleteOperation(h.s, h.id, NoDeadline) /\ Goto("retry") /\ UNCHANGED faults
    BY <1>1, <1>2, <1>3, CompleteCore
  <1>4. CASE DbFails("retry")
    BY <1>1, <1>4, DbFailsCore DEF DbFails
  <1>. QED
    BY <1>3, <1>4 DEF StopComplete

LEMMA RemoveDeleteCore ==
  ASSUME Core, RemoveDelete
  PROVE  Core' /\ (Fault \/ UNCHANGED faults)
  <1>1. h.pc = "remove.delete" /\ h.pc \in IntentSteps /\ UNCHANGED ctr
        /\ "retry" \in ReturnSteps
    BY DEF RemoveDelete, IntentSteps, RemoveSteps, ReturnSteps
  <1>2. CASE DeleteOperation(h.s, h.id) /\ Goto("retry") /\ UNCHANGED faults
    <2>1. ctr[h.s] = "absent"
      BY <1>1 DEF Core, FrameInv
    <2>. QED
      BY <1>1, <1>2, <2>1, DeleteCore
  <1>3. CASE DbFails("retry")
    BY <1>1, <1>3, DbFailsCore DEF DbFails
  <1>. QED
    BY <1>2, <1>3 DEF RemoveDelete

LEMMA ReconcileCommitCore ==
  ASSUME Core, ReconcileCommit
  PROVE  Core' /\ (Fault \/ UNCHANGED faults)
  <1>1. h.pc = "reconcile.commit" /\ h.pc \in IntentSteps /\ UNCHANGED ctr
        /\ "reconcile.ret" \in ReturnSteps
    BY DEF ReconcileCommit, IntentSteps, ReconcileSteps, ReturnSteps
  <1>2. h.dl \in Deadlines /\ NoDeadline \in Deadlines
    BY DEF Core, FrameInv, FrameType, Deadlines
  <1>3. CASE /\ h.kind \in {"create", "delete"} /\ DeleteOperation(h.s, h.id)
             /\ Goto("reconcile.ret") /\ UNCHANGED faults
    <2>1. ctr[h.s] = "absent"
      BY <1>1, <1>3 DEF Core, FrameInv
    <2>. QED
      BY <1>1, <1>3, <2>1, DeleteCore
  <1>4. CASE /\ h.kind # "create"
             /\ \/ CompleteOperation(h.s, h.id, NoDeadline)
                \/ CompleteOperation(h.s, h.id, h.dl)
             /\ Goto("reconcile.ret") /\ UNCHANGED faults
    BY <1>1, <1>2, <1>4, CompleteCore
  <1>5. CASE DbFails("reconcile.ret")
    BY <1>1, <1>5, DbFailsCore DEF DbFails
  <1>. QED
    BY <1>3, <1>4, <1>5 DEF ReconcileCommit

LEMMA RetryOperationCore ==
  ASSUME Core, RetryOperation
  PROVE  Core' /\ (Fault \/ UNCHANGED faults)
  <1>1. h.pc = "retry" /\ Goto("ret") /\ UNCHANGED dbVars /\ UNCHANGED ctr
        /\ (Fault \/ UNCHANGED faults)
        /\ h.pc \in ReturnSteps /\ "ret" \in ReturnSteps /\ "ret" \in Steps
    BY DEF RetryOperation, ReturnSteps, Steps
  <1>2. FrameInv /\ h \in FrameType /\ h.s \in Sandboxes
    BY <1>1 DEF Core, FrameInv
  <1>3. /\ h' \in FrameType /\ h'.pc = "ret" /\ h'.s = h.s /\ h'.id = h.id
        /\ h'.kind = h.kind
    BY <1>1, <1>2, GotoTyped
  <1>4. FrameInv'
    BY <1>1, <1>2, <1>3, FrameReturns
  <1>. QED
    BY <1>1, <1>2, <1>4, NativeCore DEF Core

\* Recovery takes up an intent that is pending.
LEMMA ReconcileBeginCore ==
  ASSUME Core, UNCHANGED dbVars, UNCHANGED ctr, NEW by \in Callers, NEW op \in ops,
         BeginReconcile(by, op)
  PROVE  Core'
  <1>1. op \in Operations /\ HasIntent(op.id, op.s, op.kind)'
    BY DEF Core, DbInv, DbTypeOK, HasIntent, dbVars
  <1>2. "reconcile.native" \in RunSteps \cup StopSteps \cup RemoveSteps
                                        \cup {"reconcile.native"}
        /\ "reconcile.native" \notin RunSteps \cup StopSteps \cup RemoveSteps
    BY DEF RunSteps, StopSteps, RemoveSteps
  <1>3. FrameInv'
    BY <1>1, <1>2, FrameBegins DEF BeginReconcile, RemoveSteps
  <1>4. DbInv'
    BY DbUnchanged DEF Core
  <1>. QED
    BY <1>3, <1>4 DEF Core, NoOrphan, Pending, dbVars

\* A handler of the API, or Rollback, begins an intent.
LEMMA RequestCore ==
  ASSUME Core, NEW s \in Sandboxes,
         StartBegin(s) \/ RestartBegin(s) \/ StopBegin(s) \/ RemoveBegin(s) \/ Rollback(s)
  PROVE  Core'
  <1>1. HasFreshOp /\ UNCHANGED ctr
    BY DEF StartBegin, RestartBegin, StopBegin, RemoveBegin, Rollback
  <1>2. DefaultTtl \in Deadlines /\ NoDeadline \in Deadlines
        /\ {"start", "restart", "stop", "delete"} \subseteq Kinds
        /\ {"api", "rollback"} \subseteq Callers
    BY OwnershipAssumption, HandlersAssumption DEF Deadlines, Kinds, Callers
  <1>3. CASE StartBegin(s) \/ RestartBegin(s)
    <2>1. PICK kind \in {"start", "restart"} :
            \E op \in Begun(s, kind, NewOp, DefaultTtl) :
              BeginOperation(op) /\ h' = Frame("api", "run.native", op)
      BY <1>3 DEF StartBegin, RestartBegin
    <2>. QED
      BY <1>1, <1>2, <2>1, BeginCore
  <1>4. CASE StopBegin(s)
    BY <1>1, <1>2, <1>4, BeginCore DEF StopBegin, BeginStop
  <1>5. CASE RemoveBegin(s) \/ Rollback(s)
    <2>1. PICK by \in {"api", "rollback"} : BeginRemove(by, s)
      BY <1>5 DEF RemoveBegin, Rollback
    <2>. QED
      BY <1>1, <1>2, <2>1, BeginCore DEF BeginRemove
  <1>. QED
    BY <1>3, <1>4, <1>5

LEMMA BeginStopCore ==
  ASSUME Core, NEW s \in Sandboxes, HasFreshOp, UNCHANGED ctr,
         NEW by \in Callers, BeginStop(by, s)
  PROVE  Core'
  <1>1. NoDeadline \in Deadlines /\ "stop" \in Kinds
    BY DEF Deadlines, Kinds
  <1>. QED
    BY <1>1, BeginCore DEF BeginStop

\* Containers change, but none appears.
LEMMA ContainersCore ==
  ASSUME Core, UNCHANGED dbVars, UNCHANGED h, ctr' \in [Sandboxes -> CtrType],
         \A s \in Sandboxes : ctr[s] = "absent" => ctr'[s] = "absent"
  PROVE  Core'
  <1>1. DbInv'
    BY DbUnchanged DEF Core
  <1>2. FrameInv'
    <2>1. h.pc \in {"create.forget", "remove.delete", "reconcile.commit"}
            => h.s \in Sandboxes
      BY DEF Core, FrameInv, IntentSteps, CreateSteps, RemoveSteps, ReconcileSteps
    <2>. QED
      BY <2>1 DEF Core, FrameInv, HasIntent, dbVars
  <1>3. NoOrphan'
    BY DEF Core, NoOrphan, Pending, dbVars
  <1>. QED
    BY <1>1, <1>2, <1>3 DEF Core

LEMMA ContainerStepsCore ==
  ASSUME Core, NEW s \in Sandboxes,
         Pause(s) \/ Resume(s) \/ ContainerExits(s) \/ ContainerVanishes(s)
  PROVE  Core'
  <1>1. {"absent", "stopped", "running", "paused"} \subseteq CtrType
    BY DEF CtrType
  <1>2. UNCHANGED dbVars /\ UNCHANGED h /\ ctr \in [Sandboxes -> CtrType]
    BY DEF Pause, Resume, ContainerExits, ContainerVanishes, Core
  <1>3. /\ ctr' \in [Sandboxes -> CtrType]
        /\ \A t \in Sandboxes : ctr[t] = "absent" => ctr'[t] = "absent"
    BY <1>1, <1>2 DEF Pause, Resume, ContainerExits, ContainerVanishes, Live
  <1>. QED
    BY <1>2, <1>3, ContainersCore

LEMMA RenewCore ==
  ASSUME Core, NEW s \in Sandboxes, NEW ttl \in 1 .. MaxTtl, RenewExpiration(s, ttl)
  PROVE  Core'
  <1>1. ttl \in Deadlines /\ SetDeadline(s, ttl) /\ h.pc = "idle"
        /\ UNCHANGED h /\ UNCHANGED ctr
    BY OwnershipAssumption DEF RenewExpiration, Deadlines, CanLock
  <1>2. DbInv' /\ UNCHANGED <<owned, ops>>
    BY <1>1, SetDeadlineInv DEF Core
  <1>. QED
    BY <1>1, <1>2 DEF Core, NoOrphan, Pending, FrameInv, HasIntent

LEMMA AdoptCore ==
  ASSUME Core, NEW s \in Sandboxes, Adopt(s)
  PROVE  Core'
  <1>1. AdoptProvenance(s) /\ h.pc = "idle" /\ UNCHANGED h /\ UNCHANGED ctr
    BY DEF Adopt, CanLock
  <1>2. /\ DbInv' /\ s \in owned /\ UNCHANGED owned
        /\ ops' = {o \in ops : ~(o.s = s /\ o.kind = "create")}
    BY <1>1, AdoptProvenanceInv DEF Core
  <1>3. FrameInv'
    BY <1>1 DEF Core, FrameInv, IntentSteps, ReturnSteps, TtlSteps, CreateSteps,
       RunSteps, StopSteps, RemoveSteps, ReconcileSteps
  <1>4. NoOrphan'
    BY <1>1, <1>2 DEF Core, NoOrphan, Pending
  <1>. QED
    BY <1>1, <1>2, <1>3, <1>4 DEF Core

LEMMA CountDownType ==
  ASSUME NEW dl
  PROVE  /\ dl \in Deadlines => CountDown(dl) \in Deadlines
         /\ dl \in 0 .. MaxTtl => CountDown(dl) \in 0 .. MaxTtl
  BY OwnershipAssumption DEF CountDown, Deadlines, NoDeadline

LEMMA TickCore ==
  ASSUME Core, Tick
  PROVE  Core'
  <1>1. /\ deadline' = [s \in Sandboxes |-> CountDown(deadline[s])]
        /\ ops' = {[o EXCEPT !.dl = CountDown(@)] : o \in ops}
        /\ h' = [h EXCEPT !.dl = CountDown(@)]
        /\ owned' = owned /\ ctr' = ctr
    BY DEF Tick
  <1>2. DbInv /\ ops \subseteq Operations /\ FrameInv /\ h \in FrameType
    BY DEF Core, DbInv, DbTypeOK, FrameInv
  <1> DEFINE later(o) == [o EXCEPT !.dl = CountDown(@)]
  <1>3. \A o \in ops : /\ later(o) \in Operations /\ later(o).id = o.id
                       /\ later(o).s = o.s /\ later(o).kind = o.kind
    BY <1>2, CountDownType DEF Operations
  <1>4. ops' = {later(o) : o \in ops}
    BY <1>1
  <1> HIDE DEF later
  <1>5. DbInv'
    <2>1. deadline' \in [Sandboxes -> Deadlines]
      BY <1>1, <1>2, CountDownType DEF DbInv, DbTypeOK
    <2>2. DbTypeOK'
      BY <1>1, <1>2, <1>3, <1>4, <2>1 DEF DbInv, DbTypeOK
    <2>3. OneIntent'
      BY <1>2, <1>3, <1>4 DEF DbInv, OneIntent
    <2>4. StartupNeverWedged'
      BY <1>1, <1>2, <1>3, <1>4 DEF DbInv, StartupNeverWedged, ValidOperation
    <2>. QED
      BY <2>2, <2>3, <2>4 DEF DbInv
  <1>6. /\ h' \in FrameType /\ h'.pc = h.pc /\ h'.s = h.s /\ h'.id = h.id
        /\ h'.kind = h.kind
    BY <1>1, <1>2, CountDownType DEF FrameType
  <1>7. FrameInv'
    <2>1. HasIntent(h.id, h.s, h.kind) => HasIntent(h.id, h.s, h.kind)'
      BY <1>3, <1>4, <1>6 DEF HasIntent
    <2>. QED
      BY <1>1, <1>2, <1>6, <2>1 DEF FrameInv
  <1>8. NoOrphan'
    BY <1>1, <1>3, <1>4 DEF Core, NoOrphan, Pending
  <1>. QED
    BY <1>1, <1>5, <1>7, <1>8 DEF Core

LEMMA TtlFrameCore ==
  ASSUME Core, UNCHANGED dbVars, UNCHANGED ctr, h' \in FrameType,
         h'.s \in Sandboxes, h'.pc \in TtlSteps
  PROVE  Core'
  <1>1. DbInv'
    BY DbUnchanged DEF Core
  <1>2. FrameInv'
    BY DEF FrameInv, IntentSteps, ReturnSteps, TtlSteps, CreateSteps, RunSteps,
           StopSteps, RemoveSteps, ReconcileSteps
  <1>. QED
    BY <1>1, <1>2 DEF Core, NoOrphan, Pending, dbVars

LEMMA TtlEndsCore ==
  ASSUME Core, UNCHANGED dbVars, UNCHANGED ctr, TtlEnds
  PROVE  Core'
  BY IdleTyped, CoreQuiet DEF TtlEnds

LEMMA HandlerCore ==
  ASSUME Core, HandlerStep
  PROVE  Core'
  <1>1. CASE ApiReturn \/ CreateReturn \/ RollbackReturn
    <2>1. UNCHANGED dbVars /\ UNCHANGED ctr /\ h' = Idle
      BY <1>1 DEF ApiReturn, CreateReturn, RollbackReturn
    <2>. QED
      BY <2>1, IdleTyped, CoreQuiet
  <1>. QED
    BY <1>1, CreateNativeCore, CreateBindCore, CreateStartCore, CreateCommitCore,
       CreateUndoCore, CreateForgetCore, CreateOwnCore, RunNativeCore,
       RunCompleteCore, StopNativeCore, StopCompleteCore, RemoveNativeCore,
       RemoveDeleteCore, RetryOperationCore
    DEF HandlerStep

LEMMA TtlCore ==
  ASSUME Core, TtlCheck \/ TtlReconciled \/ TtlStop \/ TtlReturn
  PROVE  Core'
  <1>1. h \in FrameType /\ UNCHANGED ctr /\ "ttl" \in Callers
        /\ "ttl.stop" \in Steps /\ "ttl.stop" \in TtlSteps
    BY DEF Core, FrameInv, TtlCheck, TtlReconciled, TtlStop, TtlReturn, Callers,
       Steps, TtlSteps
  <1>2. h.s \in Sandboxes
    BY DEF Core, FrameInv, TtlCheck, TtlReconciled, TtlStop, TtlReturn, TtlSteps,
       ReturnSteps
  <1>3. CASE UNCHANGED dbVars /\ TtlEnds
    BY <1>1, <1>3, TtlEndsCore
  <1>4. CASE UNCHANGED dbVars /\ Goto("ttl.stop")
    <2>1. h' \in FrameType /\ h'.pc = "ttl.stop" /\ h'.s = h.s
      BY <1>1, <1>4, GotoTyped
    <2>. QED
      BY <1>1, <1>2, <1>4, <2>1, TtlFrameCore
  <1>5. CASE UNCHANGED dbVars /\ \E op \in Pending(h.s) : BeginReconcile("ttl", op)
    BY <1>1, <1>5, ReconcileBeginCore DEF Pending
  <1>6. CASE HasFreshOp /\ BeginStop("ttl", h.s)
    BY <1>1, <1>2, <1>6, BeginStopCore
  <1>7. CASE TtlCheck
    BY <1>3, <1>4, <1>5, <1>7 DEF TtlCheck, TtlRetries
  <1>8. CASE TtlReconciled
    BY <1>3, <1>4, <1>8 DEF TtlReconciled, TtlRetries
  <1>9. CASE TtlStop
    BY <1>3, <1>6, <1>9 DEF TtlStop, TtlRetries
  <1>10. CASE TtlReturn
    BY <1>3, <1>10 DEF TtlReturn, TtlRetries
  <1>. QED
    BY <1>7, <1>8, <1>9, <1>10

LEMMA JobCore ==
  ASSUME Core, QueueInv, OpJobReturn \/ OpJobRuns \/ TtlJobRuns
  PROVE  Core'
  <1>1. UNCHANGED dbVars /\ UNCHANGED ctr /\ "job" \in Callers
    BY DEF OpJobReturn, OpJobRuns, TtlJobRuns, Callers
  <1>2. CASE OpJobReturn
    BY <1>1, <1>2, IdleTyped, CoreQuiet DEF OpJobReturn
  <1>3. CASE UNCHANGED h
    BY <1>1, <1>3, CoreUnchanged
  <1>4. CASE \E op \in FindOperation(worker.id) : BeginReconcile("job", op)
    BY <1>1, <1>4, ReconcileBeginCore DEF FindOperation
  <1>5. CASE /\ worker.job = "ttl"
             /\ h' = [Idle EXCEPT !.by = "ttl", !.pc = "ttl.check", !.s = worker.s]
    <2>1. worker.s \in Sandboxes
      BY <1>5 DEF QueueInv
    <2>2. h' \in FrameType /\ h'.s = worker.s /\ h'.pc = "ttl.check"
      BY <1>5, <2>1, IdleTyped DEF Idle, FrameType, Callers, Steps
    <2>. QED
      BY <1>1, <2>1, <2>2, TtlFrameCore DEF TtlSteps
  <1>6. CASE OpJobRuns
    BY <1>3, <1>4, <1>6 DEF OpJobRuns
  <1>7. CASE TtlJobRuns
    BY <1>3, <1>5, <1>7 DEF TtlJobRuns
  <1>. QED
    BY <1>2, <1>6, <1>7

LEMMA SweepCore ==
  ASSUME Core, UNCHANGED dbVars, UNCHANGED ctr, NEW by \in {"boot", "shutdown"},
         h' = SweepFrame(by, by)
  PROVE  Core'
  <1>1. by \in Callers
    BY DEF Callers
  <1>2. h' \in FrameType /\ h'.pc = by
    BY <1>1, SweepFrameTyped
  <1>. QED
    BY <1>2, CoreQuiet

LEMMA BootCore ==
  ASSUME Core, BootStep
  PROVE  Core'
  <1>1. "boot" \in Callers
    BY DEF Callers
  <1>2. CASE Recover \/ RecoverReturn
    <2>1. UNCHANGED dbVars /\ UNCHANGED ctr /\ h' = SweepFrame("boot", "boot")
      BY <1>2 DEF Recover, RecoverReturn
    <2>. QED
      BY <2>1, SweepCore
  <1>3. CASE RecoverEnds \/ RecoverAborts
    <2>1. UNCHANGED dbVars /\ UNCHANGED ctr /\ h' = Idle
      BY <1>3 DEF RecoverEnds, RecoverAborts, ProcessEnds, dbVars
    <2>. QED
      BY <2>1, IdleTyped, CoreQuiet
  <1>4. CASE \E id \in OpIds : RecoverIntent(id)
    BY <1>1, <1>4, ReconcileBeginCore DEF RecoverIntent, FindOperation
  <1>5. ASSUME NEW s \in Sandboxes, RecoverOverdue(s) PROVE Core'
    <2>1. UNCHANGED ctr
      BY <1>5 DEF RecoverOverdue
    <2>2. CASE HasFreshOp /\ BeginStop("boot", s)
      BY <1>1, <2>1, <2>2, BeginStopCore
    <2>3. CASE UNCHANGED <<ops, owned, deadline, h>>
      <3>1. UNCHANGED dbVars /\ UNCHANGED h
        BY <2>3 DEF dbVars
      <3>. QED
        BY <2>1, <3>1, CoreUnchanged
    <2>. QED
      BY <1>5, <2>2, <2>3 DEF RecoverOverdue
  <1>. QED
    BY <1>2, <1>3, <1>4, <1>5 DEF BootStep

LEMMA ShutdownCore ==
  ASSUME Core, ShutdownStep
  PROVE  Core'
  <1>1. "shutdown" \in Callers
    BY DEF Callers
  <1>2. CASE UNCHANGED dbVars /\ UNCHANGED ctr /\ h' = SweepFrame("shutdown", "shutdown")
    BY <1>2, SweepCore
  <1>3. CASE ShutdownEnds
    <2>1. UNCHANGED dbVars /\ UNCHANGED ctr /\ h' = Idle
      BY <1>3 DEF ShutdownEnds, ProcessEnds, dbVars
    <2>. QED
      BY <2>1, IdleTyped, CoreQuiet
  <1>4. CASE ShutdownLock \/ ShutdownReturn
    BY <1>2, <1>4 DEF ShutdownLock, ShutdownReturn
  <1>5. CASE ShutdownReconciled
    <2>1. h.s \in Sandboxes /\ UNCHANGED ctr
      BY <1>5 DEF ShutdownReconciled, Core, FrameInv, ReturnSteps
    <2>2. CASE HasFreshOp /\ BeginStop("shutdown", h.s)
      BY <1>1, <2>1, <2>2, BeginStopCore
    <2>. QED
      BY <1>2, <1>5, <2>1, <2>2 DEF ShutdownReconciled
  <1>6. ASSUME NEW s \in Sandboxes, ShutdownSandbox(s) PROVE Core'
    <2>1. UNCHANGED ctr
      BY <1>6 DEF ShutdownSandbox
    <2>2. CASE HasFreshOp /\ BeginStop("shutdown", s)
      BY <1>1, <2>1, <2>2, BeginStopCore
    <2>3. CASE UNCHANGED dbVars /\ \E op \in Pending(s) : BeginReconcile("shutdown", op)
      BY <1>1, <2>1, <2>3, ReconcileBeginCore DEF Pending
    <2>4. CASE UNCHANGED <<dbVars, h>>
      <3>1. UNCHANGED dbVars /\ UNCHANGED h
        BY <2>4
      <3>. QED
        BY <2>1, <3>1, CoreUnchanged
    <2>. QED
      BY <1>6, <2>2, <2>3, <2>4 DEF ShutdownSandbox
  <1>. QED
    BY <1>3, <1>4, <1>5, <1>6 DEF ShutdownStep

LEMMA CoreStep ==
  ASSUME Inv, [Next]_vars
  PROVE  Core'
  <1>1. Core /\ QueueInv
    BY DEF Inv, Memory
  <1>2. CASE UNCHANGED vars
    <2>1. UNCHANGED dbVars /\ UNCHANGED ctr /\ UNCHANGED h
      BY <1>2 DEF vars
    <2>. QED
      BY <1>1, <2>1, CoreUnchanged
  <1>3. CASE HandlerStep
    BY <1>1, <1>3, HandlerCore
  <1>4. CASE RecoveryStep
    <2>1. CASE WorkerSettles
      <3>1. UNCHANGED dbVars /\ UNCHANGED ctr /\ UNCHANGED h
        BY <2>1 DEF WorkerSettles
      <3>. QED
        BY <1>1, <3>1, CoreUnchanged
    <2>. QED
      BY <1>1, <1>4, <2>1, ReconcileNativeCore, ReconcileCommitCore, TtlCore, JobCore
      DEF RecoveryStep, LockedRecoveryStep, JobRuns
  <1>5. CASE BootStep
    BY <1>1, <1>5, BootCore
  <1>6. CASE ShutdownStep
    BY <1>1, <1>6, ShutdownCore
  <1>7. CASE Dispatch
    <2>1. UNCHANGED dbVars /\ UNCHANGED ctr /\ UNCHANGED h
      BY <1>7 DEF Dispatch, DispatchOp, DispatchTtl
    <2>. QED
      BY <1>1, <2>1, CoreUnchanged
  <1>8. CASE Environment
    <2>1. CASE Crash
      <3>1. UNCHANGED dbVars /\ UNCHANGED ctr /\ h' = Idle
        BY <2>1 DEF Crash, ProcessEnds, dbVars
      <3>. QED
        BY <1>1, <3>1, IdleTyped, CoreQuiet
    <2>2. CASE \/ ShutdownQueue \/ WorkerTimesOut
               \/ \E s \in Sandboxes : TimerFires(s)
      <3>1. UNCHANGED dbVars /\ UNCHANGED ctr /\ UNCHANGED h
        BY <2>2 DEF ShutdownQueue, WorkerTimesOut, TimerFires
      <3>. QED
        BY <1>1, <3>1, CoreUnchanged
    <2>. QED
      BY <1>1, <1>8, <2>1, <2>2, TickCore, ContainerStepsCore DEF Environment
  <1>9. ASSUME NEW s \in Sandboxes, ServiceStep(s) PROVE Core'
    <2>1. CASE AdoptFails(s) \/ PortsRejected(s) \/ Acknowledge(s) \/ RollbackRefused(s)
      <3>1. UNCHANGED dbVars /\ UNCHANGED ctr /\ UNCHANGED h
        BY <2>1 DEF AdoptFails, PortsRejected, Acknowledge, RollbackRefused
      <3>. QED
        BY <1>1, <3>1, CoreUnchanged
    <2>. QED
      BY <1>1, <1>9, <2>1, AdoptCore, RequestCore DEF ServiceStep
  <1>10. ASSUME NEW s \in Sandboxes, Request(s) PROVE Core'
    BY <1>1, <1>10, CreateBeginCore, RequestCore, ContainerStepsCore, RenewCore
    DEF Request
  <1>. QED
    BY <1>2, <1>3, <1>4, <1>5, <1>6, <1>7, <1>8, <1>9, <1>10 DEF Next

-----------------------------------------------------------------------------
(* Memory, one variable at a time.                                         *)

LEMMA FaultsStep ==
  ASSUME Inv, [Next]_vars
  PROVE  faults' \in 0 .. MaxFaults
  <1>1. Memory /\ Core /\ faults \in 0 .. MaxFaults
    BY DEF Inv, Memory
  <1>2. Fault \/ UNCHANGED faults
    <2>1. CASE HandlerStep
      BY <1>1, <2>1, CreateNativeCore, CreateBindCore, CreateStartCore,
         CreateCommitCore, CreateUndoCore, CreateForgetCore, CreateOwnCore,
         RunNativeCore, RunCompleteCore, StopNativeCore, StopCompleteCore,
         RemoveNativeCore, RemoveDeleteCore, RetryOperationCore
      DEF HandlerStep, ApiReturn, CreateReturn, RollbackReturn
    <2>2. CASE RecoveryStep
      BY <1>1, <2>2, ReconcileNativeCore, ReconcileCommitCore
      DEF RecoveryStep, LockedRecoveryStep, JobRuns, WorkerSettles, OpJobRuns,
          TtlJobRuns, OpJobReturn, TtlCheck, TtlReconciled, TtlStop, TtlReturn
    <2>3. CASE BootStep
      BY <2>3 DEF BootStep, Recover, RecoverReturn, RecoverEnds, RecoverAborts,
                  RecoverIntent, RecoverOverdue
    <2>4. CASE ShutdownStep
      BY <2>4 DEF ShutdownStep, ShutdownLock, ShutdownReconciled, ShutdownReturn,
                  ShutdownEnds, ShutdownSandbox
    <2>5. CASE Dispatch \/ Environment
      BY <2>5 DEF Dispatch, DispatchOp, DispatchTtl, Environment, Tick, Crash,
         ShutdownQueue, WorkerTimesOut, TimerFires, ContainerExits, ContainerVanishes
    <2>6. CASE \E s \in Sandboxes : ServiceStep(s)
      BY <2>6 DEF ServiceStep, Adopt, AdoptFails, PortsRejected, Acknowledge,
                  Rollback, RollbackRefused
    <2>7. CASE \E s \in Sandboxes : Request(s)
      BY <2>7 DEF Request, CreateBegin, StartBegin, RestartBegin, StopBegin,
                  RemoveBegin, Pause, Resume, RenewExpiration
    <2>8. CASE UNCHANGED vars
      BY <2>8 DEF vars
    <2>. QED
      BY <2>1, <2>2, <2>3, <2>4, <2>5, <2>6, <2>7, <2>8 DEF Next
  <1>. QED
    BY <1>1, <1>2, FaultTyped

LEMMA SvcStep ==
  ASSUME Inv, [Next]_vars
  PROVE  svc' \in [Sandboxes -> SvcType]
  <1>1. svc \in [Sandboxes -> SvcType]
    BY DEF Inv, Memory
  <1>2. CASE UNCHANGED svc
    BY <1>1, <1>2
  <1>3. CASE HandlerStep
    BY <1>1, <1>3
    DEF SvcType, HandlerStep, CreateNative, CreateBind, CreateStart, CreateCommit,
        CreateUndo, CreateForget, CreateOwn, RunNative, RunComplete, StopNative,
        StopComplete, RemoveNative, RemoveDelete, RetryOperation, ApiReturn,
        CreateReturn, RollbackReturn
  <1>4. CASE RecoveryStep \/ Dispatch
    BY <1>2, <1>4
    DEF RecoveryStep, LockedRecoveryStep, JobRuns, WorkerSettles, OpJobRuns,
        TtlJobRuns, OpJobReturn, TtlCheck, TtlReconciled, TtlStop, TtlReturn,
        ReconcileNative, ReconcileCommit, Dispatch, DispatchOp, DispatchTtl
  <1>5. CASE ProcessEnds
    BY <1>1, <1>5 DEF ProcessEnds, SvcType
  <1>6. CASE BootStep \/ ShutdownStep
    BY <1>2, <1>5, <1>6
    DEF BootStep, Recover, RecoverReturn, RecoverEnds, RecoverAborts,
        RecoverIntent, RecoverOverdue, ShutdownStep, ShutdownLock,
        ShutdownReconciled, ShutdownReturn, ShutdownEnds, ShutdownSandbox
  <1>7. CASE Environment
    BY <1>2, <1>5, <1>7
    DEF Environment, Tick, Crash, ShutdownQueue, WorkerTimesOut, TimerFires,
        ContainerExits, ContainerVanishes
  <1>8. CASE \E s \in Sandboxes : ServiceStep(s)
    BY <1>1, <1>8
    DEF SvcType, ServiceStep, Adopt, AdoptFails, PortsRejected, Acknowledge,
        Rollback, RollbackRefused
  <1>9. CASE \E s \in Sandboxes : Request(s)
    BY <1>1, <1>9
    DEF SvcType, Request, CreateBegin, StartBegin, RestartBegin, StopBegin,
        RemoveBegin, Pause, Resume, RenewExpiration
  <1>10. CASE UNCHANGED vars
    BY <1>2, <1>10 DEF vars
  <1>. QED
    BY <1>3, <1>4, <1>6, <1>7, <1>8, <1>9, <1>10 DEF Next

LEMMA UpStep ==
  ASSUME Inv, [Next]_vars
  PROVE  up' \in {"down", "boot", "serving", "draining", "closing"}
  <1>1. up \in {"down", "boot", "serving", "draining", "closing"}
    BY DEF Inv, Memory
  <1>2. CASE HandlerStep
    BY <1>1, <1>2
    DEF HandlerStep, CreateNative, CreateBind, CreateStart, CreateCommit,
        CreateUndo, CreateForget, CreateOwn, RunNative, RunComplete, StopNative,
        StopComplete, RemoveNative, RemoveDelete, RetryOperation, ApiReturn,
        CreateReturn, RollbackReturn
  <1>3. CASE RecoveryStep \/ Dispatch
    BY <1>1, <1>3
    DEF RecoveryStep, LockedRecoveryStep, JobRuns, WorkerSettles, OpJobRuns,
        TtlJobRuns, OpJobReturn, TtlCheck, TtlReconciled, TtlStop, TtlReturn,
        ReconcileNative, ReconcileCommit, Dispatch, DispatchOp, DispatchTtl
  <1>4. CASE BootStep \/ ShutdownStep
    BY <1>1, <1>4
    DEF BootStep, Recover, RecoverReturn, RecoverEnds, RecoverAborts, ProcessEnds,
        RecoverIntent, RecoverOverdue, ShutdownStep, ShutdownLock,
        ShutdownReconciled, ShutdownReturn, ShutdownEnds, ShutdownSandbox
  <1>5. CASE Environment
    BY <1>1, <1>5
    DEF Environment, Tick, Crash, ShutdownQueue, WorkerTimesOut, TimerFires,
        ContainerExits, ContainerVanishes, ProcessEnds
  <1>6. CASE \E s \in Sandboxes : ServiceStep(s) \/ Request(s)
    BY <1>1, <1>6
    DEF ServiceStep, Adopt, AdoptFails, PortsRejected, Acknowledge,
        Rollback, RollbackRefused, Request, CreateBegin, StartBegin, RestartBegin,
        StopBegin, RemoveBegin, Pause, Resume, RenewExpiration
  <1>7. CASE UNCHANGED vars
    BY <1>1, <1>7 DEF vars
  <1>. QED
    BY <1>2, <1>3, <1>4, <1>5, <1>6, <1>7 DEF Next

LEMMA AttemptStep ==
  ASSUME Inv, [Next]_vars
  PROVE  attempt' \in [Sandboxes -> 0 .. MaxOps]
  <1>1. attempt \in [Sandboxes -> 0 .. MaxOps] /\ 0 \in 0 .. MaxOps
        /\ h.id \in 0 .. MaxOps
    BY OwnershipAssumption DEF Inv, Memory, Core, FrameInv, FrameType
  <1>2. CASE UNCHANGED attempt
    BY <1>1, <1>2
  <1>3. CASE \E s : attempt' \in {[attempt EXCEPT ![s] = h.id], [attempt EXCEPT ![s] = 0]}
    BY <1>1, <1>3
  <1>4. CASE ProcessEnds
    BY <1>1, <1>4 DEF ProcessEnds
  <1>5. CASE HandlerStep
    BY <1>2, <1>3, <1>5
    DEF HandlerStep, CreateNative, CreateBind, CreateStart, CreateCommit,
        CreateUndo, CreateForget, CreateOwn, RunNative, RunComplete, StopNative,
        StopComplete, RemoveNative, RemoveDelete, RetryOperation, ApiReturn,
        CreateReturn, RollbackReturn, memVars
  <1>6. CASE RecoveryStep \/ Dispatch
    BY <1>2, <1>3, <1>6
    DEF RecoveryStep, LockedRecoveryStep, JobRuns, WorkerSettles, OpJobRuns,
        TtlJobRuns, OpJobReturn, TtlCheck, TtlReconciled, TtlStop, TtlReturn,
        ReconcileNative, ReconcileCommit, Dispatch, DispatchOp, DispatchTtl, memVars
  <1>7. CASE BootStep \/ ShutdownStep
    BY <1>2, <1>4, <1>7
    DEF BootStep, Recover, RecoverReturn, RecoverEnds, RecoverAborts,
        RecoverIntent, RecoverOverdue, ShutdownStep, ShutdownLock,
        ShutdownReconciled, ShutdownReturn, ShutdownEnds, ShutdownSandbox, memVars
  <1>8. CASE Environment
    BY <1>2, <1>4, <1>8
    DEF Environment, Tick, Crash, ShutdownQueue, WorkerTimesOut, TimerFires,
        ContainerExits, ContainerVanishes, memVars
  <1>9. CASE \E s \in Sandboxes : ServiceStep(s) \/ Request(s)
    BY <1>2, <1>3, <1>9
    DEF ServiceStep, Adopt, AdoptFails, PortsRejected, Acknowledge,
        Rollback, RollbackRefused, Request, CreateBegin, StartBegin, RestartBegin,
        StopBegin, RemoveBegin, Pause, Resume, RenewExpiration, memVars
  <1>10. CASE UNCHANGED vars
    BY <1>2, <1>10 DEF vars, memVars
  <1>. QED
    BY <1>5, <1>6, <1>7, <1>8, <1>9, <1>10 DEF Next

LEMMA SweepStep ==
  ASSUME Inv, [Next]_vars
  PROVE  sweep' \in SweepType
  <1>1. sweep \in SweepType /\ NoSweep \in SweepType
        /\ ops \subseteq Operations /\ owned \subseteq Sandboxes
    BY DEF Inv, Memory, SweepType, NoSweep, Core, DbInv, DbTypeOK
  <1>2. CASE UNCHANGED sweep
    BY <1>1, <1>2
  <1>3. CASE sweep' = NoSweep
    BY <1>1, <1>3
  <1>4. CASE Recover \/ ShutdownLock
    BY <1>1, <1>4 DEF Recover, ShutdownLock, SweepType, Operations
  <1>5. CASE \/ \E id \in OpIds : RecoverIntent(id)
             \/ \E s \in Sandboxes : RecoverOverdue(s) \/ ShutdownSandbox(s)
    BY <1>1, <1>5 DEF RecoverIntent, RecoverOverdue, ShutdownSandbox, SweepType
  <1>6. CASE HandlerStep
    BY <1>2, <1>6
    DEF HandlerStep, CreateNative, CreateBind, CreateStart, CreateCommit,
        CreateUndo, CreateForget, CreateOwn, RunNative, RunComplete, StopNative,
        StopComplete, RemoveNative, RemoveDelete, RetryOperation, ApiReturn,
        CreateReturn, RollbackReturn, memVars
  <1>7. CASE RecoveryStep \/ Dispatch
    BY <1>2, <1>7
    DEF RecoveryStep, LockedRecoveryStep, JobRuns, WorkerSettles, OpJobRuns,
        TtlJobRuns, OpJobReturn, TtlCheck, TtlReconciled, TtlStop, TtlReturn,
        ReconcileNative, ReconcileCommit, Dispatch, DispatchOp, DispatchTtl, memVars
  <1>8. CASE BootStep \/ ShutdownStep
    BY <1>2, <1>3, <1>4, <1>5, <1>8
    DEF BootStep, RecoverReturn, RecoverEnds, RecoverAborts, ShutdownStep,
        ShutdownReconciled, ShutdownReturn, ShutdownEnds, ProcessEnds, memVars
  <1>9. CASE Environment
    BY <1>2, <1>3, <1>9
    DEF Environment, Tick, Crash, ShutdownQueue, WorkerTimesOut, TimerFires,
        ContainerExits, ContainerVanishes, ProcessEnds, memVars
  <1>10. CASE \E s \in Sandboxes : ServiceStep(s) \/ Request(s)
    BY <1>2, <1>10
    DEF ServiceStep, Adopt, AdoptFails, PortsRejected, Acknowledge,
        Rollback, RollbackRefused, Request, CreateBegin, StartBegin, RestartBegin,
        StopBegin, RemoveBegin, Pause, Resume, RenewExpiration, memVars
  <1>11. CASE UNCHANGED vars
    BY <1>2, <1>11 DEF vars, memVars
  <1>. QED
    BY <1>6, <1>7, <1>8, <1>9, <1>10, <1>11 DEF Next

LEMMA OpJobsStep ==
  ASSUME Inv, [Next]_vars
  PROVE  opJobs' \subseteq OpIds
  <1>1. Memory /\ opJobs \subseteq OpIds /\ h.id \in 0 .. MaxOps
        /\ ops \subseteq Operations /\ attempt \in [Sandboxes -> 0 .. MaxOps]
    BY DEF Inv, Memory, Core, FrameInv, FrameType, DbInv, DbTypeOK
  <1>2. CASE opJobs' \subseteq opJobs
    BY <1>1, <1>2
  <1>3. CASE \E id \in 0 .. MaxOps : QueueOperation(id)
    BY <1>1, <1>3, QueueOperationTyped
  <1>4. CASE Recover
    BY <1>1, <1>4 DEF Recover, Operations
  <1>5. CASE RetryOperation \/ RollbackReturn
    <2>1. h.s \in Sandboxes
      BY <1>5 DEF RetryOperation, RollbackReturn, Inv, Core, FrameInv, ReturnSteps
    <2>. QED
      BY <1>1, <1>2, <1>3, <1>5, <2>1 DEF RetryOperation, RollbackReturn
  <1>6. CASE HandlerStep
    BY <1>2, <1>5, <1>6
    DEF HandlerStep, CreateNative, CreateBind, CreateStart, CreateCommit,
        CreateUndo, CreateForget, CreateOwn, RunNative, RunComplete, StopNative,
        StopComplete, RemoveNative, RemoveDelete, ApiReturn, CreateReturn, memVars
  <1>7. CASE RecoveryStep \/ Dispatch
    BY <1>2, <1>7
    DEF RecoveryStep, LockedRecoveryStep, JobRuns, WorkerSettles, OpJobRuns,
        TtlJobRuns, OpJobReturn, TtlCheck, TtlReconciled, TtlStop, TtlReturn,
        ReconcileNative, ReconcileCommit, Dispatch, DispatchOp, DispatchTtl, memVars
  <1>8. CASE BootStep \/ ShutdownStep
    BY <1>2, <1>4, <1>8
    DEF BootStep, RecoverReturn, RecoverEnds, RecoverAborts, RecoverIntent,
        RecoverOverdue, ShutdownStep, ShutdownLock, ShutdownSandbox,
        ShutdownReconciled, ShutdownReturn, ShutdownEnds, ProcessEnds, memVars
  <1>9. CASE Environment
    BY <1>2, <1>9
    DEF Environment, Tick, Crash, ShutdownQueue, WorkerTimesOut, TimerFires,
        ContainerExits, ContainerVanishes, ProcessEnds, memVars
  <1>10. CASE \E s \in Sandboxes : ServiceStep(s) \/ Request(s)
    BY <1>1, <1>2, <1>3, <1>10
    DEF ServiceStep, Adopt, AdoptFails, PortsRejected, Acknowledge,
        Rollback, RollbackRefused, Request, CreateBegin, StartBegin, RestartBegin,
        StopBegin, RemoveBegin, Pause, Resume, RenewExpiration, memVars
  <1>11. CASE UNCHANGED vars
    BY <1>2, <1>11 DEF vars, memVars
  <1>. QED
    BY <1>6, <1>7, <1>8, <1>9, <1>10, <1>11 DEF Next

LEMMA TimerStep ==
  ASSUME Inv, [Next]_vars
  PROVE  timer' \in [Sandboxes -> TimerValues]
  <1>1. Memory /\ timer \in [Sandboxes -> TimerValues] /\ h.dl \in Deadlines
        /\ deadline \in [Sandboxes -> Deadlines] /\ 0 \in Deadlines
        /\ ops \subseteq Operations
    BY OwnershipAssumption
    DEF Inv, Memory, Core, FrameInv, FrameType, DbInv, DbTypeOK, Deadlines
  <1>2. CASE UNCHANGED timer
    BY <1>1, <1>2
  <1>3. CASE \E s \in Sandboxes : \/ CancelTimer(s)
                                  \/ \E dl \in Deadlines : ScheduleDeadline(s, dl)
    BY <1>1, <1>3, CancelTyped, ScheduleTyped
  <1>4. NoTimer \in TimerValues
    BY OwnershipAssumption, HandlersAssumption DEF NoTimer, TimerValues
  <1>5. CASE ProcessEnds
    BY <1>4, <1>5 DEF ProcessEnds
  <1>6. CASE Recover
    <2> DEFINE late(s) == {op \in Pending(s) : op.kind # "create" /\ op.dl # NoDeadline}
               due(s) == IF s \in owned /\ deadline[s] # NoDeadline THEN deadline[s]
                         ELSE IF late(s) # {} THEN (CHOOSE op \in late(s) : TRUE).dl
                         ELSE NoDeadline
    <2>1. timer' = [s \in Sandboxes |-> IF due(s) = NoDeadline THEN NoTimer
                                        ELSE [entry |-> 1, dl |-> due(s)]]
      BY <1>6 DEF Recover
    <2>2. \A s \in Sandboxes : due(s) \in Deadlines
      <3> SUFFICES ASSUME NEW s \in Sandboxes PROVE due(s) \in Deadlines
        OBVIOUS
      <3>1. \A op \in late(s) : op.dl \in Deadlines
        BY <1>1 DEF Pending, Operations
      <3>2. late(s) # {} => (CHOOSE op \in late(s) : TRUE) \in late(s)
        OBVIOUS
      <3> HIDE DEF late
      <3>. QED
        BY <1>1, <3>1, <3>2 DEF Deadlines
    <2> HIDE DEF due
    <2>3. \A s \in Sandboxes : due(s) # NoDeadline =>
            [entry |-> 1, dl |-> due(s)] \in TimerValues
      BY <2>2, HandlersAssumption DEF TimerValues, Entries, Deadlines
    <2>. QED
      BY <1>4, <2>1, <2>3
  <1>7. CASE Tick
    <2>1. timer' = [s \in Sandboxes |-> [timer[s] EXCEPT !.dl = CountDown(@)]]
      BY <1>7 DEF Tick
    <2>2. \A t \in TimerValues : [t EXCEPT !.dl = CountDown(@)] \in TimerValues
      BY CountDownType, OwnershipAssumption DEF TimerValues, NoTimer, CountDown
    <2>. QED
      BY <1>1, <2>1, <2>2
  <1>8. CASE HandlerStep
    <2>1. CASE \/ CreateCommit \/ CreateUndo \/ RunNative \/ StopComplete
               \/ RemoveNative \/ RetryOperation
      <3>1. h.s \in Sandboxes
        BY <2>1
        DEF CreateCommit, CreateUndo, RunNative, StopComplete, RemoveNative,
            RetryOperation, Inv, Core, FrameInv, IntentSteps, CreateSteps, RunSteps,
            StopSteps, RemoveSteps, ReturnSteps
      <3>. QED
        BY <1>1, <1>2, <1>3, <2>1, <3>1
        DEF CreateCommit, CreateUndo, RunNative, StopComplete, RemoveNative,
            RetryOperation
    <2>. QED
      BY <1>2, <1>8, <2>1
      DEF HandlerStep, CreateNative, CreateBind, CreateStart, CreateForget,
          CreateOwn, RunComplete, StopNative, RemoveDelete, ApiReturn,
          CreateReturn, RollbackReturn, memVars
  <1>9. CASE RecoveryStep \/ Dispatch
    <2>1. CASE \/ ReconcileCommit \/ TtlCheck \/ TtlReconciled \/ TtlStop \/ TtlReturn
      <3>1. h.s \in Sandboxes
        BY <2>1
        DEF ReconcileCommit, TtlCheck, TtlReconciled, TtlStop, TtlReturn, Inv, Core,
            FrameInv, IntentSteps, ReconcileSteps, ReturnSteps, TtlSteps
      <3>2. CASE ReconcileCommit
        BY <1>1, <1>2, <1>3, <3>1, <3>2 DEF ReconcileCommit
      <3>3. CASE TtlCheck
        BY <1>1, <1>2, <1>3, <3>1, <3>3 DEF TtlCheck, TtlRetries
      <3>4. CASE TtlReconciled
        BY <1>1, <1>2, <1>3, <3>1, <3>4 DEF TtlReconciled, TtlRetries
      <3>5. CASE TtlStop
        BY <1>1, <1>2, <1>3, <3>1, <3>5 DEF TtlStop, TtlRetries
      <3>6. CASE TtlReturn
        BY <1>1, <1>2, <1>3, <3>1, <3>6 DEF TtlReturn, TtlRetries
      <3>. QED
        BY <2>1, <3>2, <3>3, <3>4, <3>5, <3>6
    <2>. QED
      BY <1>2, <1>9, <2>1
      DEF RecoveryStep, LockedRecoveryStep, JobRuns, WorkerSettles, OpJobRuns,
          TtlJobRuns, OpJobReturn, ReconcileNative, Dispatch, DispatchOp,
          DispatchTtl, memVars
  <1>10. CASE BootStep \/ ShutdownStep
    BY <1>2, <1>3, <1>5, <1>6, <1>10
    DEF BootStep, RecoverReturn, RecoverEnds, RecoverAborts, RecoverIntent,
        RecoverOverdue, ShutdownStep, ShutdownLock, ShutdownSandbox,
        ShutdownReconciled, ShutdownReturn, ShutdownEnds, memVars
  <1>11. CASE Environment
    BY <1>2, <1>5, <1>7, <1>11
    DEF Environment, Crash, ShutdownQueue, WorkerTimesOut, TimerFires,
        ContainerExits, ContainerVanishes, memVars
  <1>12. CASE \E s \in Sandboxes : ServiceStep(s)
    BY <1>2, <1>12
    DEF ServiceStep, Adopt, AdoptFails, PortsRejected, Acknowledge, Rollback,
        RollbackRefused, memVars
  <1>13. CASE \E s \in Sandboxes : Request(s)
    <2>1. \A ttl \in 1 .. MaxTtl : ttl \in Deadlines
      BY OwnershipAssumption DEF Deadlines
    <2>. QED
      BY <1>2, <1>3, <1>13, <2>1
      DEF Request, CreateBegin, StartBegin, RestartBegin, StopBegin, RemoveBegin,
          Pause, Resume, RenewExpiration, memVars
  <1>14. CASE UNCHANGED vars
    BY <1>2, <1>14 DEF vars, memVars
  <1>. QED
    BY <1>8, <1>9, <1>10, <1>11, <1>12, <1>13, <1>14 DEF Next

LEMMA QueueStep ==
  ASSUME Inv, [Next]_vars
  PROVE  QueueInv'
  <1>1. QueueInv
    BY DEF Inv, Memory
  <1>2. CASE UNCHANGED <<ttlJobs, worker>>
    BY <1>1, <1>2, QueueUnchanged
  <1>3. CASE (\E res \in {"run", "locked", "ok", "err"} : WorkerEnds(res))
             /\ UNCHANGED ttlJobs
    BY <1>1, <1>3, WorkerEndsTyped
  <1>4. CASE worker' = NoWorker /\ ttlJobs' \subseteq ttlJobs
    BY <1>1, <1>4, NoWorkerTyped
  <1>5. CASE UNCHANGED worker /\ ttlJobs' \subseteq ttlJobs
    <2>1. \A s \in Sandboxes : EntriesOf(s)' \subseteq EntriesOf(s)
      BY <1>5 DEF EntriesOf
    <2>. QED
      BY <1>1, <1>5, <2>1 DEF QueueInv, EntryFree
  <1>6. ASSUME NEW s \in Sandboxes, TimerFires(s) PROVE QueueInv'
    <2> DEFINE e == timer[s].entry
    <2>1. /\ e # 0 /\ Entries \ (EntriesOf(s) \cup {e}) # {}
          /\ ttlJobs' = ttlJobs \cup {<<s, e>>} /\ worker' = worker
      BY <1>6 DEF TimerFires
    <2>2. e \in Entries
      BY <2>1, HandlersAssumption DEF Inv, Memory, TimerValues, NoTimer, Entries
    <2> HIDE DEF e
    <2>3. /\ EntriesOf(s)' \subseteq EntriesOf(s) \cup {e}
          /\ \A t \in Sandboxes : t # s => EntriesOf(t)' \subseteq EntriesOf(t)
      BY <2>1 DEF EntriesOf
    <2>. QED
      BY <1>1, <2>1, <2>2, <2>3 DEF QueueInv, EntryFree
  <1>7. ASSUME NEW id \in OpIds, DispatchOp(id) PROVE QueueInv'
    <2>0. id \in 0 .. MaxOps /\ 0 \in 0 .. MaxEntries
      BY OwnershipAssumption, HandlersAssumption DEF OpIds
    <2>1. /\ worker' \in WorkerType /\ worker'.s = Nobody /\ worker'.job = "op"
          /\ ttlJobs' = ttlJobs
      BY <1>7, <2>0 DEF DispatchOp, NoWorker, WorkerType
    <2>2. \A s \in Sandboxes : EntriesOf(s)' \subseteq EntriesOf(s)
      BY <2>1, HandlersAssumption DEF EntriesOf
    <2>. QED
      BY <1>1, <2>1, <2>2 DEF QueueInv, EntryFree
  <1>8. ASSUME NEW s \in Sandboxes, NEW e \in Entries, DispatchTtl(s, e)
        PROVE  QueueInv'
    <2>0. e \in 0 .. MaxEntries /\ 0 \in 0 .. MaxOps
      BY OwnershipAssumption, HandlersAssumption DEF Entries
    <2>1. /\ worker' \in WorkerType /\ worker'.s = s /\ worker'.job = "ttl"
          /\ worker'.entry = e /\ ttlJobs' = ttlJobs /\ <<s, e>> \in ttlJobs
      BY <1>8, <2>0 DEF DispatchTtl, NoWorker, WorkerType
    <2>2. \A t \in Sandboxes : EntriesOf(t)' \subseteq EntriesOf(t)
      BY <2>1 DEF EntriesOf
    <2>. QED
      BY <1>1, <2>1, <2>2 DEF QueueInv, EntryFree
  <1>9. CASE HandlerStep
    BY <1>2, <1>9
    DEF HandlerStep, CreateNative, CreateBind, CreateStart, CreateCommit,
        CreateUndo, CreateForget, CreateOwn, RunNative, RunComplete, StopNative,
        StopComplete, RemoveNative, RemoveDelete, RetryOperation, ApiReturn,
        CreateReturn, RollbackReturn, memVars
  <1>10. CASE RecoveryStep
    BY <1>2, <1>3, <1>4, <1>10
    DEF RecoveryStep, LockedRecoveryStep, JobRuns, WorkerSettles, OpJobRuns,
        TtlJobRuns, OpJobReturn, TtlCheck, TtlReconciled, TtlStop, TtlReturn,
        TtlEnds, TtlRetries, ReconcileNative, ReconcileCommit, memVars
  <1>11. CASE Dispatch
    BY <1>7, <1>8, <1>11 DEF Dispatch
  <1>12. CASE BootStep \/ ShutdownStep
    BY <1>2, <1>4, <1>12
    DEF BootStep, Recover, RecoverReturn, RecoverEnds, RecoverAborts, RecoverIntent,
        RecoverOverdue, ShutdownStep, ShutdownLock, ShutdownSandbox,
        ShutdownReconciled, ShutdownReturn, ShutdownEnds, ProcessEnds, memVars
  <1>13. CASE Environment
    BY <1>2, <1>3, <1>4, <1>5, <1>6, <1>13
    DEF Environment, Tick, Crash, ShutdownQueue, WorkerTimesOut,
        ContainerExits, ContainerVanishes, ProcessEnds, memVars
  <1>14. CASE \E s \in Sandboxes : ServiceStep(s) \/ Request(s)
    BY <1>2, <1>14
    DEF ServiceStep, Adopt, AdoptFails, PortsRejected, Acknowledge,
        Rollback, RollbackRefused, Request, CreateBegin, StartBegin, RestartBegin,
        StopBegin, RemoveBegin, Pause, Resume, RenewExpiration, memVars
  <1>15. CASE UNCHANGED vars
    BY <1>2, <1>15 DEF vars, memVars
  <1>. QED
    BY <1>9, <1>10, <1>11, <1>12, <1>13, <1>14, <1>15 DEF Next

-----------------------------------------------------------------------------
(* The inductive invariant, and what follows.                              *)

LEMMA InitInv ==
  ASSUME Init
  PROVE  Inv
  <1>1. DbInv
    BY OwnershipAssumption
    DEF Init, DbInit, DbInv, DbTypeOK, OneIntent, StartupNeverWedged, Deadlines
  <1>2. FrameInv
    BY IdleTyped
    DEF Init, FrameInv, IntentSteps, ReturnSteps, TtlSteps, CreateSteps, RunSteps,
        StopSteps, RemoveSteps, ReconcileSteps
  <1>3. Core
    BY <1>1, <1>2 DEF Init, Core, CtrType, NoOrphan
  <1>4. QueueInv
    <2>1. /\ NoWorker \in WorkerType /\ NoWorker.job = "none" /\ NoWorker.s = Nobody
      BY OwnershipAssumption, HandlersAssumption DEF NoWorker, WorkerType
    <2>2. \A s \in Sandboxes : EntriesOf(s) = {}
      BY <2>1, HandlersAssumption DEF Init, EntriesOf
    <2>3. 1 \in Entries
      BY HandlersAssumption DEF Entries
    <2>. QED
      BY <2>1, <2>2, <2>3 DEF Init, QueueInv, EntryFree
  <1>5. Memory
    <2>1. NoTimer \in TimerValues /\ NoSweep \in SweepType
          /\ 0 \in 0 .. MaxOps /\ 0 \in 0 .. MaxFaults /\ "none" \in SvcType
      BY OwnershipAssumption, HandlersAssumption
      DEF NoTimer, TimerValues, NoSweep, SweepType, SvcType
    <2>. QED
      BY <1>4, <2>1 DEF Init, Memory
  <1>. QED
    BY <1>3, <1>5 DEF Inv

LEMMA InvStep ==
  ASSUME Inv, [Next]_vars
  PROVE  Inv'
  <1>1. Memory'
    BY TimerStep, OpJobsStep, QueueStep, AttemptStep, SvcStep, UpStep, SweepStep,
       FaultsStep
    DEF Memory
  <1>. QED
    BY <1>1, CoreStep DEF Inv

LEMMA Invariance == Spec => []Inv
  <1>1. Init => Inv
    BY InitInv
  <1>2. Inv /\ [Next]_vars => Inv'
    BY InvStep
  <1>. QED
    BY <1>1, <1>2, PTL DEF Spec

\* Every variable keeps its type, with any number of sandboxes, operation IDs,
\* timer entries and faults.
THEOREM TypeCorrect == Spec => []TypeOK
  <1>1. TimerValues \subseteq TimerType
    BY OwnershipAssumption, HandlersAssumption DEF TimerValues, TimerType, NoTimer, Entries
  <1>2. Inv => TypeOK
    BY <1>1 DEF Inv, Core, DbInv, FrameInv, Memory, QueueInv, TypeOK
  <1>. QED
    BY <1>2, Invariance, PTL

\* The write-ahead protocol of Create (lifecycle.go:87-165): no container is
\* ever without a row or a creation intent, wherever a call fails or the
\* process dies, so no recovery has to adopt from Docker's inventory.
THEOREM NoOrphanEver == Spec => []NoOrphan
  <1>1. Inv => NoOrphan
    BY DEF Inv, Core
  <1>. QED
    BY <1>1, Invariance, PTL

\* A sandbox never has two pending intents, and no two intents share an ID.
THEOREM OneIntentEver == Spec => []OneIntent
  <1>1. Inv => OneIntent
    BY DEF Inv, Core, DbInv
  <1>. QED
    BY <1>1, Invariance, PTL

\* No failed step and no crash leaves an intent that Recover would refuse to
\* start with (recovery.go:125-146).
THEOREM StartupNeverWedgedEver == Spec => []StartupNeverWedged
  <1>1. Inv => StartupNeverWedged
    BY DEF Inv, Core, DbInv
  <1>. QED
    BY <1>1, Invariance, PTL

-----------------------------------------------------------------------------
(* The promises to clients: an acknowledged creation is never rolled back, *)
(* expiration stops only what is overdue, no intent is left without a      *)
(* driver and no sandbox runs without a timer.  Each part has an inductive *)
(* invariant of its own, beside Inv.                                       *)

RunKinds == {"start", "restart"}
DatedKinds == RunKinds \cup {"create"}

\* A creation that was adopted has no creation intent any more.
Committed ==
  \A o \in ops : o.kind = "create" => svc[o.s] \notin {"adopted", "acked"}

-----------------------------------------------------------------------------

\* An intent that ends with a running container says until when it may run.
IntentsDated == \A o \in ops : o.kind \in DatedKinds => o.dl # NoDeadline

\* The row of a creation has its deadline.
CreationsDated ==
  \A o \in ops : o.kind = "create" /\ o.s \in owned => deadline[o.s] # NoDeadline

\* A container runs without a persisted deadline only while a start is pending.
LiveDated ==
  \A s \in owned : ctr[s] \in Live =>
    deadline[s] # NoDeadline \/ \E o \in Pending(s) : o.kind \in RunKinds

\* Where the frame has stopped its container, or found it stopped.
Halted ==
  \/ h.pc = "stop.complete"
  \/ h.pc = "reconcile.commit" /\ (h.kind = "stop" \/ (h.kind \in RunKinds /\ ~h.saw))
  \/ h.pc \in {"retry", "ret"} /\ h.kind = "stop" /\ h.res = "ok"

FrameDated ==
  /\ h.kind \in DatedKinds => h.dl # NoDeadline
  /\ Halted => ctr[h.s] \notin Live
  /\ h.by = "ttl" /\ h.pc = "stop.native" => deadline[h.s] <= 0

Dated == IntentsDated /\ CreationsDated /\ LiveDated /\ FrameDated

-----------------------------------------------------------------------------

\* Who holds the lock is at a step of his own, for a job of his own.
Roles ==
  /\ h.pc \in CreateSteps => h.by = "create"
  /\ h.pc \in TtlSteps => h.by = "ttl"
  /\ h.by = "create" => /\ h.pc \in CreateSteps \cup {"retry", "ret"}
                        /\ svc[h.s] = "creating"
  /\ h.by = "rollback" => /\ h.pc \in RemoveSteps \cup {"retry", "ret"}
                          /\ h.kind = "delete"
  /\ h.by = "ttl" =>
       /\ worker.job = "ttl" /\ worker.res = "locked"
       /\ \/ h.pc \in TtlSteps \cup StopSteps \cup ReconcileSteps \cup {"reconcile.ret"}
          \/ h.pc \in {"retry", "ret"} /\ h.kind = "stop"
  /\ h.by = "job" =>
       /\ worker.job = "op" /\ worker.res = "locked" /\ worker.id = h.id
       /\ h.pc \in ReconcileSteps \cup {"reconcile.ret"}

\* Where the frame reports that its intent is done.
Finished ==
  \/ h.pc = "reconcile.ret" /\ h.res = "ok"
  \/ h.pc \in {"retry", "ret"} /\ h.kind = "delete" /\ h.res = "ok"

\* What reports success has retired its intent, in the frame and in the queue.
Retired ==
  /\ Finished => \A o \in ops : o.s # h.s /\ o.id # h.id
  /\ worker.job # "op" => worker.id = 0
  /\ worker.res = "ok" => FindOperation(worker.id) = {}

OpenUp == {"boot", "serving"}

\* Recover's frame exists only while the server starts, Shutdown's while it ends.
Sweeping ==
  /\ h.pc \in {"boot", "shutdown"} => h.by = h.pc
  /\ h.by = "boot" => up = "boot"
  /\ h.by = "shutdown" => up = "closing"

\* Who drives an intent: a job, the service that is about to adopt or compensate
\* the creation, or the handler that registers it before it returns.
DrivingSteps == (IntentSteps \ ReconcileSteps) \cup {"retry"}
ServiceDrives(o) ==
  o.kind = "create" /\ svc[o.s] \in {"created", "undo"} /\ attempt[o.s] = o.id
FrameDrives(o) == h.pc \in DrivingSteps /\ h.id = o.id

Driven ==
  up \in OpenUp => \A o \in ops : o.id \in opJobs \/ ServiceDrives(o) \/ FrameDrives(o)

\* A timer will stop sandbox s, or what is pending for it will arm one, remove it
\* or be handed over by the frame that is about to return.
Covered(s) ==
  \/ timer[s] # NoTimer
  \/ \E o \in Pending(s) : o.kind = "delete"
  \/ svc[s] # "created" /\ \E o \in Pending(s) : o.kind = "create"
  \/ h.pc = "retry" /\ h.s = s /\ h.kind \in RunKinds /\ \E o \in Pending(s) : o.id = h.id

Timed == up \in OpenUp => \A s \in owned : ctr[s] \in Live => Covered(s)

-----------------------------------------------------------------------------

\* A step that leaves the intents and the service's progress alone.
LEMMA CommittedUnchanged ==
  ASSUME Committed, ops' \subseteq ops, svc' = svc
  PROVE  Committed'
  BY DEF Committed

\* Requests and recoveries begin no creation.
LEMMA CommittedBegins ==
  ASSUME Inv, Committed, NEW s \in Sandboxes, NEW kind \in Kinds \ {"create"},
         NEW dl \in Deadlines, HasFreshOp, NEW op \in Begun(s, kind, NewOp, dl),
         BeginOperation(op), \A t \in Sandboxes : svc'[t] \in {svc[t], "undoing"}
  PROVE  Committed'
  <1>1. op.kind = kind /\ op.s = s
    BY BegunTyped, NewOpFresh DEF Inv, Core
  <1>2. ops \subseteq Operations
    BY DEF Inv, Core, DbInv, DbTypeOK
  <1>. QED
    BY <1>1, <1>2 DEF Committed, BeginOperation, Operations

LEMMA CommittedStep ==
  ASSUME Inv, Committed, [Next]_vars
  PROVE  Committed'
  <1>1. /\ svc \in [Sandboxes -> SvcType] /\ ops \subseteq Operations
        /\ \A o \in ops : o.s \in Sandboxes
    BY DEF Inv, Memory, Core, DbInv, DbTypeOK, Operations
  <1>2. NoDeadline \in Deadlines /\ DefaultTtl \in Deadlines
    BY HandlersAssumption, OwnershipAssumption DEF Deadlines
  <1>3. CASE ops' \subseteq ops /\ svc' = svc
    BY <1>3, CommittedUnchanged
  <1>4. ASSUME svc' = svc, NEW s \in Sandboxes, NEW by, BeginStop(by, s), HasFreshOp
        PROVE  Committed'
    BY <1>2, <1>4, CommittedBegins DEF BeginStop, Kinds
  <1>5. CASE HandlerStep
    <2>1. CASE CreateBind
      BY <1>1, <2>1 DEF CreateBind, BindCreation, DbFails, dbVars, Committed, Operations
    <2>2. CASE CreateCommit \/ CreateReturn \/ RollbackReturn
      <3>1. h.s \in Sandboxes /\ ops' = ops
        BY <2>2
        DEF Inv, Core, FrameInv, CreateCommit, CreateReturn, RollbackReturn, dbVars,
            DbFails, IntentSteps, CreateSteps, ReturnSteps, CommitCreation,
            CreateOwnership
      <3>2. \A s \in Sandboxes : svc'[s] \in {svc[s], "created", "failed"}
        BY <1>1, <2>2, <3>1 DEF CreateCommit, CreateReturn, RollbackReturn
      <3>. QED
        BY <1>1, <3>1, <3>2 DEF Committed
    <2>. QED
      BY <1>3, <1>5, <2>1, <2>2
      DEF HandlerStep, CreateNative, CreateStart, CreateUndo, CreateForget,
          CreateOwn, RunNative, RunComplete, StopNative, StopComplete, RemoveNative,
          RemoveDelete, RetryOperation, ApiReturn, dbVars, DbFails, CreateOwnership,
          CompleteOperation, DeleteOperation
  <1>6. CASE RecoveryStep \/ Dispatch
    <2>1. CASE TtlStop
      <3>1. h.s \in Sandboxes
        BY <2>1 DEF TtlStop, Inv, Core, FrameInv, TtlSteps
      <3>. QED
        BY <1>3, <1>4, <2>1, <3>1 DEF TtlStop, memVars, dbVars
    <2>. QED
      BY <1>3, <1>6, <2>1
      DEF RecoveryStep, LockedRecoveryStep, JobRuns, WorkerSettles, OpJobRuns,
          TtlJobRuns, OpJobReturn, TtlCheck, TtlReconciled, TtlReturn,
          ReconcileNative, ReconcileCommit, Dispatch, DispatchOp, DispatchTtl, dbVars,
          DbFails, CompleteOperation, DeleteOperation
  <1>7. CASE BootStep \/ ShutdownStep
    <2>1. ASSUME NEW s \in Sandboxes, RecoverOverdue(s) \/ ShutdownSandbox(s)
          PROVE  Committed'
      BY <1>3, <1>4, <2>1 DEF RecoverOverdue, ShutdownSandbox, dbVars
    <2>2. CASE ShutdownReconciled
      <3>1. h.s \in Sandboxes
        BY <2>2 DEF ShutdownReconciled, Inv, Core, FrameInv, ReturnSteps
      <3>. QED
        BY <1>3, <1>4, <2>2, <3>1 DEF ShutdownReconciled, dbVars
    <2>3. CASE ProcessEnds
      BY <1>1, <2>3 DEF ProcessEnds, dbVars, Committed
    <2>. QED
      BY <1>3, <1>7, <2>1, <2>2, <2>3
      DEF BootStep, ShutdownStep, Recover, RecoverIntent, RecoverReturn, RecoverEnds,
          RecoverAborts, ShutdownLock, ShutdownReturn, ShutdownEnds, dbVars
  <1>8. CASE Environment
    <2>1. CASE Tick
      BY <1>1, <2>1 DEF Tick, Committed, Operations
    <2>2. CASE ProcessEnds
      BY <1>1, <2>2 DEF ProcessEnds, dbVars, Committed
    <2>. QED
      BY <1>3, <1>8, <2>1, <2>2
      DEF Environment, Crash, ShutdownQueue, WorkerTimesOut, TimerFires,
          ContainerExits, ContainerVanishes, dbVars
  <1>9. ASSUME NEW s \in Sandboxes, ServiceStep(s)
        PROVE  Committed'
    <2>1. CASE Adopt(s)
      BY <1>1, <2>1 DEF Adopt, AdoptProvenance, Committed
    <2>2. CASE Rollback(s)
      BY <1>1, <1>2, <2>2, CommittedBegins DEF Rollback, BeginRemove, Kinds
    <2>3. CASE AdoptFails(s) \/ PortsRejected(s) \/ Acknowledge(s) \/ RollbackRefused(s)
      BY <1>1, <2>3
      DEF AdoptFails, PortsRejected, Acknowledge, RollbackRefused, dbVars, Committed
    <2>. QED
      BY <1>9, <2>1, <2>2, <2>3 DEF ServiceStep
  <1>10. ASSUME NEW s \in Sandboxes, Request(s)
         PROVE  Committed'
    <2>1. ASSUME NEW ttl \in 1 .. MaxTtl, CreateBegin(s, ttl)
          PROVE  Committed'
      BY <1>1, <2>1 DEF CreateBegin, BeginCreate, Committed
    <2>2. CASE StartBegin(s) \/ RestartBegin(s) \/ StopBegin(s) \/ RemoveBegin(s)
      <3>1. {"start", "restart", "stop", "delete"} \subseteq Kinds \ {"create"}
        BY DEF Kinds
      <3>. QED
        BY <1>2, <2>2, <3>1, CommittedBegins
        DEF StartBegin, RestartBegin, StopBegin, RemoveBegin, BeginStop, BeginRemove
    <2>. QED
      BY <1>3, <1>10, <2>1, <2>2
      DEF Request, Pause, Resume, RenewExpiration, SetDeadline, dbVars
  <1>11. CASE UNCHANGED vars
    BY <1>3, <1>11 DEF vars, dbVars
  <1>. QED
    BY <1>5, <1>6, <1>7, <1>8, <1>9, <1>10, <1>11 DEF Next
-----------------------------------------------------------------------------
(* Deadlines.                                                              *)

LEMMA Datable ==
  /\ NoDeadline \in Deadlines /\ DefaultTtl \in Deadlines /\ DefaultTtl # NoDeadline
  /\ \A ttl \in 1 .. MaxTtl : ttl \in Deadlines /\ ttl # NoDeadline
  /\ \A dl \in Deadlines : /\ CountDown(dl) # NoDeadline <=> dl # NoDeadline
                           /\ dl <= 0 => CountDown(dl) <= 0
                           /\ CountDown(dl) \in Deadlines
  BY HandlersAssumption, OwnershipAssumption DEF Deadlines, NoDeadline, CountDown

\* The frame goes on: only its step and its result change.
Continues(pc, res) ==
  /\ h'.pc = pc /\ h'.res = res /\ h'.by = h.by /\ h'.s = h.s /\ h'.id = h.id
  /\ h'.kind = h.kind /\ h'.dl = h.dl /\ h'.saw = h.saw

\* The frame works on nothing.
Rests == /\ h'.pc \in {"idle", "boot", "shutdown"} /\ h'.kind = "none"
         /\ h'.by \in {"none", "boot", "shutdown"} /\ h'.s = Nobody

\* The frame takes up intent op.
Begins(by, pc, op) ==
  /\ h'.pc = pc /\ h'.res = "ok" /\ h'.by = by /\ h'.s = op.s /\ h'.id = op.id
  /\ h'.kind = op.kind /\ h'.dl = op.dl /\ h'.saw = FALSE

LEMMA FrameShapes ==
  ASSUME h \in FrameType
  PROVE  /\ \A pc : Goto(pc) => Continues(pc, h.res)
         /\ \A pc : DbFails(pc) => Continues(pc, "fatal") /\ UNCHANGED dbVars
         /\ h' = Idle => Rests
         /\ \A by \in {"boot", "shutdown"}, pc \in {"boot", "shutdown"} :
              h' = SweepFrame(by, pc) => Rests
         /\ \A by, pc, op : h' = Frame(by, pc, op) => Begins(by, pc, op)
  <1>1. \A pc : Goto(pc) => Continues(pc, h.res)
    BY DEF Goto, Continues, FrameType
  <1>2. \A pc : DbFails(pc) => Continues(pc, "fatal") /\ UNCHANGED dbVars
    BY DEF DbFails, Continues, FrameType
  <1>3. h' = Idle => Rests
    BY DEF Idle, Rests
  <1>4. \A by \in {"boot", "shutdown"}, pc \in {"boot", "shutdown"} :
          h' = SweepFrame(by, pc) => Rests
    BY DEF SweepFrame, Idle, Rests
  <1>5. \A by, pc, op : h' = Frame(by, pc, op) => Begins(by, pc, op)
    BY DEF Frame, Begins
  <1>. QED
    BY <1>1, <1>2, <1>3, <1>4, <1>5

LEMMA NativeCallShape ==
  ASSUME h \in FrameType, h.s \in Sandboxes, ctr \in [Sandboxes -> CtrType],
         NEW eff, NEW okPc, NEW errPc, NativeCall(eff, okPc, errPc)
  PROVE  /\ \/ Continues(okPc, h.res) /\ ctr'[h.s] = eff
            \/ Continues(errPc, "err") /\ ctr'[h.s] \in {ctr[h.s], eff}
         /\ \A s \in Sandboxes : s # h.s => ctr'[s] = ctr[s]
  <1>1. CASE /\ ctr' = [ctr EXCEPT ![h.s] = eff]
             /\ h' = [h EXCEPT !.pc = okPc]
    BY <1>1 DEF Continues, FrameType
  <1>2. CASE /\ ctr' \in {ctr, [ctr EXCEPT ![h.s] = eff]}
             /\ h' = [h EXCEPT !.pc = errPc, !.res = "err"]
    <2>1. Continues(errPc, "err")
      BY <1>2 DEF Continues, FrameType
    <2>. QED
      BY <1>2, <2>1
  <1>. QED
    BY <1>1, <1>2 DEF NativeCall

LEMMA RestsDated ==
  ASSUME Rests
  PROVE  FrameDated'
  BY DEF Rests, FrameDated, Halted, RunKinds, DatedKinds

LEMMA ContinuesDated ==
  ASSUME FrameDated, NEW pc, NEW res, Continues(pc, res), pc # "stop.native",
         Halted' => ctr'[h.s] \notin Live
  PROVE  FrameDated'
  BY DEF FrameDated, Continues

\* The database is left alone: a container comes to life only where a creation
\* has no row yet, or under a start.
LEMMA QuietDated ==
  ASSUME Inv, Dated, UNCHANGED dbVars, FrameDated',
         \A s \in Sandboxes : ctr'[s] \in Live =>
           \/ ctr[s] \in Live
           \/ s = h.s /\ h.pc \in {"create.start", "run.native"}
  PROVE  Dated'
  <1>1. /\ owned' = owned /\ ops' = ops /\ deadline' = deadline
        /\ owned \subseteq Sandboxes
    BY DEF dbVars, Inv, Core, DbInv, DbTypeOK
  <1>2. LiveDated'
    <2>1. h.pc = "create.start" => h.s \notin owned
      BY DEF Inv, Core, FrameInv, CreateSteps
    <2>2. h.pc = "run.native" => \E o \in ops : o.s = h.s /\ o.kind \in RunKinds
      BY DEF Inv, Core, FrameInv, RunSteps, HasIntent, RunKinds, IntentSteps
    <2>. QED
      BY <1>1, <2>1, <2>2 DEF Dated, LiveDated, Pending
  <1>. QED
    BY <1>1, <1>2 DEF Dated, IntentsDated, CreationsDated

LEMMA NativeStepsDated ==
  ASSUME Inv, Dated, CreateNative \/ CreateStart \/ CreateUndo \/ RunNative
                       \/ StopNative \/ RemoveNative
  PROVE  Dated'
  <1>1. /\ h \in FrameType /\ ctr \in [Sandboxes -> CtrType] /\ h.s \in Sandboxes
        /\ FrameInv /\ FrameDated /\ UNCHANGED dbVars
    BY DEF Inv, Core, FrameInv, Dated, CreateNative, CreateStart, CreateUndo,
           RunNative, StopNative, RemoveNative, IntentSteps, CreateSteps, RunSteps,
           StopSteps, RemoveSteps
  <1>2. CASE CreateNative
    BY <1>1, <1>2, NativeCallShape, ContinuesDated, QuietDated
    DEF CreateNative, Halted, Continues, FrameInv, CreateSteps, Live
  <1>3. CASE CreateStart
    BY <1>1, <1>3, NativeCallShape, FrameShapes, ContinuesDated, QuietDated
    DEF CreateStart, Halted, Continues, FrameInv, CreateSteps
  <1>4. CASE CreateUndo
    BY <1>1, <1>4, NativeCallShape, ContinuesDated, QuietDated
    DEF CreateUndo, Halted, Continues, FrameInv, CreateSteps, Live
  <1>5. CASE RunNative
    <2>1. h.pc = "run.native" /\ h.kind # "stop"
      BY <1>1, <1>5 DEF RunNative, FrameInv, RunSteps
    <2>2. CASE Goto("retry") /\ UNCHANGED ctr
      BY <1>1, <2>1, <2>2, FrameShapes, ContinuesDated, QuietDated
      DEF Halted, Continues
    <2>3. CASE NativeCall("running", "run.complete", "retry")
      BY <1>1, <2>1, <2>3, NativeCallShape, ContinuesDated, QuietDated
      DEF Halted, Continues
    <2>4. CASE HalfRestart
      <3>1. Continues("retry", "err")
        BY <1>1, <2>4 DEF HalfRestart, Continues, FrameType
      <3>2. \A s \in Sandboxes : ctr'[s] \in {ctr[s], "stopped"}
        BY <1>1, <2>4 DEF HalfRestart
      <3>. QED
        BY <1>1, <2>1, <3>1, <3>2, ContinuesDated, QuietDated DEF Halted, Continues, Live
    <2>. QED
      BY <1>5, <2>2, <2>3, <2>4 DEF RunNative
  <1>6. CASE StopNative
    BY <1>1, <1>6, NativeCallShape, ContinuesDated, QuietDated
    DEF StopNative, Halted, Continues, FrameInv, StopSteps, Stopped, Live
  <1>7. CASE RemoveNative
    BY <1>1, <1>7, NativeCallShape, ContinuesDated, QuietDated
    DEF RemoveNative, Halted, Continues, FrameInv, RemoveSteps, Live
  <1>. QED
    BY <1>2, <1>3, <1>4, <1>5, <1>6, <1>7

LEMMA BeginDated ==
  ASSUME Inv, Dated, UNCHANGED ctr, HasFreshOp, NEW s \in Sandboxes,
         NEW kind \in Kinds \ {"create"}, NEW dl \in Deadlines,
         NEW op \in Begun(s, kind, NewOp, dl), BeginOperation(op),
         kind \in RunKinds => dl # NoDeadline,
         NEW by, NEW pc \in {"run.native", "stop.native", "remove.native"},
         h' = Frame(by, pc, op),
         by = "ttl" => deadline[s] <= 0
  PROVE  Dated'
  <1>1. /\ op \in Operations /\ op.s = s /\ op.kind = kind /\ s \in owned
        /\ \A o \in ops : o.s = s <=> o.id = op.id
    BY NewOpFresh, BegunTyped DEF Inv, Core
  <1>2. /\ ops' = {o \in ops : o.s # s} \cup {op}
        /\ owned' = owned /\ deadline' = deadline
    BY <1>1 DEF BeginOperation
  <1>3. /\ kind \in RunKinds => op.dl # NoDeadline
        /\ \A o \in Pending(s) : Resumable(kind, o)
    <2>1. CASE Pending(s) = {}
      BY <2>1 DEF Begun
    <2>2. CASE Pending(s) # {}
      <3>1. PICK o \in Pending(s) : Resumable(kind, o)
        BY <1>1, <2>2 DEF Begun
      <3>2. \A p \in Pending(s) : p = o
        BY <3>1 DEF Pending, Inv, Core, DbInv, OneIntent
      <3>. QED
        BY <3>1, <3>2 DEF Resumable, RunKinds
    <2>. QED
      BY <2>1, <2>2
  <1>4. IntentsDated' /\ CreationsDated'
    BY <1>1, <1>2, <1>3
    DEF Dated, IntentsDated, CreationsDated, DatedKinds
  <1>5. LiveDated'
    <2> SUFFICES ASSUME NEW t \in owned, ctr[t] \in Live, deadline[t] = NoDeadline
                 PROVE  \E o \in ops' : o.s = t /\ o.kind \in RunKinds
      BY <1>2 DEF LiveDated, Pending
    <2>1. PICK o \in ops : o.s = t /\ o.kind \in RunKinds
      BY DEF Dated, LiveDated, Pending
    <2>2. t # s
      BY <1>3, <2>1 DEF Pending, Resumable, RunKinds
    <2>. QED
      BY <1>2, <2>1, <2>2
  <1>6. FrameDated'
    <2>1. Begins(by, pc, op)
      BY FrameShapes DEF Inv, Core, FrameInv
    <2>. QED
      BY <1>1, <1>2, <1>3, <2>1 DEF FrameDated, Begins, Halted, DatedKinds
  <1>. QED
    BY <1>4, <1>5, <1>6 DEF Dated

\* The transactions of the handlers.
LEMMA DbStepsDated ==
  ASSUME Inv, Dated, CreateBind \/ CreateCommit \/ CreateForget \/ CreateOwn
                       \/ RunComplete \/ StopComplete \/ RemoveDelete
                       \/ ReconcileCommit
  PROVE  Dated'
  <1>1. /\ h \in FrameType /\ ctr' = ctr /\ h.s \in Sandboxes /\ h.pc \in IntentSteps
        /\ FrameInv /\ FrameDated /\ owned \subseteq Sandboxes
        /\ deadline \in [Sandboxes -> Deadlines] /\ ops \subseteq Operations
    BY DEF Inv, Core, FrameInv, DbInv, DbTypeOK, Dated, CreateBind, CreateCommit,
           CreateForget, CreateOwn, RunComplete, StopComplete, RemoveDelete,
           ReconcileCommit, IntentSteps, CreateSteps, RunSteps, StopSteps,
           RemoveSteps, ReconcileSteps
  <1>2. ASSUME NEW pc \in {"retry", "create.undo", "reconcile.ret"}, DbFails(pc)
        PROVE  Dated'
    <2>1. Continues(pc, "fatal") /\ UNCHANGED dbVars
      BY <1>1, <1>2, FrameShapes
    <2>. QED
      BY <1>1, <2>1, ContinuesDated, QuietDated DEF Halted, Continues
  <1>3. ASSUME NEW pc \in {"retry", "reconcile.ret"}, Goto(pc),
               ctr[h.s] \notin Live \/ h.kind # "stop"
        PROVE  FrameDated'
    BY <1>1, <1>3, FrameShapes, ContinuesDated DEF Halted, Continues
  <1>4. CASE CreateBind
    <2>1. CASE BindCreation(h.id) /\ Goto("create.start")
      <3>1. FrameDated'
        BY <1>1, <2>1, FrameShapes, ContinuesDated DEF Halted, Continues
      <3>2. /\ owned' = owned /\ deadline' = deadline
            /\ \A o \in ops' : \E p \in ops : p.s = o.s /\ p.kind = o.kind /\ p.dl = o.dl
            /\ \A o \in ops : \E p \in ops' : p.s = o.s /\ p.kind = o.kind
        <4> DEFINE bound(o) == IF o.id = h.id THEN [o EXCEPT !.native = TRUE] ELSE o
        <4>1. ops' = {bound(o) : o \in ops} /\ owned' = owned /\ deadline' = deadline
          BY <2>1 DEF BindCreation
        <4>2. \A o \in ops : /\ bound(o).s = o.s /\ bound(o).kind = o.kind
                             /\ bound(o).dl = o.dl
          BY <1>1 DEF Operations
        <4> HIDE DEF bound
        <4>. QED
          BY <4>1, <4>2
      <3>3. IntentsDated' /\ CreationsDated'
        BY <3>2 DEF Dated, IntentsDated, CreationsDated
      <3>4. LiveDated'
        BY <1>1, <3>2 DEF Dated, LiveDated, Pending
      <3>. QED
        BY <3>1, <3>3, <3>4 DEF Dated
    <2>. QED
      BY <1>2, <1>4, <2>1 DEF CreateBind
  <1>5. ASSUME CreateOwnership(h.s, h.dl), h.kind = "create", FrameDated'
        PROVE  Dated'
    <2>1. /\ h.s \notin owned /\ owned' = owned \cup {h.s} /\ ops' = ops
          /\ deadline' = [deadline EXCEPT ![h.s] = h.dl] /\ h.dl # NoDeadline
      BY <1>1, <1>5 DEF CreateOwnership, FrameDated, DatedKinds
    <2>2. CreationsDated' /\ LiveDated' /\ IntentsDated'
      BY <1>1, <2>1 DEF Dated, IntentsDated, CreationsDated, LiveDated, Pending
    <2>. QED
      BY <1>5, <2>2 DEF Dated
  <1>6. ASSUME DeleteOperation(h.s, h.id), FrameDated'
        PROVE  Dated'
    <2>1. /\ owned' = owned \ {h.s} /\ ops' = {o \in ops : o.s # h.s}
          /\ \A s \in owned' : deadline'[s] = deadline[s]
      BY <1>1, <1>6, DeleteOperationInv DEF Inv, Core, FrameInv, DeleteOperation
    <2>2. CreationsDated' /\ LiveDated' /\ IntentsDated'
      BY <1>1, <2>1 DEF Dated, IntentsDated, CreationsDated, LiveDated, Pending
    <2>. QED
      BY <1>6, <2>2 DEF Dated
  <1>7. ASSUME NEW dl \in Deadlines, CompleteOperation(h.s, h.id, dl), FrameDated',
               h.kind # "create", dl = NoDeadline => ctr[h.s] \notin Live
        PROVE  Dated'
    <2>1. /\ owned' = owned /\ ops' = {o \in ops : o.id # h.id}
          /\ deadline' = [deadline EXCEPT ![h.s] = dl]
      BY <1>7 DEF CompleteOperation
    <2>2. \A o \in ops : o.id = h.id <=> o.s = h.s
      BY <1>1 DEF Inv, Core, FrameInv, HasIntent, DbInv, OneIntent
    <2>3. CreationsDated' /\ LiveDated' /\ IntentsDated'
      BY <1>1, <1>7, <2>1, <2>2
      DEF Dated, IntentsDated, CreationsDated, LiveDated, Pending
    <2>. QED
      BY <1>7, <2>3 DEF Dated
  <1>8. CASE CreateCommit \/ CreateOwn \/ CreateForget
    <2>1. h.kind = "create"
      BY <1>1, <1>8 DEF CreateCommit, CreateOwn, CreateForget, FrameInv, CreateSteps
    <2>2. h' = Idle => FrameDated'
      BY <1>1, FrameShapes, RestsDated
    <2>. QED
      BY <1>1, <1>2, <1>3, <1>5, <1>6, <1>8, <2>1, <2>2
      DEF CreateCommit, CreateOwn, CreateForget, CommitCreation
  <1>9. CASE RunComplete
    <2>1. h.kind \in RunKinds /\ h.dl # NoDeadline /\ h.dl \in Deadlines
      BY <1>1, <1>9 DEF RunComplete, FrameInv, RunSteps, RunKinds, FrameDated, FrameType,
         DatedKinds
    <2>2. Goto("retry") => FrameDated'
      BY <1>3, <2>1 DEF RunKinds
    <2>3. Goto("retry") /\ UNCHANGED dbVars => Dated'
      BY <1>1, <2>2, QuietDated
    <2>. QED
      BY <1>2, <1>7, <1>9, <2>1, <2>2, <2>3 DEF RunComplete, RunKinds
  <1>10. CASE StopComplete
    <2>1. h.kind = "stop" /\ ctr[h.s] \notin Live
      BY <1>1, <1>10 DEF StopComplete, FrameInv, StopSteps, FrameDated, Halted
    <2>. QED
      BY <1>2, <1>3, <1>7, <1>10, <2>1, Datable DEF StopComplete
  <1>11. CASE RemoveDelete
    <2>1. h.kind = "delete"
      BY <1>1, <1>11 DEF RemoveDelete, FrameInv, RemoveSteps
    <2>. QED
      BY <1>2, <1>3, <1>6, <1>11, <2>1 DEF RemoveDelete
  <1>12. CASE ReconcileCommit
    <2>1. h.pc = "reconcile.commit" /\ h.dl \in Deadlines
      BY <1>1, <1>12 DEF ReconcileCommit, FrameType
    <2>2. CASE h.kind \in {"create", "delete"} /\ DeleteOperation(h.s, h.id)
               /\ Goto("reconcile.ret")
      BY <1>3, <1>6, <2>2
    <2>3. CASE /\ h.kind = "stop" \/ (h.kind \in {"start", "restart"} /\ ~h.saw)
               /\ CompleteOperation(h.s, h.id, NoDeadline) /\ Goto("reconcile.ret")
      <3>1. ctr[h.s] \notin Live
        BY <1>1, <2>1, <2>3 DEF FrameDated, Halted, RunKinds
      <3>. QED
        BY <1>3, <1>7, <2>3, <3>1, Datable
    <2>4. CASE /\ h.kind \in {"start", "restart"}
               /\ CompleteOperation(h.s, h.id, h.dl) /\ Goto("reconcile.ret")
      <3>1. h.dl # NoDeadline
        BY <1>1, <2>4 DEF FrameDated, DatedKinds, RunKinds
      <3>. QED
        BY <1>3, <1>7, <2>1, <2>4, <3>1
    <2>. QED
      BY <1>2, <1>12, <2>2, <2>3, <2>4 DEF ReconcileCommit
  <1>. QED
    BY <1>4, <1>8, <1>9, <1>10, <1>11, <1>12

LEMMA TtlEndsDated ==
  ASSUME Inv, Dated, UNCHANGED dbVars, UNCHANGED ctr, h' = Idle
  PROVE  Dated'
  BY FrameShapes, RestsDated, QuietDated DEF Inv, Core, FrameInv

\* Reconciliation begins with a pending intent.
LEMMA ReconcileDated ==
  ASSUME Inv, Dated, UNCHANGED dbVars, UNCHANGED ctr, NEW by, NEW op \in ops,
         BeginReconcile(by, op)
  PROVE  Dated'
  <1>0. Begins(by, "reconcile.native", op)
    BY FrameShapes DEF Inv, Core, FrameInv, BeginReconcile
  <1>1. FrameDated'
    BY <1>0 DEF Begins, FrameDated, Dated, IntentsDated, Halted
  <1>. QED
    BY <1>1, QuietDated

LEMMA BeginStopDated ==
  ASSUME Inv, Dated, UNCHANGED ctr, HasFreshOp, NEW s \in Sandboxes, NEW by,
         BeginStop(by, s), by = "ttl" => deadline[s] <= 0
  PROVE  Dated'
  BY BeginDated, Datable DEF BeginStop, Kinds, RunKinds

LEMMA HandlerDated ==
  ASSUME Inv, Dated, HandlerStep
  PROVE  Dated'
  <1>1. h \in FrameType /\ FrameDated /\ FrameInv
    BY DEF Inv, Core, FrameInv, Dated
  <1>2. CASE ApiReturn \/ CreateReturn \/ RollbackReturn
    BY <1>2, TtlEndsDated DEF ApiReturn, CreateReturn, RollbackReturn, dbVars
  <1>3. CASE RetryOperation
    <2>1. Continues("ret", h.res) /\ UNCHANGED dbVars /\ UNCHANGED ctr /\ h.pc = "retry"
      BY <1>1, <1>3, FrameShapes DEF RetryOperation
    <2>2. Halted' => ctr'[h.s] \notin Live
      BY <1>1, <2>1 DEF FrameDated, Halted, Continues
    <2>3. FrameDated'
      BY <1>1, <2>1, <2>2, ContinuesDated
    <2>. QED
      BY <2>1, <2>3, QuietDated
  <1>. QED
    BY <1>2, <1>3, NativeStepsDated, DbStepsDated DEF HandlerStep

LEMMA RecoveryDated ==
  ASSUME Inv, Dated, RecoveryStep \/ Dispatch
  PROVE  Dated'
  <1>1. h \in FrameType /\ FrameDated /\ FrameInv
        /\ (h.pc \in TtlSteps \cup IntentSteps => h.s \in Sandboxes)
        /\ ctr \in [Sandboxes -> CtrType]
    BY DEF Inv, Core, FrameInv, Dated
  <1>2. CASE UNCHANGED dbVars /\ UNCHANGED ctr /\ (h' = Idle \/ UNCHANGED h)
    BY <1>1, <1>2, TtlEndsDated, QuietDated DEF FrameDated, Halted, dbVars
  <1>3. ASSUME NEW pc \in {"ttl.stop"}, Goto(pc), UNCHANGED dbVars, UNCHANGED ctr
        PROVE  Dated'
    BY <1>1, <1>3, FrameShapes, ContinuesDated, QuietDated DEF Halted, Continues
  <1>4. CASE ReconcileNative
    <2>1. h.s \in Sandboxes /\ h.pc = "reconcile.native" /\ UNCHANGED dbVars
      BY <1>1, <1>4 DEF ReconcileNative, IntentSteps, ReconcileSteps
    <2>2. CASE h.kind \in {"create", "delete"}
               /\ NativeCall("absent", "reconcile.commit", "reconcile.ret")
      BY <1>1, <2>1, <2>2, NativeCallShape, ContinuesDated, QuietDated
      DEF Halted, Continues, Live
    <2>3. CASE NativeCall(Stopped(ctr[h.s]), "reconcile.commit", "reconcile.ret")
      BY <1>1, <2>1, <2>3, NativeCallShape, ContinuesDated, QuietDated
      DEF Halted, Continues, Live, Stopped
    <2>4. CASE /\ h.kind \in {"start", "restart"} /\ UNCHANGED ctr
               /\ h' = [h EXCEPT !.pc = "reconcile.commit", !.saw = ctr[h.s] \in Live]
      <3>1. /\ h'.pc = "reconcile.commit" /\ h'.kind = h.kind /\ h'.dl = h.dl
            /\ h'.saw = (ctr[h.s] \in Live) /\ h'.s = h.s
        BY <1>1, <2>4 DEF FrameType
      <3>2. FrameDated'
        BY <1>1, <2>4, <3>1 DEF FrameDated, Halted
      <3>. QED
        BY <2>1, <2>4, <3>2, QuietDated
    <2>5. CASE UNCHANGED ctr /\ h' = [h EXCEPT !.pc = "reconcile.ret", !.res = "err"]
      <3>1. Continues("reconcile.ret", "err")
        BY <1>1, <2>5 DEF Continues, FrameType
      <3>. QED
        BY <1>1, <2>1, <2>5, <3>1, ContinuesDated, QuietDated DEF Halted, Continues
    <2>6. CASE UNCHANGED ctr /\ DbFails("reconcile.ret")
      BY <1>1, <2>1, <2>6, FrameShapes, ContinuesDated, QuietDated
      DEF Halted, Continues
    <2>. QED
      BY <1>4, <2>2, <2>3, <2>4, <2>5, <2>6 DEF ReconcileNative
  <1>5. CASE OpJobRuns \/ TtlJobRuns
    <2>1. ASSUME h' = [Idle EXCEPT !.by = "ttl", !.pc = "ttl.check", !.s = worker.s]
          PROVE  FrameDated'
      BY <2>1 DEF Idle, FrameDated, Halted, DatedKinds, RunKinds
    <2>. QED
      BY <1>2, <1>5, <2>1, QuietDated, ReconcileDated
      DEF OpJobRuns, TtlJobRuns, FindOperation, dbVars
  <1>6. CASE TtlCheck \/ TtlReconciled
    BY <1>2, <1>3, <1>6, ReconcileDated
    DEF TtlCheck, TtlReconciled, TtlEnds, TtlRetries, Pending, dbVars
  <1>7. CASE TtlStop
    <2>1. h.s \in Sandboxes
      BY <1>1, <1>7 DEF TtlStop, TtlSteps
    <2>. QED
      BY <1>2, <1>7, <2>1, BeginStopDated DEF TtlStop, TtlEnds, TtlRetries, dbVars
  <1>. QED
    BY <1>2, <1>4, <1>5, <1>6, <1>7, DbStepsDated
    DEF RecoveryStep, LockedRecoveryStep, JobRuns, WorkerSettles, OpJobReturn, TtlReturn,
        TtlEnds, TtlRetries, Dispatch, DispatchOp, DispatchTtl, dbVars

LEMMA SweepsDated ==
  ASSUME Inv, Dated, BootStep \/ ShutdownStep
  PROVE  Dated'
  <1>1. h \in FrameType /\ FrameInv /\ ops \subseteq Operations
    BY DEF Inv, Core, FrameInv, DbInv, DbTypeOK
  <1>2. CASE UNCHANGED dbVars /\ UNCHANGED ctr /\ (Rests \/ UNCHANGED h)
    BY <1>1, <1>2, RestsDated, QuietDated DEF Dated, FrameDated, Halted, dbVars
  <1>3. CASE ProcessEnds
    BY <1>1, <1>2, <1>3, FrameShapes DEF ProcessEnds
  <1>4. CASE BootStep
    BY <1>1, <1>2, <1>3, <1>4, FrameShapes, BeginStopDated, ReconcileDated
    DEF BootStep, Recover, RecoverIntent, RecoverOverdue, RecoverReturn, RecoverEnds,
        RecoverAborts, FindOperation, dbVars
  <1>5. CASE ShutdownReconciled
    <2>1. h.s \in Sandboxes
      BY <1>1, <1>5 DEF ShutdownReconciled, FrameInv, ReturnSteps
    <2>. QED
      BY <1>1, <1>2, <1>5, <2>1, FrameShapes, BeginStopDated DEF ShutdownReconciled
  <1>6. CASE ShutdownStep
    BY <1>1, <1>2, <1>3, <1>5, <1>6, FrameShapes, BeginStopDated, ReconcileDated
    DEF ShutdownStep, ShutdownLock, ShutdownSandbox, ShutdownReturn, ShutdownEnds,
        Pending, dbVars
  <1>. QED
    BY <1>4, <1>6

LEMMA TickDated ==
  ASSUME Inv, Dated, Tick
  PROVE  Dated'
  <1>1. /\ h \in FrameType /\ ops \subseteq Operations /\ owned \subseteq Sandboxes
        /\ deadline \in [Sandboxes -> Deadlines] /\ h.dl \in Deadlines
        /\ FrameInv
    BY DEF Inv, Core, FrameInv, DbInv, DbTypeOK, FrameType
  <1> DEFINE ticked(o) == [o EXCEPT !.dl = CountDown(@)]
  <1>2. /\ owned' = owned /\ ctr' = ctr /\ ops' = {ticked(o) : o \in ops}
        /\ h' = ticked(h) /\ deadline' = [s \in Sandboxes |-> CountDown(deadline[s])]
    BY DEF Tick
  <1>3. \A o \in ops : /\ ticked(o).s = o.s /\ ticked(o).kind = o.kind
                       /\ ticked(o).dl = CountDown(o.dl) /\ o.dl \in Deadlines
    BY <1>1 DEF Operations
  <1>4. /\ ticked(h).s = h.s /\ ticked(h).kind = h.kind /\ ticked(h).pc = h.pc
        /\ ticked(h).by = h.by /\ ticked(h).res = h.res /\ ticked(h).saw = h.saw
        /\ ticked(h).dl = CountDown(h.dl)
    BY <1>1 DEF FrameType
  <1> HIDE DEF ticked
  <1>5. IntentsDated' /\ CreationsDated'
    BY <1>1, <1>2, <1>3, Datable DEF Dated, IntentsDated, CreationsDated
  <1>6. LiveDated'
    <2> SUFFICES ASSUME NEW s \in owned, ctr[s] \in Live
                 PROVE  deadline'[s] # NoDeadline \/ \E o \in ops' : o.s = s /\ o.kind \in RunKinds
      BY <1>2 DEF LiveDated, Pending
    <2>. QED
      BY <1>1, <1>2, <1>3, Datable DEF Dated, LiveDated, Pending
  <1>7. FrameDated'
    <2>1. h.kind \in DatedKinds => h'.dl # NoDeadline
      BY <1>1, <1>2, <1>4, Datable DEF Dated, FrameDated
    <2>2. Halted' <=> Halted
      BY <1>2, <1>4 DEF Halted
    <2>3. h.by = "ttl" /\ h.pc = "stop.native" => deadline'[h.s] <= 0
      <3>1. h.pc = "stop.native" => h.s \in Sandboxes
        BY <1>1 DEF FrameInv, IntentSteps, StopSteps
      <3>. QED
        BY <1>1, <1>2, <3>1, Datable DEF Dated, FrameDated
    <2>. QED
      BY <1>2, <1>4, <2>1, <2>2, <2>3 DEF Dated, FrameDated
  <1>. QED
    BY <1>5, <1>6, <1>7 DEF Dated

LEMMA WorldDated ==
  ASSUME Inv, Dated,
         \/ Environment \/ UNCHANGED vars
         \/ \E s \in Sandboxes : ServiceStep(s) \/ Request(s)
  PROVE  Dated'
  <1>1. /\ h \in FrameType /\ FrameInv /\ ops \subseteq Operations
        /\ ctr \in [Sandboxes -> CtrType] /\ owned \subseteq Sandboxes
        /\ deadline \in [Sandboxes -> Deadlines]
    BY DEF Inv, Core, FrameInv, DbInv, DbTypeOK
  <1>2. CASE UNCHANGED dbVars /\ UNCHANGED h /\ (\A s \in Sandboxes : ctr'[s] \in Live => ctr[s] \in Live)
    <2>1. h.s \in Sandboxes \/ ~Halted
      BY <1>1 DEF Halted, FrameInv, IntentSteps, ReturnSteps, StopSteps, ReconcileSteps
    <2>2. FrameDated'
      BY <1>2, <2>1 DEF Dated, FrameDated, Halted, dbVars
    <2>. QED
      BY <1>2, <2>2, QuietDated
  <1>3. CASE ProcessEnds
    BY <1>1, <1>3, TtlEndsDated DEF ProcessEnds
  <1>4. CASE Environment
    <2>1. \A s \in Sandboxes : ContainerExits(s) \/ ContainerVanishes(s) => Dated'
      BY <1>1, <1>2 DEF ContainerExits, ContainerVanishes, Live
    <2>. QED
      BY <1>2, <1>3, <1>4, <2>1, TickDated
      DEF Environment, Crash, ShutdownQueue, WorkerTimesOut, TimerFires, dbVars
  <1>5. ASSUME NEW s \in Sandboxes, ServiceStep(s)
        PROVE  Dated'
    <2>1. CASE Adopt(s)
      <3>1. FrameDated'
        BY <2>1 DEF Adopt, AdoptProvenance, Dated, FrameDated, Halted
      <3>2. /\ owned' = owned /\ deadline' = deadline /\ ctr' = ctr
            /\ ops' = {o \in ops : ~(o.s = s /\ o.kind = "create")}
        BY <2>1 DEF Adopt, AdoptProvenance
      <3>. QED
        BY <3>1, <3>2
        DEF Dated, IntentsDated, CreationsDated, LiveDated, Pending, RunKinds
    <2>2. CASE Rollback(s)
      BY <2>2, BeginDated, Datable DEF Rollback, BeginRemove, Kinds, RunKinds
    <2>. QED
      BY <1>2, <1>5, <2>1, <2>2
      DEF ServiceStep, AdoptFails, PortsRejected, Acknowledge, RollbackRefused, dbVars
  <1>6. ASSUME NEW s \in Sandboxes, Request(s)
        PROVE  Dated'
    <2>1. ASSUME NEW ttl \in 1 .. MaxTtl, CreateBegin(s, ttl)
          PROVE  Dated'
      <3> DEFINE new == [id |-> NewOp, kind |-> "create", s |-> s, native |-> FALSE,
                         dl |-> ttl]
      <3>1. /\ ops' = ops \cup {new} /\ owned' = owned /\ deadline' = deadline
            /\ s \notin owned /\ ctr' = ctr
        BY <2>1 DEF CreateBegin, BeginCreate
      <3>2. new.s = s /\ new.dl # NoDeadline /\ new.kind = "create"
        BY Datable
      <3>3. FrameDated'
        <4>1. h' = Frame("create", "create.native",
                         [id |-> NewOp, kind |-> "create", s |-> s, dl |-> ttl])
          BY <2>1 DEF CreateBegin
        <4>. QED
          BY <4>1, Datable DEF Frame, FrameDated, Halted
      <3> HIDE DEF new
      <3>. QED
        BY <3>1, <3>2, <3>3 DEF Dated, IntentsDated, CreationsDated, LiveDated, Pending
    <2>2. CASE StartBegin(s) \/ RestartBegin(s) \/ RemoveBegin(s)
      BY <2>2, BeginDated, Datable
      DEF StartBegin, RestartBegin, RemoveBegin, BeginRemove, Kinds, RunKinds
    <2>3. CASE StopBegin(s)
      BY <2>3, BeginStopDated DEF StopBegin
    <2>4. CASE Pause(s) \/ Resume(s)
      BY <1>1, <1>2, <2>4 DEF Pause, Resume, Live
    <2>5. ASSUME NEW ttl \in 1 .. MaxTtl, RenewExpiration(s, ttl)
          PROVE  Dated'
      <3>1. /\ ops' = ops /\ owned' = owned /\ h' = h /\ ctr' = ctr /\ h.pc = "idle"
            /\ deadline' = [deadline EXCEPT ![s] = ttl]
        BY <2>5 DEF RenewExpiration, SetDeadline, CanLock
      <3>2. FrameDated'
        BY <3>1 DEF Dated, FrameDated, Halted
      <3>. QED
        BY <1>1, <3>1, <3>2, Datable
        DEF Dated, IntentsDated, CreationsDated, LiveDated, Pending
    <2>. QED
      BY <1>6, <2>1, <2>2, <2>3, <2>4, <2>5 DEF Request
  <1>. QED
    BY <1>2, <1>4, <1>5, <1>6 DEF vars

LEMMA DatedStep ==
  ASSUME Inv, Dated, [Next]_vars
  PROVE  Dated'
  BY HandlerDated, RecoveryDated, SweepsDated, WorldDated DEF Next

-----------------------------------------------------------------------------
(* Who works on what.                                                      *)

\* A frame that goes on within its own steps keeps its role.
LEMMA ContinuesRoles ==
  ASSUME Roles, NEW pc, NEW res, Continues(pc, res), UNCHANGED worker,
         svc' = svc,
         \/ pc \in CreateSteps \cup {"retry"} /\ h.pc \in CreateSteps
         \/ pc = "retry" /\ h.pc \in RunSteps
         \/ pc \in StopSteps \cup {"retry"} /\ h.pc \in StopSteps /\ h.kind = "stop"
         \/ pc \in RemoveSteps \cup {"retry"} /\ h.pc \in RemoveSteps
         \/ pc \in RunSteps /\ h.pc \in RunSteps
         \/ pc \in ReconcileSteps \cup {"reconcile.ret"} /\ h.pc \in ReconcileSteps
         \/ pc \in TtlSteps /\ h.pc \in TtlSteps \cup {"reconcile.ret"} /\ h.by = "ttl"
         \/ pc = "ret" /\ h.pc = "retry"
  PROVE  Roles'
  BY DEF Roles, Continues, CreateSteps, RunSteps, StopSteps, RemoveSteps, ReconcileSteps,
         TtlSteps

LEMMA RestsRoles ==
  ASSUME Rests
  PROVE  Roles'
  BY DEF Rests, Roles, CreateSteps, TtlSteps

LEMMA SameFrameRoles ==
  ASSUME Inv, Roles, UNCHANGED h,
         UNCHANGED worker \/ worker.res # "locked",
         \A s \in Sandboxes : svc[s] = "creating" => svc'[s] = "creating"
  PROVE  Roles'
  <1>1. h.by = "create" => h.s \in Sandboxes
    BY DEF Roles, Inv, Core, FrameInv, IntentSteps, ReturnSteps
  <1>. QED
    BY <1>1 DEF Roles

\* A frame that begins outside its own protocol plays no role that binds it.
LEMMA BeginsRoles ==
  ASSUME NEW by \in {"api", "boot", "shutdown"}, NEW op,
         NEW pc \in {"run.native", "stop.native", "remove.native", "reconcile.native"},
         Begins(by, pc, op)
  PROVE  Roles'
  BY DEF Roles, Begins, CreateSteps, TtlSteps

LEMMA HandlerRoles ==
  ASSUME Inv, Roles, HandlerStep
  PROVE  Roles'
  <1>1. /\ h \in FrameType /\ FrameInv /\ ctr \in [Sandboxes -> CtrType]
        /\ (h.pc \in IntentSteps => h.s \in Sandboxes)
    BY DEF Inv, Core, FrameInv
  <1>2. CASE CreateNative \/ CreateStart \/ CreateUndo
    <2>1. h.s \in Sandboxes /\ h.pc \in CreateSteps /\ UNCHANGED <<worker, svc>>
      BY <1>1, <1>2 DEF CreateNative, CreateStart, CreateUndo, CreateSteps, IntentSteps, memVars
    <2>. QED
      BY <1>1, <1>2, <2>1, NativeCallShape, FrameShapes, ContinuesRoles
      DEF CreateNative, CreateStart, CreateUndo, CreateSteps
  <1>3. CASE CreateBind \/ CreateCommit \/ CreateForget \/ CreateOwn
    BY <1>1, <1>3, FrameShapes, ContinuesRoles, RestsRoles
    DEF CreateBind, CreateCommit, CreateForget, CreateOwn, CreateSteps, memVars
  <1>4. CASE RunNative
    <2>1. h.s \in Sandboxes /\ h.pc = "run.native" /\ UNCHANGED <<worker, svc>>
      BY <1>1, <1>4 DEF RunNative, RunSteps, IntentSteps
    <2>2. HalfRestart => Continues("retry", "err")
      BY <1>1 DEF HalfRestart, Continues, FrameType
    <2>. QED
      BY <1>1, <1>4, <2>1, <2>2, NativeCallShape, FrameShapes, ContinuesRoles
      DEF RunNative, RunSteps
  <1>5. CASE RunComplete
    BY <1>1, <1>5, FrameShapes, ContinuesRoles DEF RunComplete, RunSteps, memVars
  <1>6. CASE StopNative \/ StopComplete
    <2>1. /\ h.s \in Sandboxes /\ h.pc \in StopSteps /\ h.kind = "stop"
          /\ UNCHANGED <<worker, svc>>
      BY <1>1, <1>6 DEF StopNative, StopComplete, StopSteps, IntentSteps, FrameInv, memVars
    <2>. QED
      BY <1>1, <1>6, <2>1, NativeCallShape, FrameShapes, ContinuesRoles
      DEF StopNative, StopComplete, StopSteps
  <1>7. CASE RemoveNative \/ RemoveDelete
    <2>1. /\ h.s \in Sandboxes /\ h.pc \in RemoveSteps
          /\ UNCHANGED <<worker, svc>>
      BY <1>1, <1>7 DEF RemoveNative, RemoveDelete, RemoveSteps, IntentSteps, memVars
    <2>. QED
      BY <1>1, <1>7, <2>1, NativeCallShape, FrameShapes, ContinuesRoles
      DEF RemoveNative, RemoveDelete, RemoveSteps
  <1>8. CASE RetryOperation
    BY <1>1, <1>8, FrameShapes, ContinuesRoles DEF RetryOperation
  <1>9. CASE ApiReturn \/ CreateReturn \/ RollbackReturn
    BY <1>1, <1>9, FrameShapes, RestsRoles DEF ApiReturn, CreateReturn, RollbackReturn
  <1>. QED
    BY <1>2, <1>3, <1>4, <1>5, <1>6, <1>7, <1>8, <1>9 DEF HandlerStep

LEMMA RecoveryRoles ==
  ASSUME Inv, Roles, RecoveryStep \/ Dispatch
  PROVE  Roles'
  <1>1. /\ h \in FrameType /\ FrameInv /\ ctr \in [Sandboxes -> CtrType]
        /\ (h.pc \in IntentSteps \cup TtlSteps => h.s \in Sandboxes)
        /\ worker \in WorkerType
    BY DEF Inv, Core, FrameInv, Memory, QueueInv
  <1>2. CASE h' = Idle
    BY <1>1, <1>2, FrameShapes, RestsRoles
  <1>3. CASE UNCHANGED <<h, svc>> /\ worker.res # "locked"
    BY <1>3, SameFrameRoles
  <1>4. CASE ReconcileNative
    <2>1. h.s \in Sandboxes /\ h.pc = "reconcile.native" /\ UNCHANGED <<worker, svc>>
      BY <1>1, <1>4 DEF ReconcileNative, IntentSteps, ReconcileSteps, memVars
    <2>2. ASSUME NEW eff, NativeCall(eff, "reconcile.commit", "reconcile.ret")
          PROVE  Roles'
      BY <1>1, <2>1, <2>2, NativeCallShape, ContinuesRoles DEF ReconcileSteps
    <2>3. CASE h' = [h EXCEPT !.pc = "reconcile.commit", !.saw = ctr[h.s] \in Live]
      <3>1. /\ h'.pc = "reconcile.commit" /\ h'.by = h.by /\ h'.id = h.id
            /\ h'.kind = h.kind /\ h'.s = h.s
        BY <1>1, <2>3 DEF FrameType
      <3>. QED
        BY <2>1, <3>1
        DEF Roles, CreateSteps, RemoveSteps, TtlSteps, StopSteps, ReconcileSteps
    <2>4. h' = [h EXCEPT !.pc = "reconcile.ret", !.res = "err"]
            => Continues("reconcile.ret", "err")
      BY <1>1 DEF Continues, FrameType
    <2>. QED
      BY <1>1, <1>4, <2>1, <2>2, <2>3, <2>4, FrameShapes, ContinuesRoles
      DEF ReconcileNative, ReconcileSteps
  <1>5. CASE ReconcileCommit
    BY <1>1, <1>5, FrameShapes, ContinuesRoles DEF ReconcileCommit, ReconcileSteps
  <1>6. CASE OpJobRuns
    <2>1. ASSUME NEW op \in FindOperation(worker.id), BeginReconcile("job", op),
                 WorkerEnds("locked")
          PROVE  Roles'
      <3>1. Begins("job", "reconcile.native", op)
        BY <1>1, <2>1, FrameShapes DEF BeginReconcile
      <3>2. worker'.job = "op" /\ worker'.res = "locked" /\ worker'.id = op.id
        BY <1>1, <1>6, <2>1 DEF OpJobRuns, WorkerEnds, WorkerType, FindOperation
      <3>. QED
        BY <3>1, <3>2 DEF Roles, Begins, CreateSteps, TtlSteps, ReconcileSteps
    <2>. QED
      BY <1>3, <1>6, <2>1 DEF OpJobRuns, WorkerLocks
  <1>7. CASE TtlJobRuns
    <2>1. ASSUME WorkerEnds("locked"),
                 h' = [Idle EXCEPT !.by = "ttl", !.pc = "ttl.check", !.s = worker.s]
          PROVE  Roles'
      <3>1. h'.by = "ttl" /\ h'.pc = "ttl.check"
        BY <2>1 DEF Idle
      <3>2. worker'.job = "ttl" /\ worker'.res = "locked"
        BY <1>1, <1>7, <2>1 DEF TtlJobRuns, WorkerEnds, WorkerType
      <3>. QED
        BY <3>1, <3>2 DEF Roles, CreateSteps, TtlSteps
    <2>. QED
      BY <1>3, <1>7, <2>1 DEF TtlJobRuns, WorkerLocks
  <1>8. CASE TtlCheck
    <2>1. ASSUME NEW op, BeginReconcile("ttl", op), UNCHANGED worker
          PROVE  Roles'
      <3>1. Begins("ttl", "reconcile.native", op)
        BY <1>1, <2>1, FrameShapes DEF BeginReconcile
      <3>. QED
        BY <1>8, <2>1, <3>1
        DEF TtlCheck, Roles, Begins, CreateSteps, TtlSteps, ReconcileSteps
    <2>. QED
      BY <1>1, <1>2, <1>8, <2>1, FrameShapes, ContinuesRoles
      DEF TtlCheck, TtlRetries, TtlEnds, TtlSteps, Roles
  <1>9. CASE TtlReconciled
    BY <1>1, <1>2, <1>9, FrameShapes, ContinuesRoles
    DEF TtlReconciled, TtlRetries, TtlEnds, TtlSteps
  <1>10. CASE TtlStop
    <2>1. ASSUME BeginStop("ttl", h.s), UNCHANGED worker
          PROVE  Roles'
      <3>1. PICK op : h' = Frame("ttl", "stop.native", op)
        BY <2>1 DEF BeginStop
      <3>2. Begins("ttl", "stop.native", op)
        BY <1>1, <3>1, FrameShapes
      <3>. QED
        BY <1>10, <2>1, <3>2 DEF TtlStop, Roles, Begins, CreateSteps, TtlSteps, StopSteps
    <2>. QED
      BY <1>2, <1>10, <2>1 DEF TtlStop, TtlRetries, TtlEnds
  <1>11. CASE WorkerSettles \/ Dispatch
    <2>1. NoWorker.res # "locked"
      BY DEF NoWorker
    <2>2. UNCHANGED <<h, svc>>
      BY <1>11 DEF WorkerSettles, Dispatch, DispatchOp, DispatchTtl
    <2>3. worker.res # "locked"
      BY <1>11, <2>1 DEF WorkerSettles, Dispatch, DispatchOp, DispatchTtl
    <2>. QED
      BY <1>3, <2>2, <2>3
  <1>12. CASE OpJobReturn \/ TtlReturn
    BY <1>2, <1>12 DEF OpJobReturn, TtlReturn, TtlRetries, TtlEnds
  <1>. QED
    BY <1>4, <1>5, <1>6, <1>7, <1>8, <1>9, <1>10, <1>11, <1>12
    DEF RecoveryStep, LockedRecoveryStep, JobRuns

LEMMA SweepsRoles ==
  ASSUME Inv, Roles, BootStep \/ ShutdownStep
  PROVE  Roles'
  <1>1. h \in FrameType
    BY DEF Inv, Core, FrameInv
  <1>2. CASE h' = Idle \/ h' = SweepFrame("boot", "boot")
               \/ h' = SweepFrame("shutdown", "shutdown")
    BY <1>1, <1>2, FrameShapes, RestsRoles
  <1>3. ASSUME NEW by \in {"boot", "shutdown"}, NEW s, BeginStop(by, s)
        PROVE  Roles'
    <2>1. PICK op : h' = Frame(by, "stop.native", op)
      BY <1>3 DEF BeginStop
    <2>. QED
      BY <1>1, <2>1, FrameShapes, BeginsRoles
  <1>4. ASSUME NEW by \in {"boot", "shutdown"}, NEW op, BeginReconcile(by, op)
        PROVE  Roles'
    BY <1>1, <1>4, FrameShapes, BeginsRoles DEF BeginReconcile
  <1>5. CASE UNCHANGED <<h, worker, svc>>
    BY <1>5, SameFrameRoles
  <1>6. CASE BootStep
    BY <1>2, <1>3, <1>4, <1>5, <1>6
    DEF BootStep, Recover, RecoverIntent, RecoverOverdue, RecoverReturn, RecoverEnds,
        RecoverAborts, ProcessEnds
  <1>7. CASE ShutdownStep
    BY <1>2, <1>3, <1>4, <1>5, <1>7
    DEF ShutdownStep, ShutdownLock, ShutdownSandbox, ShutdownReconciled, ShutdownReturn,
        ShutdownEnds, ProcessEnds
  <1>. QED
    BY <1>6, <1>7

LEMMA WorldRoles ==
  ASSUME Inv, Roles,
         \/ Environment \/ UNCHANGED vars
         \/ \E s \in Sandboxes : ServiceStep(s) \/ Request(s)
  PROVE  Roles'
  <1>1. h \in FrameType /\ FrameInv /\ svc \in [Sandboxes -> SvcType]
    BY DEF Inv, Core, FrameInv, Memory
  <1>2. CASE UNCHANGED <<h, svc>> /\ (UNCHANGED worker \/ worker.res # "locked")
    BY <1>2, SameFrameRoles
  <1>3. CASE h' = Idle
    BY <1>1, <1>3, FrameShapes, RestsRoles
  <1>4. CASE Tick
    <2>1. /\ h'.by = h.by /\ h'.pc = h.pc /\ h'.s = h.s /\ h'.kind = h.kind
          /\ h'.id = h.id /\ UNCHANGED <<worker, svc>>
      BY <1>1, <1>4 DEF Tick, FrameType
    <2>. QED
      BY <2>1 DEF Roles
  <1>5. CASE Environment
    BY <1>2, <1>3, <1>4, <1>5
    DEF Environment, Crash, ProcessEnds, ShutdownQueue, WorkerTimesOut, TimerFires,
        ContainerExits, ContainerVanishes, memVars
  <1>6. ASSUME NEW s \in Sandboxes, ServiceStep(s)
        PROVE  Roles'
    <2>1. CASE Rollback(s)
      <3>1. PICK op \in Begun(s, "delete", NewOp, NoDeadline) :
              h' = Frame("rollback", "remove.native", op)
        BY <2>1 DEF Rollback, BeginRemove
      <3>2. op.kind = "delete"
        BY <2>1, <3>1, BegunTyped, NewOpFresh, Datable
        DEF Rollback, Inv, Core, Kinds
      <3>3. Begins("rollback", "remove.native", op)
        BY <1>1, <3>1, FrameShapes
      <3>. QED
        BY <3>2, <3>3 DEF Roles, Begins, CreateSteps, TtlSteps, RemoveSteps
    <2>2. CASE Adopt(s) \/ AdoptFails(s) \/ PortsRejected(s) \/ Acknowledge(s)
               \/ RollbackRefused(s)
      <3>1. /\ UNCHANGED <<h, worker>>
            /\ \A t \in Sandboxes : svc[t] = "creating" => svc'[t] = "creating"
        BY <1>1, <2>2
        DEF Adopt, AdoptFails, PortsRejected, Acknowledge, RollbackRefused, memVars
      <3>. QED
        BY <3>1, SameFrameRoles
    <2>. QED
      BY <1>6, <2>1, <2>2 DEF ServiceStep
  <1>7. ASSUME NEW s \in Sandboxes, Request(s)
        PROVE  Roles'
    <2>1. ASSUME NEW ttl \in 1 .. MaxTtl, CreateBegin(s, ttl)
          PROVE  Roles'
      <3>1. h'.by = "create" /\ h'.pc = "create.native" /\ h'.s = s /\ svc'[s] = "creating"
        BY <1>1, <2>1 DEF CreateBegin, Frame
      <3>. QED
        BY <3>1 DEF Roles, CreateSteps, TtlSteps
    <2>2. CASE StartBegin(s) \/ RestartBegin(s) \/ StopBegin(s) \/ RemoveBegin(s)
      <3>1. \E pc \in {"run.native", "stop.native", "remove.native"} :
              \E op : h' = Frame("api", pc, op)
        BY <2>2
        DEF StartBegin, RestartBegin, StopBegin, RemoveBegin, BeginStop, BeginRemove
      <3>. QED
        BY <1>1, <3>1, FrameShapes, BeginsRoles
    <2>. QED
      BY <1>2, <1>7, <2>1, <2>2 DEF Request, Pause, Resume, RenewExpiration, memVars
  <1>. QED
    BY <1>2, <1>5, <1>6, <1>7 DEF vars, memVars

LEMMA RolesStep ==
  ASSUME Inv, Roles, [Next]_vars
  PROVE  Roles'
  BY HandlerRoles, RecoveryRoles, SweepsRoles, WorldRoles DEF Next

-----------------------------------------------------------------------------
(* Where an intent comes from.                                             *)

BeginningSteps == {"create.native", "run.native", "stop.native", "remove.native"}

\* Intent o was pending before, or the frame has just begun or resumed it.
KnownIntent(o) == \E p \in ops : p.id = o.id /\ p.s = o.s /\ p.kind = o.kind
BegunIntent(o) ==
  /\ h.pc \notin BeginningSteps \cup {"retry", "ret"}
  /\ h'.pc \in BeginningSteps /\ h'.id = o.id /\ h'.s = o.s
  /\ o.id \notin UsedOps \/ \E p \in ops : p.id = o.id

LEMMA BegunKnown ==
  ASSUME Inv, HasFreshOp, NEW s \in Sandboxes, NEW kind \in Kinds, NEW dl \in Deadlines,
         NEW by, NEW pc \in BeginningSteps, NEW op \in Begun(s, kind, NewOp, dl),
         BeginOperation(op), h' = Frame(by, pc, op),
         h.pc \notin BeginningSteps \cup {"retry", "ret"},
         NEW o \in ops'
  PROVE  KnownIntent(o) \/ BegunIntent(o)
  <1>1. o = op \/ o \in ops
    BY DEF BeginOperation
  <1>2. CASE o \in ops
    BY <1>2 DEF KnownIntent
  <1>3. CASE o = op
    <2>1. Begins(by, pc, op)
      BY FrameShapes DEF Inv, Core, FrameInv
    <2>2. op.id = NewOp \/ \E p \in ops : p.id = op.id
      <3>1. CASE Pending(s) = {}
        BY <3>1 DEF Begun
      <3>2. CASE Pending(s) # {}
        <4>1. PICK p \in Pending(s) : op = [p EXCEPT !.kind = kind, !.native = TRUE]
          BY <3>2 DEF Begun
        <4>2. p \in ops /\ p \in Operations
          BY <4>1 DEF Pending, Inv, Core, DbInv, DbTypeOK
        <4>. QED
          BY <4>1, <4>2 DEF Operations
      <3>. QED
        BY <3>1, <3>2
    <2>3. NewOp \notin UsedOps
      BY DEF HasFreshOp, FreshOps, NewOp
    <2>. QED
      BY <1>3, <2>1, <2>2, <2>3 DEF BegunIntent, Begins
  <1>. QED
    BY <1>1, <1>2, <1>3

LEMMA StopKnown ==
  ASSUME Inv, HasFreshOp, NEW s \in Sandboxes, NEW by, BeginStop(by, s),
         h.pc \notin BeginningSteps \cup {"retry", "ret"}, NEW o \in ops'
  PROVE  KnownIntent(o) \/ BegunIntent(o)
  BY BegunKnown, Datable DEF BeginStop, Kinds, BeginningSteps

LEMMA IntentOrigin ==
  ASSUME Inv, [Next]_vars, NEW o \in ops'
  PROVE  KnownIntent(o) \/ BegunIntent(o)
  <1>1. /\ ops \subseteq Operations /\ FrameInv /\ h \in FrameType
    BY DEF Inv, Core, FrameInv, DbInv, DbTypeOK
  <1>2. CASE ops' \subseteq ops
    BY <1>2 DEF KnownIntent
  <1>3. CASE HandlerStep
    <2>1. CASE CreateBind /\ BindCreation(h.id)
      BY <1>1, <2>1 DEF BindCreation, KnownIntent, Operations
    <2>. QED
      BY <1>2, <1>3, <2>1
      DEF HandlerStep, CreateNative, CreateBind, CreateStart, CreateCommit, CreateUndo,
          CreateForget, CreateOwn, RunNative, RunComplete, StopNative, StopComplete,
          RemoveNative, RemoveDelete, RetryOperation, ApiReturn, CreateReturn,
          RollbackReturn, dbVars, DbFails, CommitCreation, CreateOwnership,
          CompleteOperation, DeleteOperation
  <1>4. CASE RecoveryStep \/ Dispatch
    <2>1. CASE TtlStop
      <3>1. h.s \in Sandboxes /\ h.pc \notin BeginningSteps \cup {"retry", "ret"}
        BY <1>1, <2>1 DEF TtlStop, FrameInv, TtlSteps, BeginningSteps
      <3>. QED
        BY <1>2, <2>1, <3>1, StopKnown DEF TtlStop, dbVars
    <2>. QED
      BY <1>2, <1>4, <2>1
      DEF RecoveryStep, LockedRecoveryStep, JobRuns, WorkerSettles, OpJobRuns,
          TtlJobRuns, OpJobReturn, TtlCheck, TtlReconciled, TtlReturn,
          ReconcileNative, ReconcileCommit, Dispatch, DispatchOp, DispatchTtl, dbVars,
          DbFails, CompleteOperation, DeleteOperation
  <1>5. CASE BootStep \/ ShutdownStep
    <2>1. ASSUME NEW s \in Sandboxes, RecoverOverdue(s) \/ ShutdownSandbox(s)
          PROVE  KnownIntent(o) \/ BegunIntent(o)
      BY <1>2, <2>1, StopKnown
      DEF RecoverOverdue, ShutdownSandbox, dbVars, BeginningSteps
    <2>2. CASE ShutdownReconciled
      <3>1. h.s \in Sandboxes /\ h.pc \notin BeginningSteps \cup {"retry", "ret"}
        BY <1>1, <2>2 DEF ShutdownReconciled, FrameInv, ReturnSteps, BeginningSteps
      <3>. QED
        BY <1>2, <2>2, <3>1, StopKnown DEF ShutdownReconciled, dbVars
    <2>. QED
      BY <1>2, <1>5, <2>1, <2>2
      DEF BootStep, ShutdownStep, Recover, RecoverIntent, RecoverReturn, RecoverEnds,
          RecoverAborts, ShutdownLock, ShutdownReturn, ShutdownEnds, ProcessEnds, dbVars
  <1>6. CASE Environment
    <2>1. CASE Tick
      BY <1>1, <2>1 DEF Tick, KnownIntent, Operations
    <2>. QED
      BY <1>2, <1>6, <2>1
      DEF Environment, Crash, ProcessEnds, ShutdownQueue, WorkerTimesOut, TimerFires,
          ContainerExits, ContainerVanishes, dbVars
  <1>7. ASSUME NEW s \in Sandboxes, ServiceStep(s)
        PROVE  KnownIntent(o) \/ BegunIntent(o)
    <2>1. CASE Rollback(s)
      BY <2>1, BegunKnown, Datable
      DEF Rollback, BeginRemove, CanLock, Kinds, BeginningSteps
    <2>. QED
      BY <1>2, <1>7, <2>1
      DEF ServiceStep, Adopt, AdoptProvenance, AdoptFails, PortsRejected, Acknowledge,
          RollbackRefused, dbVars
  <1>8. ASSUME NEW s \in Sandboxes, Request(s)
        PROVE  KnownIntent(o) \/ BegunIntent(o)
    <2>1. ASSUME NEW ttl \in 1 .. MaxTtl, CreateBegin(s, ttl)
          PROVE  KnownIntent(o) \/ BegunIntent(o)
      <3> DEFINE new == [id |-> NewOp, kind |-> "create", s |-> s, native |-> FALSE,
                         dl |-> ttl]
      <3>1. o \in ops \/ o = new
        BY <2>1 DEF CreateBegin, BeginCreate
      <3>2. h'.pc = "create.native" /\ h'.id = NewOp /\ h'.s = s /\ h.pc = "idle"
        BY <2>1 DEF CreateBegin, Frame, CanLock
      <3>3. NewOp \notin UsedOps
        BY <2>1 DEF CreateBegin, HasFreshOp, FreshOps, NewOp
      <3>4. o = new => BegunIntent(o)
        BY <3>2, <3>3 DEF BegunIntent, BeginningSteps
      <3>. QED
        BY <3>1, <3>4 DEF KnownIntent
    <2>2. CASE StartBegin(s) \/ RestartBegin(s) \/ StopBegin(s) \/ RemoveBegin(s)
      <3>1. h.pc \notin BeginningSteps \cup {"retry", "ret"}
        BY <2>2 DEF StartBegin, RestartBegin, StopBegin, RemoveBegin, CanLock, BeginningSteps
      <3>2. {"start", "restart", "delete"} \subseteq Kinds
            /\ {"run.native", "remove.native"} \subseteq BeginningSteps
        BY DEF Kinds, BeginningSteps
      <3>. QED
        BY <2>2, <3>1, <3>2, BegunKnown, StopKnown, Datable
        DEF StartBegin, RestartBegin, StopBegin, RemoveBegin, BeginRemove
    <2>. QED
      BY <1>2, <1>8, <2>1, <2>2
      DEF Request, Pause, Resume, RenewExpiration, SetDeadline, dbVars
  <1>9. CASE UNCHANGED vars
    BY <1>2, <1>9 DEF vars, dbVars
  <1>. QED
    BY <1>3, <1>4, <1>5, <1>6, <1>7, <1>8, <1>9 DEF Next

-----------------------------------------------------------------------------
(* What is finished is retired.                                            *)

LEMMA FinishedKept ==
  ASSUME Inv, Retired, [Next]_vars, Finished, Finished', h'.s = h.s, h'.id = h.id
  PROVE  \A o \in ops' : o.s # h'.s /\ o.id # h'.id
  <1> SUFFICES ASSUME NEW o \in ops' PROVE o.s # h'.s /\ o.id # h'.id
    OBVIOUS
  <1>1. KnownIntent(o)
    BY IntentOrigin DEF BegunIntent, Finished, BeginningSteps
  <1>. QED
    BY <1>1 DEF KnownIntent, Retired

\* The steps that end in success: the intent of the frame has just gone.
LEMMA FinishedNow ==
  ASSUME Inv, h.pc \in IntentSteps, ops' = {o \in ops : o.id # h.id},
         h'.s = h.s, h'.id = h.id
  PROVE  \A o \in ops' : o.s # h'.s /\ o.id # h'.id
  BY DEF Inv, Core, FrameInv, HasIntent, DbInv, OneIntent

\* No other step ends in success.
NotFinished == Finished' => \A o \in ops' : o.s # h'.s /\ o.id # h'.id

LEMMA ContinuesUnfinished ==
  ASSUME NEW pc, NEW res, Continues(pc, res),
         \/ res \notin {"ok"}
         \/ pc \notin {"retry", "ret", "reconcile.ret"}
         \/ pc \in {"retry", "ret"} /\ h.kind # "delete"
  PROVE  NotFinished
  BY DEF NotFinished, Finished, Continues

LEMMA NativeUnfinished ==
  ASSUME h \in FrameType, h.s \in Sandboxes, ctr \in [Sandboxes -> CtrType],
         NEW eff, NEW okPc, NEW errPc, NativeCall(eff, okPc, errPc),
         okPc \notin {"retry", "ret", "reconcile.ret"}
  PROVE  NotFinished
  BY NativeCallShape, ContinuesUnfinished

LEMMA HandlerFinished ==
  ASSUME Inv, Retired, [Next]_vars, HandlerStep
  PROVE  NotFinished
  <1>1. /\ h \in FrameType /\ FrameInv /\ ctr \in [Sandboxes -> CtrType]
        /\ (h.pc \in IntentSteps => h.s \in Sandboxes)
    BY DEF Inv, Core, FrameInv
  <1>2. CASE \/ CreateNative \/ CreateStart \/ CreateUndo \/ RunNative \/ StopNative
             \/ RemoveNative
    <2>1. h.s \in Sandboxes /\ (h.pc = "run.native" => h.kind # "delete")
      BY <1>1, <1>2
      DEF CreateNative, CreateStart, CreateUndo, RunNative, StopNative, RemoveNative,
          FrameInv, IntentSteps, CreateSteps, RunSteps, StopSteps, RemoveSteps
    <2>2. HalfRestart => NotFinished
      BY <1>1 DEF HalfRestart, NotFinished, Finished, FrameType
    <2>3. \A pc : Goto(pc) => Continues(pc, h.res)
      BY <1>1, FrameShapes
    <2>. QED
      BY <1>1, <1>2, <2>1, <2>2, <2>3, NativeUnfinished, ContinuesUnfinished
      DEF CreateNative, CreateStart, CreateUndo, RunNative, StopNative, RemoveNative
  <1>3. CASE CreateBind \/ CreateCommit \/ CreateForget \/ CreateOwn
    <2>1. h.kind # "delete"
      BY <1>1, <1>3 DEF CreateBind, CreateCommit, CreateForget, CreateOwn, FrameInv, CreateSteps
    <2>2. h' = Idle => NotFinished
      BY DEF Idle, NotFinished, Finished
    <2>. QED
      BY <1>1, <1>3, <2>1, <2>2, FrameShapes, ContinuesUnfinished
      DEF CreateBind, CreateCommit, CreateForget, CreateOwn
  <1>4. CASE RunComplete \/ StopComplete
    <2>1. h.kind # "delete"
      BY <1>1, <1>4 DEF RunComplete, StopComplete, FrameInv, RunSteps, StopSteps
    <2>. QED
      BY <1>1, <1>4, <2>1, FrameShapes, ContinuesUnfinished DEF RunComplete, StopComplete
  <1>5. CASE RemoveDelete
    <2>1. CASE DeleteOperation(h.s, h.id) /\ Goto("retry")
      <3>1. h.pc \in IntentSteps /\ ops' = {o \in ops : o.id # h.id}
        BY <1>5, <2>1 DEF RemoveDelete, IntentSteps, RemoveSteps, DeleteOperation
      <3>2. h'.s = h.s /\ h'.id = h.id
        BY <1>1, <2>1, FrameShapes DEF Continues
      <3>. QED
        BY <3>1, <3>2, FinishedNow DEF NotFinished
    <2>. QED
      BY <1>1, <1>5, <2>1, FrameShapes, ContinuesUnfinished DEF RemoveDelete
  <1>6. CASE RetryOperation
    <2>1. Continues("ret", h.res) /\ h.pc = "retry"
      BY <1>1, <1>6, FrameShapes DEF RetryOperation
    <2>. QED
      BY <2>1, FinishedKept DEF NotFinished, Finished, Continues
  <1>7. CASE ApiReturn \/ CreateReturn \/ RollbackReturn
    BY <1>7 DEF ApiReturn, CreateReturn, RollbackReturn, Idle, NotFinished, Finished
  <1>. QED
    BY <1>2, <1>3, <1>4, <1>5, <1>6, <1>7 DEF HandlerStep

LEMMA LockedRecoveryFinished ==
  ASSUME Inv, Retired, [Next]_vars, ReconcileNative \/ ReconcileCommit
  PROVE  NotFinished
  <1>1. /\ h \in FrameType /\ FrameInv /\ ctr \in [Sandboxes -> CtrType]
        /\ h.pc \in IntentSteps /\ h.s \in Sandboxes
    BY DEF Inv, Core, FrameInv, ReconcileNative, ReconcileCommit, IntentSteps,
           ReconcileSteps
  <1>2. CASE ReconcileNative
    <2>1. ASSUME h' = [h EXCEPT !.pc = "reconcile.commit", !.saw = ctr[h.s] \in Live]
          PROVE  NotFinished
      BY <1>1, <2>1 DEF NotFinished, Finished, FrameType
    <2>2. ASSUME h' = [h EXCEPT !.pc = "reconcile.ret", !.res = "err"]
          PROVE  NotFinished
      BY <1>1, <2>2 DEF NotFinished, Finished, FrameType
    <2>. QED
      BY <1>1, <1>2, <2>1, <2>2, FrameShapes, NativeUnfinished, ContinuesUnfinished
      DEF ReconcileNative
  <1>3. CASE ReconcileCommit
    <2>1. DbFails("reconcile.ret") => NotFinished
      BY <1>1, FrameShapes, ContinuesUnfinished
    <2>2. CASE ops' = {o \in ops : o.id # h.id} /\ Goto("reconcile.ret")
      BY <1>1, <2>2, FrameShapes, FinishedNow DEF Continues, NotFinished
    <2>. QED
      BY <1>3, <2>1, <2>2 DEF ReconcileCommit, DeleteOperation, CompleteOperation
  <1>. QED
    BY <1>2, <1>3

\* Whatever else moves the frame moves it to a step of its own, or not at all.
LEMMA FinishedStep ==
  ASSUME Inv, Roles, Retired, [Next]_vars
  PROVE  NotFinished
  <1>1. h \in FrameType
    BY DEF Inv, Core, FrameInv
  <1>2. CASE UNCHANGED h
    BY <1>2, FinishedKept DEF NotFinished, Finished
  <1>3. ASSUME h'.pc \notin {"retry", "ret", "reconcile.ret"} PROVE NotFinished
    BY <1>3 DEF NotFinished, Finished
  <1>4. \A by, pc, op : h' = Frame(by, pc, op) => h'.pc = pc
    BY DEF Frame
  <1>5. h' = Idle \/ h' = SweepFrame("boot", "boot")
                  \/ h' = SweepFrame("shutdown", "shutdown")
          => h'.pc \in {"idle", "boot", "shutdown"}
    BY <1>1, FrameShapes DEF Rests
  <1>6. CASE RecoveryStep \/ Dispatch
    <2>1. h' = [Idle EXCEPT !.by = "ttl", !.pc = "ttl.check", !.s = worker.s]
            => h'.pc = "ttl.check"
      BY DEF Idle
    <2>2. Goto("ttl.stop") => h'.pc = "ttl.stop"
      BY <1>1, FrameShapes DEF Continues
    <2>3. CASE OpJobRuns \/ TtlJobRuns
      BY <1>2, <1>3, <1>4, <2>1, <2>3 DEF OpJobRuns, TtlJobRuns, BeginReconcile
    <2>4. CASE TtlCheck \/ TtlReconciled \/ TtlStop \/ TtlReturn
      BY <1>2, <1>3, <1>4, <1>5, <2>2, <2>4
      DEF TtlCheck, TtlReconciled, TtlStop, TtlReturn, TtlEnds, TtlRetries, BeginStop,
          BeginReconcile
    <2>5. CASE WorkerSettles \/ OpJobReturn \/ Dispatch
      BY <1>2, <1>3, <1>5, <2>5
      DEF WorkerSettles, OpJobReturn, Dispatch, DispatchOp, DispatchTtl
    <2>. QED
      BY <1>6, <2>3, <2>4, <2>5, LockedRecoveryFinished
      DEF RecoveryStep, LockedRecoveryStep, JobRuns
  <1>7. CASE BootStep \/ ShutdownStep
    BY <1>2, <1>3, <1>4, <1>5, <1>7
    DEF BootStep, Recover, RecoverIntent, RecoverOverdue, RecoverReturn, RecoverEnds,
        RecoverAborts, ShutdownStep, ShutdownLock, ShutdownSandbox, ShutdownReconciled,
        ShutdownReturn, ShutdownEnds, ProcessEnds, BeginStop, BeginReconcile
  <1>8. CASE Environment
    <2>1. CASE Tick
      <3>1. h'.pc = h.pc /\ h'.s = h.s /\ h'.id = h.id /\ h'.kind = h.kind /\ h'.res = h.res
        BY <1>1, <2>1 DEF Tick, FrameType
      <3>. QED
        BY <3>1, FinishedKept DEF NotFinished, Finished
    <2>. QED
      BY <1>2, <1>3, <1>5, <1>8, <2>1
      DEF Environment, Crash, ProcessEnds, ShutdownQueue, WorkerTimesOut, TimerFires,
          ContainerExits, ContainerVanishes
  <1>9. CASE \E s \in Sandboxes : ServiceStep(s) \/ Request(s)
    <2>1. ASSUME NEW s \in Sandboxes, ServiceStep(s) PROVE NotFinished
      BY <1>2, <1>3, <1>4, <2>1
      DEF ServiceStep, Adopt, AdoptFails, PortsRejected, Acknowledge, Rollback,
          RollbackRefused, BeginRemove
    <2>2. ASSUME NEW s \in Sandboxes, Request(s) PROVE NotFinished
      BY <1>2, <1>3, <1>4, <2>2
      DEF Request, CreateBegin, StartBegin, RestartBegin, StopBegin, RemoveBegin,
          Pause, Resume, RenewExpiration, BeginStop, BeginRemove
    <2>. QED
      BY <1>9, <2>1, <2>2
  <1>. QED
    BY <1>2, <1>6, <1>7, <1>8, <1>9, HandlerFinished DEF Next, vars

\* An operation ID that the queue still names is not given out again.
LEMMA WorkerIdKept ==
  ASSUME Inv, [Next]_vars, FindOperation(worker.id) = {}
  PROVE  FindOperation(worker.id)' = {} \/ worker'.id # worker.id
  <1> SUFFICES ASSUME NEW o \in ops', o.id = worker.id PROVE FALSE
    BY DEF FindOperation
  <1>1. worker.id \in UsedOps
    BY DEF UsedOps
  <1>. QED
    BY <1>1, IntentOrigin DEF KnownIntent, BegunIntent, FindOperation

LEMMA RetiredStep ==
  ASSUME Inv, Roles, Retired, [Next]_vars
  PROVE  Retired'
  <1>1. /\ h \in FrameType /\ worker \in WorkerType /\ ops \subseteq Operations
    BY DEF Inv, Core, FrameInv, Memory, QueueInv, DbInv, DbTypeOK
  <1> DEFINE Kept == /\ worker'.job # "op" => worker'.id = 0
                     /\ worker'.res = "ok" => FindOperation(worker.id)' = {}
  <1>2. ASSUME UNCHANGED worker PROVE Kept
    BY <1>2, WorkerIdKept DEF Retired, FindOperation
  <1>3. ASSUME NEW res \in {"run", "locked", "err"}, WorkerEnds(res) PROVE Kept
    BY <1>1, <1>3 DEF WorkerEnds, WorkerType, Retired
  <1>4. ASSUME WorkerEnds("ok"), FindOperation(worker.id) = {} PROVE Kept
    <2>1. worker'.id = worker.id /\ worker'.job = worker.job
      BY <1>1, <1>4 DEF WorkerEnds, WorkerType
    <2>. QED
      BY <1>4, <2>1, WorkerIdKept DEF Retired, FindOperation
  <1>5. ASSUME worker' = NoWorker PROVE Kept
    BY <1>5 DEF NoWorker
  <1>6. ASSUME worker.job = "ttl" PROVE FindOperation(worker.id) = {}
    BY <1>1, <1>6 DEF Retired, FindOperation, Operations, OpIds
  <1>7. h.by = "ttl" => worker.job = "ttl"
    BY DEF Roles
  <1> HIDE DEF Kept
  <1>8. ASSUME RecoveryStep \/ Dispatch PROVE Kept
    <2>1. ASSUME OpJobReturn PROVE Kept
      <3>1. h.res = "ok" => FindOperation(worker.id) = {}
        BY <2>1 DEF OpJobReturn, Retired, Finished, Roles, FindOperation
      <3>. QED
        BY <1>3, <1>4, <2>1, <3>1 DEF OpJobReturn
    <2>2. ASSUME NEW id \in OpIds, DispatchOp(id) PROVE Kept
      BY <2>2 DEF DispatchOp, NoWorker, Kept
    <2>3. ASSUME NEW s \in Sandboxes, NEW e \in Entries, DispatchTtl(s, e) PROVE Kept
      BY <2>3 DEF DispatchTtl, NoWorker, Kept
    <2>4. ASSUME OpJobRuns \/ TtlJobRuns PROVE Kept
      BY <1>3, <1>4, <1>6, <2>4 DEF OpJobRuns, TtlJobRuns
    <2>5. ASSUME TtlCheck \/ TtlReconciled \/ TtlStop \/ TtlReturn PROVE Kept
      <3>1. h.by = "ttl"
        BY <2>5 DEF TtlCheck, TtlReconciled, TtlStop, TtlReturn, Roles, TtlSteps
      <3>2. TtlEnds => Kept
        BY <1>4, <1>6, <1>7, <3>1 DEF TtlEnds
      <3>. QED
        BY <1>2, <2>5, <3>2
        DEF TtlCheck, TtlReconciled, TtlStop, TtlReturn, TtlRetries, Kept
    <2>6. ASSUME ReconcileNative \/ ReconcileCommit PROVE Kept
      BY <1>2, <2>6 DEF ReconcileNative, ReconcileCommit, memVars, Kept
    <2>. QED
      BY <1>5, <1>8, <2>1, <2>2, <2>3, <2>4, <2>5, <2>6
      DEF RecoveryStep, LockedRecoveryStep, JobRuns, WorkerSettles, Dispatch
  <1>9. ASSUME HandlerStep PROVE Kept
    BY <1>2, <1>9
    DEF HandlerStep, CreateNative, CreateBind, CreateStart, CreateCommit,
        CreateUndo, CreateForget, CreateOwn, RunNative, RunComplete, StopNative,
        StopComplete, RemoveNative, RemoveDelete, RetryOperation, ApiReturn,
        CreateReturn, RollbackReturn, memVars, Kept
  <1>10. ASSUME BootStep \/ ShutdownStep PROVE Kept
    BY <1>2, <1>5, <1>10
    DEF BootStep, Recover, RecoverReturn, RecoverEnds, RecoverAborts, RecoverIntent,
        RecoverOverdue, ShutdownStep, ShutdownLock, ShutdownSandbox,
        ShutdownReconciled, ShutdownReturn, ShutdownEnds, ProcessEnds, memVars, Kept
  <1>11. ASSUME Environment PROVE Kept
    BY <1>2, <1>3, <1>5, <1>11
    DEF Environment, Tick, Crash, ShutdownQueue, WorkerTimesOut, TimerFires,
        ContainerExits, ContainerVanishes, ProcessEnds, memVars, Kept
  <1>12. ASSUME (\E s \in Sandboxes : ServiceStep(s) \/ Request(s)) \/ UNCHANGED vars
         PROVE  Kept
    BY <1>2, <1>12
    DEF ServiceStep, Adopt, AdoptFails, PortsRejected, Acknowledge, Rollback,
        RollbackRefused, Request, CreateBegin, StartBegin, RestartBegin, StopBegin,
        RemoveBegin, Pause, Resume, RenewExpiration, vars, memVars, Kept
  <1>13. Kept
    BY <1>8, <1>9, <1>10, <1>11, <1>12 DEF Next
  <1>. QED
    BY <1>13, FinishedStep DEF Kept, Retired, NotFinished

-----------------------------------------------------------------------------
(* Every intent is driven.                                                 *)

LEMMA SweepingStep ==
  ASSUME Inv, Sweeping, [Next]_vars
  PROVE  Sweeping'
  <1>1. h \in FrameType /\ ctr \in [Sandboxes -> CtrType] /\ FrameInv
    BY DEF Inv, Core, FrameInv
  <1>2. ASSUME UNCHANGED <<h, up>> PROVE Sweeping'
    BY <1>2 DEF Sweeping
  <1>3. ASSUME NEW pc, NEW res, Continues(pc, res), pc \notin {"boot", "shutdown"},
               UNCHANGED up
        PROVE  Sweeping'
    BY <1>3 DEF Sweeping, Continues
  <1>4. ASSUME \/ h' = Idle
               \/ h' = SweepFrame("shutdown", "shutdown") /\ up' = "closing"
        PROVE  Sweeping'
    <2>1. CASE h' = Idle
      BY <2>1 DEF Sweeping, Idle
    <2>2. CASE h' = SweepFrame("shutdown", "shutdown") /\ up' = "closing"
      BY <2>2 DEF Sweeping, Idle, SweepFrame
    <2>. QED
      BY <1>4, <2>1, <2>2
  <1>5. ASSUME NEW by \in Callers, NEW pc, NEW op, h' = Frame(by, pc, op),
               pc \notin {"boot", "shutdown"}, by = "boot" => up' = "boot",
               by = "shutdown" => up' = "closing"
        PROVE  Sweeping'
    BY <1>5 DEF Sweeping, Frame
  <1>6. ASSUME h' = SweepFrame("boot", "boot"), up' = "boot" PROVE Sweeping'
    BY <1>6 DEF Sweeping, SweepFrame, Idle
  <1>7. {"create", "api", "rollback", "job", "ttl", "boot", "shutdown"} \subseteq Callers
    BY DEF Callers
  <1>8. CASE HandlerStep
    <2>1. CASE \/ CreateNative \/ CreateStart \/ CreateUndo \/ RunNative \/ StopNative
               \/ RemoveNative
      <3>1. h.s \in Sandboxes /\ UNCHANGED up
        BY <1>1, <2>1
        DEF CreateNative, CreateStart, CreateUndo, RunNative, StopNative, RemoveNative,
            FrameInv, IntentSteps, CreateSteps, RunSteps, StopSteps, RemoveSteps
      <3>2. HalfRestart => Continues("retry", "err")
        BY <1>1 DEF HalfRestart, Continues, FrameType
      <3>. QED
        BY <1>1, <1>3, <2>1, <3>1, <3>2, FrameShapes, NativeCallShape
        DEF CreateNative, CreateStart, CreateUndo, RunNative, StopNative, RemoveNative
    <2>2. CASE \/ CreateBind \/ CreateCommit \/ CreateForget \/ CreateOwn \/ RunComplete
               \/ StopComplete \/ RemoveDelete \/ RetryOperation
      BY <1>1, <1>3, <1>4, <2>2, FrameShapes
      DEF CreateBind, CreateCommit, CreateForget, CreateOwn, RunComplete, StopComplete,
          RemoveDelete, RetryOperation
    <2>. QED
      BY <1>4, <1>8, <2>1, <2>2 DEF HandlerStep, ApiReturn, CreateReturn, RollbackReturn
  <1>9. CASE RecoveryStep \/ Dispatch
    <2>1. CASE ReconcileNative
      <3>1. h.s \in Sandboxes /\ UNCHANGED up
        BY <1>1, <2>1 DEF ReconcileNative, FrameInv, IntentSteps, ReconcileSteps
      <3>2. h' = [h EXCEPT !.pc = "reconcile.commit", !.saw = ctr[h.s] \in Live]
              => h'.pc \notin {"boot", "shutdown"} /\ h'.by = h.by
        BY <1>1 DEF FrameType
      <3>3. h' = [h EXCEPT !.pc = "reconcile.ret", !.res = "err"]
              => h'.pc \notin {"boot", "shutdown"} /\ h'.by = h.by
        BY <1>1 DEF FrameType
      <3>4. ASSUME h'.pc \notin {"boot", "shutdown"}, h'.by = h.by PROVE Sweeping'
        BY <3>1, <3>4 DEF Sweeping
      <3>. QED
        BY <1>1, <1>3, <2>1, <3>1, <3>2, <3>3, <3>4, FrameShapes, NativeCallShape
        DEF ReconcileNative
    <2>2. h' = [Idle EXCEPT !.by = "ttl", !.pc = "ttl.check", !.s = worker.s] => Sweeping'
      BY DEF Sweeping, Idle
    <2>3. CASE OpJobRuns \/ TtlJobRuns
      BY <1>2, <1>5, <1>7, <2>2, <2>3 DEF OpJobRuns, TtlJobRuns, BeginReconcile
    <2>4. CASE TtlCheck \/ TtlReconciled \/ TtlStop \/ TtlReturn \/ ReconcileCommit
      <3>1. UNCHANGED up
        BY <2>4 DEF TtlCheck, TtlReconciled, TtlStop, TtlReturn, ReconcileCommit
      <3>2. TtlEnds => Sweeping'
        BY <1>4 DEF TtlEnds
      <3>3. \A pc \in {"ttl.stop", "reconcile.ret"} : Goto(pc) => Sweeping'
        BY <1>1, <1>3, <3>1, FrameShapes
      <3>4. DbFails("reconcile.ret") => Sweeping'
        BY <1>1, <1>3, <3>1, FrameShapes
      <3>5. \A pc \in {"reconcile.native", "stop.native"} : \A op :
              h' = Frame("ttl", pc, op) => Sweeping'
        BY <1>5, <1>7
      <3>. QED
        BY <2>4, <3>2, <3>3, <3>4, <3>5
        DEF TtlCheck, TtlReconciled, TtlStop, TtlReturn, TtlRetries, ReconcileCommit,
            BeginReconcile, BeginStop
    <2>. QED
      BY <1>2, <1>4, <1>9, <2>1, <2>3, <2>4
      DEF RecoveryStep, LockedRecoveryStep, JobRuns, WorkerSettles, OpJobReturn,
          Dispatch, DispatchOp, DispatchTtl
  <1>10. CASE BootStep \/ ShutdownStep
    BY <1>2, <1>4, <1>5, <1>6, <1>7, <1>10
    DEF BootStep, Recover, RecoverReturn, RecoverEnds, RecoverAborts, RecoverIntent,
        RecoverOverdue, BeginReconcile, BeginStop, ShutdownStep, ShutdownLock,
        ShutdownSandbox, ShutdownReconciled, ShutdownReturn, ShutdownEnds, ProcessEnds,
        memVars, Sweeping
  <1>11. CASE Environment
    <2>1. CASE Tick
      <3>1. h'.pc = h.pc /\ h'.by = h.by /\ up' = up
        BY <1>1, <2>1 DEF Tick, FrameType
      <3>. QED
        BY <3>1 DEF Sweeping
    <2>2. CASE ShutdownQueue
      BY <2>2 DEF ShutdownQueue, Sweeping
    <2>. QED
      BY <1>2, <1>4, <1>11, <2>1, <2>2
      DEF Environment, Crash, WorkerTimesOut, TimerFires, ContainerExits,
          ContainerVanishes, ProcessEnds
  <1>12. CASE (\E s \in Sandboxes : ServiceStep(s) \/ Request(s)) \/ UNCHANGED vars
    <2>1. ASSUME NEW s \in Sandboxes, ServiceStep(s) PROVE Sweeping'
      BY <1>2, <1>5, <1>7, <2>1
      DEF ServiceStep, Adopt, AdoptFails, PortsRejected, Acknowledge, Rollback,
          RollbackRefused, BeginRemove, memVars
    <2>2. ASSUME NEW s \in Sandboxes, Request(s) PROVE Sweeping'
      <3>1. \A pc \in BeginningSteps : \A by \in {"create", "api"} : \A op :
              h' = Frame(by, pc, op) => Sweeping'
        BY <1>5, <1>7 DEF BeginningSteps
      <3>2. ASSUME NEW ttl \in 1 .. MaxTtl, CreateBegin(s, ttl) PROVE Sweeping'
        BY <3>1, <3>2 DEF CreateBegin, BeginningSteps
      <3>3. CASE StartBegin(s) \/ RestartBegin(s) \/ StopBegin(s) \/ RemoveBegin(s)
        BY <3>1, <3>3
        DEF StartBegin, RestartBegin, StopBegin, RemoveBegin, BeginStop, BeginRemove,
            BeginningSteps
      <3>. QED
        BY <1>2, <2>2, <3>2, <3>3 DEF Request, Pause, Resume, RenewExpiration
    <2>. QED
      BY <1>2, <1>12, <2>1, <2>2 DEF vars
  <1>. QED
    BY <1>8, <1>9, <1>10, <1>11, <1>12 DEF Next

\* Only startup opens a server.
LEMMA RecoverOpens ==
  ASSUME Sweeping, [Next]_vars, up \notin OpenUp, up' \in OpenUp
  PROVE  Recover
  <1>1. up' # up /\ ~ProcessEnds /\ h.pc # "boot"
    BY DEF OpenUp, ProcessEnds, Sweeping
  <1>2. ASSUME HandlerStep \/ RecoveryStep \/ Dispatch PROVE UNCHANGED up
    BY <1>2
    DEF HandlerStep, CreateNative, CreateBind, CreateStart, CreateCommit, CreateUndo,
        CreateForget, CreateOwn, RunNative, RunComplete, StopNative, StopComplete,
        RemoveNative, RemoveDelete, RetryOperation, ApiReturn, CreateReturn,
        RollbackReturn, RecoveryStep, LockedRecoveryStep, JobRuns, WorkerSettles,
        OpJobRuns, TtlJobRuns, OpJobReturn, TtlCheck, TtlReconciled, TtlStop, TtlReturn,
        ReconcileNative, ReconcileCommit, Dispatch, DispatchOp, DispatchTtl
  <1>3. ASSUME \E s \in Sandboxes : ServiceStep(s) \/ Request(s) PROVE UNCHANGED up
    BY <1>3
    DEF ServiceStep, Adopt, AdoptFails, PortsRejected, Acknowledge, Rollback,
        RollbackRefused, Request, CreateBegin, StartBegin, RestartBegin, StopBegin,
        RemoveBegin, Pause, Resume, RenewExpiration
  <1>4. CASE BootStep \/ ShutdownStep \/ Environment
    BY <1>1, <1>4
    DEF BootStep, RecoverReturn, RecoverEnds, RecoverAborts, RecoverIntent,
        RecoverOverdue, ShutdownStep, ShutdownLock, ShutdownSandbox, ShutdownReconciled,
        ShutdownReturn, ShutdownEnds, Environment, Tick, Crash, ShutdownQueue,
        WorkerTimesOut, TimerFires, ContainerExits, ContainerVanishes, OpenUp
  <1>. QED
    BY <1>1, <1>2, <1>3, <1>4 DEF Next, vars

LEMMA JobsKept ==
  ASSUME Inv, Retired, [Next]_vars, up \in OpenUp, up' \in OpenUp,
         NEW o \in ops, o.id \in opJobs
  PROVE  o.id \in opJobs'
  <1>1. ASSUME opJobs \subseteq opJobs' PROVE o.id \in opJobs'
    BY <1>1
  <1>2. ASSUME NEW id, QueueOperation(id) PROVE o.id \in opJobs'
    BY <1>2 DEF QueueOperation
  <1>3. ~ProcessEnds /\ ~ShutdownQueue /\ ~Recover
    BY DEF ProcessEnds, ShutdownQueue, Recover, OpenUp
  <1>4. CASE HandlerStep
    BY <1>1, <1>2, <1>4
    DEF HandlerStep, CreateNative, CreateBind, CreateStart, CreateCommit, CreateUndo,
        CreateForget, CreateOwn, RunNative, RunComplete, StopNative, StopComplete,
        RemoveNative, RemoveDelete, RetryOperation, ApiReturn, CreateReturn,
        RollbackReturn, memVars
  <1>5. CASE RecoveryStep \/ Dispatch
    <2>1. CASE WorkerSettles
      BY <2>1 DEF WorkerSettles, Retired, FindOperation
    <2>. QED
      BY <1>1, <1>5, <2>1
      DEF RecoveryStep, LockedRecoveryStep, JobRuns, OpJobRuns, TtlJobRuns, OpJobReturn,
          TtlCheck, TtlReconciled, TtlStop, TtlReturn, ReconcileNative, ReconcileCommit,
          Dispatch, DispatchOp, DispatchTtl, memVars
  <1>6. CASE BootStep \/ ShutdownStep \/ Environment
    BY <1>1, <1>3, <1>6
    DEF BootStep, RecoverReturn, RecoverEnds, RecoverAborts, RecoverIntent,
        RecoverOverdue, ShutdownStep, ShutdownLock, ShutdownSandbox, ShutdownReconciled,
        ShutdownReturn, ShutdownEnds, Environment, Tick, Crash, WorkerTimesOut,
        TimerFires, ContainerExits, ContainerVanishes, memVars
  <1>7. CASE \/ \E s \in Sandboxes : ServiceStep(s) \/ Request(s)
             \/ UNCHANGED vars
    BY <1>1, <1>2, <1>7
    DEF ServiceStep, Adopt, AdoptFails, PortsRejected, Acknowledge, Rollback,
        RollbackRefused, Request, CreateBegin, StartBegin, RestartBegin, StopBegin,
        RemoveBegin, Pause, Resume, RenewExpiration, memVars, vars
  <1>. QED
    BY <1>4, <1>5, <1>6, <1>7 DEF Next

\* Only its own steps move a frame that drives an intent.
LEMMA DrivingFrameMoves ==
  ASSUME [Next]_vars, h.pc \in DrivingSteps, up \in OpenUp, up' \in OpenUp
  PROVE  HandlerStep \/ Tick \/ UNCHANGED h
  <1>1. h.pc \notin {"idle", "boot", "shutdown", "ttl.check", "ttl.stop", "ret",
                   "reconcile.native", "reconcile.commit", "reconcile.ret"}
    BY DEF DrivingSteps, IntentSteps, ReconcileSteps, CreateSteps, RunSteps, StopSteps,
           RemoveSteps
  <1>2. ~ProcessEnds /\ ~Recover
    BY DEF ProcessEnds, OpenUp, Recover
  <1>3. CASE RecoveryStep \/ Dispatch
    BY <1>1, <1>3
    DEF RecoveryStep, LockedRecoveryStep, JobRuns, OpJobRuns, TtlJobRuns, OpJobReturn,
        TtlCheck, TtlReconciled, TtlStop, TtlReturn, ReconcileNative, ReconcileCommit,
        WorkerSettles, WorkerLocks, Dispatch, DispatchOp, DispatchTtl
  <1>4. CASE BootStep \/ ShutdownStep \/ Environment
    BY <1>1, <1>2, <1>4
    DEF BootStep, RecoverReturn, RecoverEnds, RecoverAborts, RecoverIntent,
        RecoverOverdue, ShutdownStep, ShutdownLock, ShutdownSandbox, ShutdownReconciled,
        ShutdownReturn, ShutdownEnds, Environment, Crash, ShutdownQueue,
        WorkerTimesOut, TimerFires, ContainerExits, ContainerVanishes
  <1>5. CASE \/ \E s \in Sandboxes : ServiceStep(s) \/ Request(s)
             \/ UNCHANGED vars
    BY <1>1, <1>5
    DEF ServiceStep, Adopt, AdoptFails, PortsRejected, Acknowledge, Rollback,
        RollbackRefused, Request, CreateBegin, StartBegin, RestartBegin, StopBegin,
        RemoveBegin, Pause, Resume, RenewExpiration, CanLock, vars
  <1>. QED
    BY <1>3, <1>4, <1>5 DEF Next

\* A frame drives its intent up to RetryOperation, which hands it over.
LEMMA FrameDrivesKept ==
  ASSUME Inv, Retired, [Next]_vars, up \in OpenUp, up' \in OpenUp,
         NEW p \in ops, FrameDrives(p), NEW o \in ops', o.id = p.id, o.s = p.s, o.kind = p.kind
  PROVE  o.id \in opJobs' \/ ServiceDrives(o)' \/ FrameDrives(o)'
  <1>1. /\ h \in FrameType /\ FrameInv /\ ctr \in [Sandboxes -> CtrType]
        /\ h.s \in Sandboxes /\ h.id = o.id /\ o.id \in OpIds
        /\ p \in Operations /\ h.pc \in DrivingSteps
        /\ svc \in [Sandboxes -> SvcType] /\ attempt \in [Sandboxes -> 0 .. MaxOps]
    BY DEF Inv, Core, Memory, FrameInv, DbInv, DbTypeOK, FrameDrives, DrivingSteps,
           ReturnSteps, Operations
  <1>2. ASSUME h'.pc \in DrivingSteps, h'.id = h.id PROVE FrameDrives(o)'
    BY <1>1, <1>2 DEF FrameDrives
  <1>3. ASSUME NEW pc \in DrivingSteps, NEW res, Continues(pc, res)
        PROVE  FrameDrives(o)'
    BY <1>2, <1>3 DEF Continues
  <1>4. CASE UNCHANGED h
    BY <1>1, <1>2, <1>4
  <1>5. CASE Tick
    <2>1. h'.pc = h.pc /\ h'.id = h.id
      BY <1>1, <1>5 DEF Tick, FrameType
    <2>. QED
      BY <1>1, <1>2, <2>1
  <1>6. (CreateSteps \cup RunSteps \cup StopSteps \cup RemoveSteps \cup {"retry"})
          \subseteq DrivingSteps
    BY DEF DrivingSteps, IntentSteps, CreateSteps, RunSteps, StopSteps, RemoveSteps,
           ReconcileSteps
  <1>7. CASE \/ CreateNative \/ CreateStart \/ CreateUndo \/ StopNative \/ RemoveNative
    BY <1>1, <1>3, <1>6, <1>7, FrameShapes, NativeCallShape
    DEF CreateNative, CreateStart, CreateUndo, StopNative, RemoveNative, CreateSteps,
        StopSteps, RemoveSteps
  <1>8. CASE RunNative
    <2>1. HalfRestart => h'.pc = "retry" /\ h'.id = h.id
      BY <1>1 DEF HalfRestart, FrameType
    <2>. QED
      BY <1>1, <1>2, <1>3, <1>6, <1>8, <2>1, FrameShapes, NativeCallShape
      DEF RunNative, RunSteps
  <1>9. CASE \/ CreateBind \/ CreateForget \/ CreateOwn \/ RunComplete \/ StopComplete
             \/ RemoveDelete
    BY <1>1, <1>3, <1>6, <1>9, FrameShapes
    DEF CreateBind, CreateForget, CreateOwn, RunComplete, StopComplete, RemoveDelete,
        CreateSteps
  <1>10. CASE CreateCommit
    <2>1. CASE DbFails("create.undo")
      BY <1>1, <1>3, <1>6, <2>1, FrameShapes DEF CreateSteps
    <2>2. CASE /\ attempt' = [attempt EXCEPT ![h.s] = h.id]
               /\ svc' = [svc EXCEPT ![h.s] = "created"]
      <3>1. p.kind = "create" /\ p.s = h.s
        BY <1>1, <1>10
        DEF CreateCommit, FrameInv, HasIntent, CreateSteps, IntentSteps, Inv, Core,
            DbInv, OneIntent
      <3>. QED
        BY <1>1, <2>2, <3>1 DEF ServiceDrives
    <2>. QED
      BY <1>10, <2>1, <2>2 DEF CreateCommit
  <1>11. CASE RetryOperation
    <2>1. FindOperation(h.id) # {}
      BY <1>1 DEF FindOperation
    <2>. QED
      BY <1>1, <1>11, <2>1 DEF RetryOperation, QueueOperation, QueueOpen, OpenUp, OpIds
  <1>12. ~ApiReturn /\ ~CreateReturn /\ ~RollbackReturn
    BY <1>1 DEF DrivingSteps, IntentSteps, CreateSteps, RunSteps, StopSteps, RemoveSteps,
                ReconcileSteps, ApiReturn, CreateReturn, RollbackReturn
  <1>. QED
    BY <1>1, <1>4, <1>5, <1>7, <1>8, <1>9, <1>10, <1>11, <1>12, DrivingFrameMoves
    DEF HandlerStep


\* The service drives a creation until it is adopted or handed over.
LEMMA ServiceDrivesKept ==
  ASSUME Inv, Roles, Retired, [Next]_vars, up \in OpenUp, up' \in OpenUp,
         NEW p \in ops, ServiceDrives(p),
         NEW o \in ops', o.id = p.id, o.s = p.s, o.kind = p.kind
  PROVE  o.id \in opJobs' \/ ServiceDrives(o)'
  <1>1. /\ p \in Operations /\ p.s \in Sandboxes /\ p.id \in OpIds /\ o.kind = "create"
        /\ svc[p.s] \in {"created", "undo"} /\ attempt[p.s] = p.id
        /\ svc \in [Sandboxes -> SvcType] /\ attempt \in [Sandboxes -> 0 .. MaxOps]
    BY DEF Inv, Core, Memory, DbInv, DbTypeOK, Operations, ServiceDrives
  <1>2. ASSUME svc'[p.s] \in {"created", "undo"}, attempt'[p.s] = attempt[p.s]
        PROVE  ServiceDrives(o)'
    BY <1>1, <1>2 DEF ServiceDrives
  <1>3. ASSUME UNCHANGED svc, UNCHANGED attempt PROVE ServiceDrives(o)'
    BY <1>1, <1>2, <1>3
  <1>4. ASSUME QueueOperation(p.id) PROVE o.id \in opJobs'
    BY <1>1, <1>4 DEF QueueOperation, QueueOpen, OpenUp, OpIds
  <1>5. h.s = p.s => h.by # "create" /\ ~Finished
    BY <1>1 DEF Roles, Retired
  <1>6. ~ProcessEnds /\ ~ShutdownQueue /\ ~Recover
    BY DEF ProcessEnds, ShutdownQueue, Recover, OpenUp
  <1>7. CASE HandlerStep
    <2>1. CASE CreateCommit
      <3>1. h.s # p.s
        BY <1>5, <2>1 DEF CreateCommit, Roles, CreateSteps
      <3>. QED
        BY <1>1, <1>2, <1>3, <2>1, <3>1 DEF CreateCommit
    <2>2. CASE CreateReturn
      BY <1>1, <1>2, <1>5, <2>2 DEF CreateReturn, memVars
    <2>3. CASE RollbackReturn
      <3>1. CASE h.s = p.s
        <4>1. h.res # "ok"
          BY <1>5, <2>3, <3>1 DEF RollbackReturn, Finished, Roles
        <4>. QED
          BY <1>1, <1>4, <2>3, <3>1, <4>1 DEF RollbackReturn
      <3>2. CASE h.s # p.s
        <4>1. svc'[p.s] = svc[p.s] /\ attempt'[p.s] = attempt[p.s]
          BY <1>1, <2>3, <3>2 DEF RollbackReturn
        <4>. QED
          BY <1>1, <1>2, <4>1
      <3>. QED
        BY <3>1, <3>2
    <2>. QED
      BY <1>3, <1>7, <2>1, <2>2, <2>3
      DEF HandlerStep, CreateNative, CreateBind, CreateStart, CreateUndo, CreateForget,
          CreateOwn, RunNative, RunComplete, StopNative, StopComplete, RemoveNative,
          RemoveDelete, RetryOperation, ApiReturn, memVars
  <1>8. CASE RecoveryStep \/ Dispatch
    <2>1. CASE OpJobReturn
      <3>1. CASE h.s = p.s
        BY <1>3, <1>5, <2>1, <3>1 DEF OpJobReturn, Finished
      <3>2. CASE h.s # p.s
        <4>1. svc' = svc /\ attempt'[p.s] = attempt[p.s]
          BY <1>1, <2>1, <3>2 DEF OpJobReturn
        <4>. QED
          BY <1>1, <1>2, <4>1
      <3>. QED
        BY <3>1, <3>2
    <2>. QED
      BY <1>3, <1>8, <2>1
      DEF RecoveryStep, LockedRecoveryStep, JobRuns, WorkerSettles, OpJobRuns,
          TtlJobRuns, TtlCheck, TtlReconciled, TtlStop, TtlReturn, ReconcileNative,
          ReconcileCommit, Dispatch, DispatchOp, DispatchTtl, memVars
  <1>9. CASE BootStep \/ ShutdownStep \/ Environment
    BY <1>3, <1>6, <1>9
    DEF BootStep, RecoverReturn, RecoverEnds, RecoverAborts, RecoverIntent,
        RecoverOverdue, ShutdownStep, ShutdownLock, ShutdownSandbox, ShutdownReconciled,
        ShutdownReturn, ShutdownEnds, Environment, Tick, Crash, WorkerTimesOut,
        TimerFires, ContainerExits, ContainerVanishes, memVars
  <1>10. ASSUME NEW s \in Sandboxes, ServiceStep(s)
         PROVE  o.id \in opJobs' \/ ServiceDrives(o)'
    <2>1. CASE Adopt(s)
      <3>1. s # p.s
        BY <1>1, <2>1 DEF Adopt, AdoptProvenance
      <3>. QED
        BY <1>1, <1>2, <2>1, <3>1 DEF Adopt
    <2>2. CASE AdoptFails(s) \/ PortsRejected(s)
      BY <1>1, <1>2, <2>2 DEF AdoptFails, PortsRejected, memVars
    <2>3. CASE Acknowledge(s)
      BY <1>1, <1>2, <2>3 DEF Acknowledge, memVars
    <2>4. CASE Rollback(s)
      <3>1. CASE s = p.s
        <4>1. PICK op \in Begun(s, "delete", NewOp, NoDeadline) : BeginOperation(op)
          BY <2>4 DEF Rollback, BeginRemove
        <4>2. op.kind = "delete" /\ \A q \in ops : q.s = s <=> q.id = op.id
          BY <2>4, <4>1, BegunTyped, NewOpFresh, Datable DEF Rollback, Inv, Core, Kinds
        <4>. QED
          BY <1>1, <3>1, <4>1, <4>2 DEF BeginOperation
      <3>2. CASE s # p.s
        BY <1>1, <1>2, <2>4, <3>2 DEF Rollback, memVars
      <3>. QED
        BY <3>1, <3>2
    <2>5. CASE RollbackRefused(s)
      BY <1>1, <1>2, <1>4, <2>5 DEF RollbackRefused
    <2>. QED
      BY <1>10, <2>1, <2>2, <2>3, <2>4, <2>5 DEF ServiceStep
  <1>11. ASSUME NEW s \in Sandboxes, Request(s)
         PROVE  ServiceDrives(o)'
    <2>1. ASSUME NEW ttl \in 1 .. MaxTtl, CreateBegin(s, ttl) PROVE ServiceDrives(o)'
      BY <1>1, <1>2, <2>1 DEF CreateBegin, memVars
    <2>. QED
      BY <1>3, <1>11, <2>1
      DEF Request, StartBegin, RestartBegin, StopBegin, RemoveBegin, Pause, Resume,
          RenewExpiration, memVars
  <1>. QED
    BY <1>3, <1>7, <1>8, <1>9, <1>10, <1>11 DEF Next, vars, memVars

LEMMA DrivenStep ==
  ASSUME Inv, Sweeping, Roles, Retired, Driven, [Next]_vars
  PROVE  Driven'
  <1> SUFFICES ASSUME up' \in OpenUp, NEW o \in ops'
               PROVE  o.id \in opJobs' \/ ServiceDrives(o)' \/ FrameDrives(o)'
    BY DEF Driven
  <1>1. CASE up \notin OpenUp
    <2>1. Recover
      BY <1>1, RecoverOpens
    <2>. QED
      BY <2>1 DEF Recover, dbVars
  <1>2. CASE up \in OpenUp /\ BegunIntent(o)
    BY <1>2
    DEF BegunIntent, FrameDrives, DrivingSteps, BeginningSteps, IntentSteps, CreateSteps,
        RunSteps, StopSteps, RemoveSteps, ReconcileSteps
  <1>3. CASE up \in OpenUp /\ KnownIntent(o)
    <2>1. PICK p \in ops : p.id = o.id /\ p.s = o.s /\ p.kind = o.kind
      BY <1>3 DEF KnownIntent
    <2>2. p.id \in opJobs \/ ServiceDrives(p) \/ FrameDrives(p)
      BY <1>3 DEF Driven
    <2>. QED
      BY <1>3, <2>1, <2>2, JobsKept, ServiceDrivesKept, FrameDrivesKept
  <1>. QED
    BY <1>1, <1>2, <1>3, IntentOrigin

-----------------------------------------------------------------------------
(* No sandbox runs without a timer.                                        *)

KeepsPending(s) == \A o \in Pending(s) : \E p \in Pending(s)' : p.id = o.id /\ p.kind = o.kind

LEMMA RetryStays ==
  ASSUME Inv, [Next]_vars, h.pc = "retry", up \in OpenUp, up' \in OpenUp, ~RetryOperation
  PROVE  h'.pc = h.pc /\ h'.s = h.s /\ h'.kind = h.kind /\ h'.id = h.id
  <1>1. HandlerStep \/ Tick \/ UNCHANGED h
    BY DrivingFrameMoves DEF DrivingSteps
  <1>2. h \in FrameType
    BY DEF Inv, Core, FrameInv
  <1>3. ~HandlerStep
    BY DEF HandlerStep, CreateNative, CreateBind, CreateStart, CreateCommit, CreateUndo,
           CreateForget, CreateOwn, RunNative, RunComplete, StopNative, StopComplete,
           RemoveNative, RemoveDelete, ApiReturn, CreateReturn, RollbackReturn
  <1>4. CASE Tick
    BY <1>2, <1>4 DEF Tick, FrameType
  <1>. QED
    BY <1>1, <1>3, <1>4

\* What covers a sandbox stays unless its timer, its intents or the frame that
\* hands it over change.
LEMMA CoveredQuiet ==
  ASSUME Inv, Timed, [Next]_vars, ~RetryOperation, up \in OpenUp, up' \in OpenUp,
         NEW s \in owned, ctr[s] \in Live, KeepsPending(s),
         timer'[s] # NoTimer \/ timer'[s] = timer[s],
         svc'[s] # "created" \/ svc'[s] = svc[s]
  PROVE  Covered(s)'
  <1>1. Covered(s)
    BY DEF Timed
  <1>2. CASE h.pc = "retry" /\ h.s = s /\ h.kind \in RunKinds
             /\ \E o \in Pending(s) : o.id = h.id
    BY <1>2, RetryStays DEF Covered, KeepsPending
  <1>. QED
    BY <1>1, <1>2 DEF Covered, KeepsPending

\* A timer that is scheduled is one.
LEMMA ScheduledTimer ==
  ASSUME Inv, NEW s \in Sandboxes, NEW dl, ScheduleDeadline(s, dl)
  PROVE  timer'[s] # NoTimer /\ \A t \in Sandboxes : t # s => timer'[t] = timer[t]
  <1>1. NewEntry(s) \in Entries
    BY DEF Inv, Memory, QueueInv, EntryFree, NewEntry
  <1>. QED
    BY <1>1, HandlersAssumption DEF Inv, Memory, ScheduleDeadline, Entries, NoTimer

LEMMA BegunPending ==
  ASSUME Inv, HasFreshOp, NEW s \in Sandboxes, NEW kind \in Kinds, NEW dl \in Deadlines,
         NEW op \in Begun(s, kind, NewOp, dl), BeginOperation(op), NEW t \in Sandboxes
  PROVE  KeepsPending(t) \/ (t = s /\ kind = "delete" /\ \E p \in Pending(t)' : p.kind = kind)
  <1>1. /\ op.s = s /\ op.kind = kind /\ s \in owned
        /\ \A o \in ops : o.s = s <=> o.id = op.id
    BY BegunTyped, NewOpFresh DEF Inv, Core
  <1>2. ops' = {o \in ops : o.id # op.id} \cup {op}
    BY DEF BeginOperation
  <1>3. CASE t # s
    BY <1>1, <1>2, <1>3 DEF KeepsPending, Pending
  <1>4. CASE t = s /\ kind = "delete"
    BY <1>1, <1>2, <1>4 DEF Pending
  <1>5. CASE t = s /\ kind # "delete"
    <2>1. \A o \in Pending(s) : o.kind = kind
      BY <1>1, <1>5 DEF Begun, Resumable, Pending, Inv, Core, DbInv, OneIntent
    <2>. QED
      BY <1>1, <1>2, <1>5, <2>1 DEF KeepsPending, Pending
  <1>. QED
    BY <1>3, <1>4, <1>5

LEMMA StopPending ==
  ASSUME Inv, HasFreshOp, NEW s \in Sandboxes, NEW by, BeginStop(by, s), NEW t \in Sandboxes
  PROVE  KeepsPending(t)
  BY BegunPending, Datable DEF BeginStop, Kinds

\* Nothing for sandbox s has changed but the frame.
LEMMA CoveredUnchanged ==
  ASSUME Inv, Timed, [Next]_vars, ~RetryOperation, up \in OpenUp, up' \in OpenUp,
         NEW s \in owned, ctr[s] \in Live, Pending(s)' = Pending(s),
         timer'[s] = timer[s], svc'[s] = svc[s]
  PROVE  Covered(s)'
  BY CoveredQuiet DEF KeepsPending

LEMMA NativeCovered ==
  ASSUME Inv, Timed, Dated, [Next]_vars, up \in OpenUp, up' \in OpenUp,
         CreateNative \/ CreateStart \/ CreateUndo \/ RunNative \/ StopNative
           \/ RemoveNative,
         NEW s \in owned', ctr'[s] \in Live
  PROVE  Covered(s)'
  <1>1. /\ h \in FrameType /\ FrameInv /\ ctr \in [Sandboxes -> CtrType]
        /\ timer \in [Sandboxes -> TimerValues] /\ h.s \in Sandboxes
        /\ owned \subseteq Sandboxes /\ up' = up /\ UNCHANGED <<dbVars, svc>>
    BY DEF Inv, Core, Memory, FrameInv, DbInv, DbTypeOK, CreateNative, CreateStart,
           CreateUndo, RunNative, StopNative, RemoveNative, IntentSteps, CreateSteps,
           RunSteps, StopSteps, RemoveSteps
  <1>2. s \in owned /\ s \in Sandboxes /\ Pending(s)' = Pending(s)
    BY <1>1 DEF dbVars, Pending
  <1>3. ~RetryOperation
    BY DEF CreateNative, CreateStart, CreateUndo, RunNative, StopNative, RemoveNative,
           RetryOperation
  <1>4. h.pc \in CreateSteps => s # h.s
    BY <1>1, <1>2 DEF FrameInv
  <1>5. ASSUME ctr[s] \in Live, timer'[s] = timer[s] PROVE Covered(s)'
    BY <1>1, <1>2, <1>3, <1>5, CoveredUnchanged
  <1>6. CASE s # h.s
    <2>1. ctr'[s] = ctr[s]
      BY <1>1, <1>2, <1>6, NativeCallShape
      DEF CreateNative, CreateStart, CreateUndo, RunNative, StopNative, RemoveNative,
          HalfRestart
    <2>2. timer'[s] = timer[s]
      BY <1>1, <1>2, <1>6, ScheduledTimer
      DEF CreateNative, CreateStart, CreateUndo, RunNative, StopNative, RemoveNative,
          CancelTimer, memVars
    <2>. QED
      BY <1>5, <2>1, <2>2
  <1>7. CASE s = h.s /\ RunNative
    <2>1. ctr[h.s] # "absent"
      BY <1>7 DEF RunNative, Live
    <2>2. ASSUME h'.pc = "run.complete" PROVE Covered(s)'
      BY <1>1, <1>2, <1>7, <2>2, ScheduledTimer DEF RunNative, Covered
    <2>3. ASSUME Continues("retry", "err") PROVE Covered(s)'
      <3>1. h.kind \in RunKinds /\ \E o \in Pending(s) : o.id = h.id
        BY <1>1, <1>7
        DEF RunNative, FrameInv, RunSteps, IntentSteps, HasIntent, RunKinds, Pending
      <3>. QED
        BY <1>2, <1>7, <2>3, <3>1 DEF Covered, Continues
    <2>4. ~HalfRestart
      BY <1>1, <1>7 DEF HalfRestart, Live
    <2>5. NativeCall("running", "run.complete", "retry")
      BY <1>7, <2>1, <2>4 DEF RunNative
    <2>. QED
      BY <1>1, <2>2, <2>3, <2>5, NativeCallShape DEF Continues
  <1>8. CASE s = h.s /\ StopNative
    <2>1. ctr[s] \in Live
      BY <1>1, <1>2, <1>8, NativeCallShape DEF StopNative, Stopped, Live
    <2>2. timer' = timer
      BY <1>8 DEF StopNative, memVars
    <2>. QED
      BY <1>5, <2>1, <2>2
  <1>9. CASE s = h.s /\ RemoveNative
    <2>1. Continues("retry", "err") /\ ctr[s] \in Live
      BY <1>1, <1>2, <1>9, NativeCallShape DEF RemoveNative, Live
    <2>2. timer' = timer
      BY <1>9, <2>1 DEF RemoveNative, Continues
    <2>. QED
      BY <1>5, <2>1, <2>2
  <1>. QED
    BY <1>4, <1>6, <1>7, <1>8, <1>9
    DEF CreateNative, CreateStart, CreateUndo, CreateSteps

LEMMA CommitCovered ==
  ASSUME Inv, Timed, Dated, Roles, [Next]_vars, up \in OpenUp, up' \in OpenUp,
         CreateBind \/ CreateCommit \/ CreateForget \/ CreateOwn \/ RunComplete
           \/ StopComplete \/ RemoveDelete \/ ReconcileCommit,
         NEW s \in owned', ctr'[s] \in Live
  PROVE  Covered(s)'
  <1>1. /\ h \in FrameType /\ FrameInv /\ ctr' = ctr /\ HasIntent(h.id, h.s, h.kind)
        /\ timer \in [Sandboxes -> TimerValues] /\ h.s \in Sandboxes
        /\ svc \in [Sandboxes -> SvcType] /\ OneIntent /\ ops \subseteq Operations
        /\ owned \subseteq Sandboxes
    BY DEF Inv, Core, Memory, FrameInv, DbInv, DbTypeOK, CreateBind, CreateCommit,
           CreateForget, CreateOwn, RunComplete, StopComplete, RemoveDelete,
           ReconcileCommit, IntentSteps, CreateSteps, RunSteps, StopSteps, RemoveSteps,
           ReconcileSteps
  <1>2. ~RetryOperation
    BY DEF CreateBind, CreateCommit, CreateForget, CreateOwn, RunComplete,
           StopComplete, RemoveDelete, ReconcileCommit, RetryOperation
  <1>3. \A o \in ops : o.s = h.s <=> o.id = h.id
    BY <1>1 DEF HasIntent, OneIntent
  <1>4. CASE s # h.s
    <2>1. s \in owned
      BY <1>1, <1>4
      DEF CreateBind, CreateCommit, CreateForget, CreateOwn, RunComplete, StopComplete,
          RemoveDelete, ReconcileCommit, BindCreation, CommitCreation, CreateOwnership,
          CompleteOperation, DeleteOperation, DbFails, dbVars
    <2>2. timer'[s] = timer[s] /\ svc'[s] = svc[s]
      BY <1>1, <1>4, <2>1, ScheduledTimer
      DEF CreateBind, CreateCommit, CreateForget, CreateOwn, RunComplete, StopComplete,
          RemoveDelete, ReconcileCommit, CancelTimer, memVars
    <2>3. KeepsPending(s)
      <3>1. CASE CreateBind /\ BindCreation(h.id)
        <4> DEFINE bound(o) == IF o.id = h.id THEN [o EXCEPT !.native = TRUE] ELSE o
        <4>1. ops' = {bound(o) : o \in ops}
          BY <3>1 DEF BindCreation
        <4>2. \A o \in ops : bound(o).id = o.id /\ bound(o).s = o.s /\ bound(o).kind = o.kind
          BY <1>1 DEF Operations
        <4> HIDE DEF bound
        <4>. QED
          BY <4>1, <4>2 DEF KeepsPending, Pending
      <3>2. CASE UNCHANGED ops
        BY <3>2 DEF KeepsPending, Pending
      <3>3. CASE ops' = {o \in ops : o.id # h.id}
        BY <1>3, <1>4, <3>3 DEF KeepsPending, Pending
      <3>. QED
        BY <3>1, <3>2, <3>3
        DEF CreateBind, CreateCommit, CreateForget, CreateOwn, RunComplete, StopComplete,
            RemoveDelete, ReconcileCommit, CommitCreation, CreateOwnership,
            CompleteOperation, DeleteOperation, DbFails, dbVars
    <2>. QED
      BY <1>1, <1>2, <2>1, <2>2, <2>3, CoveredQuiet
  <1>5. ASSUME UNCHANGED <<dbVars, timer, svc>> PROVE Covered(s)'
    BY <1>1, <1>2, <1>5, CoveredUnchanged DEF dbVars, Pending
  <1>6. ASSUME NEW dl, ScheduleDeadline(h.s, dl) PROVE s = h.s => Covered(s)'
    BY <1>1, <1>6, ScheduledTimer DEF Covered
  <1>7. CASE s = h.s /\ CreateBind
    <2>1. s \notin owned /\ owned' = owned
      BY <1>1, <1>7 DEF CreateBind, FrameInv, CreateSteps, BindCreation, DbFails, dbVars
    <2>. QED
      BY <2>1
  <1>8. CASE s = h.s /\ CreateCommit
    <2>1. s \notin owned
      BY <1>1, <1>8 DEF CreateCommit, FrameInv, CreateSteps
    <2>. QED
      BY <1>6, <1>8, <2>1 DEF CreateCommit, DbFails, dbVars
  <1>9. CASE s = h.s /\ CreateOwn
    <2>1. s \notin owned /\ svc[s] = "creating" /\ h.kind = "create"
      BY <1>1, <1>9 DEF CreateOwn, FrameInv, CreateSteps, Roles
    <2>2. UNCHANGED <<ops, svc>>
      BY <1>9 DEF CreateOwn, CreateOwnership, DbFails, dbVars
    <2>. QED
      BY <1>1, <1>9, <2>1, <2>2 DEF Covered, Pending, HasIntent
  <1>10. CASE s = h.s /\ (CreateForget \/ RemoveDelete)
    BY <1>5, <1>10 DEF CreateForget, RemoveDelete, DeleteOperation, DbFails, memVars
  <1>11. CASE s = h.s /\ RunComplete
    <2>1. h.kind \in RunKinds /\ h.pc = "run.complete"
      BY <1>1, <1>11 DEF RunComplete, FrameInv, RunSteps, RunKinds
    <2>2. CASE CompleteOperation(h.s, h.id, h.dl)
      <3>1. s \in owned /\ timer' = timer
        BY <1>11, <2>2 DEF CompleteOperation, RunComplete, memVars
      <3>2. \A o \in Pending(s) : o.kind \in RunKinds
        BY <1>1, <1>11, <2>1 DEF HasIntent, OneIntent, Pending
      <3>3. timer[s] # NoTimer
        BY <1>1, <2>1, <3>1, <3>2 DEF Timed, Covered, RunKinds
      <3>. QED
        BY <3>1, <3>3 DEF Covered
    <2>. QED
      BY <1>5, <1>11, <2>2 DEF RunComplete, DbFails, memVars
  <1>12. CASE s = h.s /\ StopComplete
    BY <1>1, <1>12 DEF StopComplete, Dated, FrameDated, Halted
  <1>13. CASE s = h.s /\ ReconcileCommit
    <2>1. CASE /\ h.kind = "stop" \/ (h.kind \in {"start", "restart"} /\ ~h.saw)
      BY <1>1, <1>13, <2>1 DEF ReconcileCommit, Dated, FrameDated, Halted, RunKinds
    <2>2. CASE DeleteOperation(h.s, h.id)
      BY <1>13, <2>2 DEF DeleteOperation
    <2>3. CASE DbFails("reconcile.ret") /\ UNCHANGED timer
      BY <1>5, <1>13, <2>3 DEF DbFails, ReconcileCommit
    <2>4. CASE ScheduleDeadline(h.s, h.dl)
      BY <1>6, <1>13, <2>4
    <2>. QED
      BY <1>13, <2>1, <2>2, <2>3, <2>4 DEF ReconcileCommit
  <1>. QED
    BY <1>4, <1>7, <1>8, <1>9, <1>10, <1>11, <1>12, <1>13

LEMMA RetryCovered ==
  ASSUME Inv, Timed, Dated, [Next]_vars, up \in OpenUp, RetryOperation,
         NEW s \in owned, ctr[s] \in Live
  PROVE  Covered(s)'
  <1>1. /\ h.s \in Sandboxes /\ s \in Sandboxes /\ UNCHANGED <<ops, svc>>
        /\ timer \in [Sandboxes -> TimerValues] /\ h.pc = "retry"
    BY DEF Inv, Core, Memory, FrameInv, DbInv, DbTypeOK, RetryOperation, ReturnSteps,
           dbVars
  <1>2. timer'[s] # NoTimer \/ timer'[s] = timer[s]
    BY <1>1, ScheduledTimer DEF RetryOperation
  <1>3. Covered(s)
    BY DEF Timed
  <1>4. CASE h.s = s /\ h.kind \in RunKinds /\ \E o \in Pending(s) : o.id = h.id
    <2>1. FindOperation(h.id) # {}
      BY <1>4 DEF FindOperation, Pending
    <2>2. h.kind # "create" /\ h.dl # NoDeadline /\ up # "closing"
      BY <1>4 DEF RunKinds, DatedKinds, Dated, FrameDated, OpenUp
    <2>3. timer'[s] # NoTimer
      BY <1>1, <1>4, <2>1, <2>2, ScheduledTimer DEF RetryOperation
    <2>. QED
      BY <2>3 DEF Covered
  <1>. QED
    BY <1>1, <1>2, <1>3, <1>4 DEF Covered, Pending

LEMMA RecoveryCovered ==
  ASSUME Inv, Timed, Dated, Roles, [Next]_vars, up \in OpenUp, up' \in OpenUp,
         RecoveryStep \/ Dispatch, NEW s \in owned', ctr'[s] \in Live
  PROVE  Covered(s)'
  <1>1. /\ FrameInv /\ owned \subseteq Sandboxes
        /\ timer \in [Sandboxes -> TimerValues]
    BY DEF Inv, Core, Memory, DbInv, DbTypeOK
  <1>2. ASSUME UNCHANGED <<owned, ctr, svc>>, ~RetryOperation,
               timer'[s] # NoTimer \/ timer'[s] = timer[s], KeepsPending(s)
        PROVE  Covered(s)'
    BY <1>2, CoveredQuiet
  <1>3. ASSUME UNCHANGED ops PROVE KeepsPending(s)
    BY <1>3 DEF KeepsPending, Pending
  <1>4. CASE ReconcileCommit
    BY <1>4, CommitCovered
  <1>5. CASE ReconcileNative
    <2>1. /\ UNCHANGED <<dbVars, timer, svc>> /\ ~RetryOperation
      BY <1>5 DEF ReconcileNative, RetryOperation, memVars
    <2>2. ctr[s] \in Live
      <3>1. /\ h \in FrameType /\ ctr \in [Sandboxes -> CtrType] /\ h.s \in Sandboxes
            /\ s \in Sandboxes
        BY <1>1, <1>5, <2>1
        DEF Inv, Core, FrameInv, ReconcileNative, IntentSteps, ReconcileSteps, dbVars
      <3>2. CASE ctr' = ctr
        BY <3>2
      <3>3. CASE NativeCall("absent", "reconcile.commit", "reconcile.ret")
        BY <3>1, <3>3, NativeCallShape DEF Live
      <3>4. CASE NativeCall(Stopped(ctr[h.s]), "reconcile.commit", "reconcile.ret")
        BY <3>1, <3>4, NativeCallShape DEF Stopped, Live
      <3>. QED
        BY <1>5, <3>2, <3>3, <3>4 DEF ReconcileNative
    <2>. QED
      BY <2>1, <2>2, CoveredUnchanged DEF dbVars, Pending
  <1>6. CASE TtlCheck \/ TtlReconciled \/ TtlStop \/ TtlReturn
    <2>1. /\ h.s \in Sandboxes /\ UNCHANGED <<owned, ctr, svc>> /\ ~RetryOperation
          /\ owned \subseteq Sandboxes
      BY <1>1, <1>6
      DEF TtlCheck, TtlReconciled, TtlStop, TtlReturn, RetryOperation, FrameInv,
          ReturnSteps, TtlSteps, dbVars, BeginStop, BeginOperation
    <2>2. ASSUME NEW dl, ScheduleDeadline(h.s, dl)
          PROVE  timer'[s] # NoTimer \/ timer'[s] = timer[s]
      BY <2>1, <2>2, ScheduledTimer
    <2>3. CASE TtlCheck
      BY <1>2, <1>3, <2>1, <2>2, <2>3 DEF TtlCheck, TtlRetries, dbVars
    <2>4. CASE TtlReconciled
      <3>1. UNCHANGED timer \/ ScheduleDeadline(h.s, 0)
        BY <2>4 DEF TtlReconciled, TtlRetries
      <3>. QED
        BY <1>2, <1>3, <2>1, <2>2, <2>4, <3>1 DEF TtlReconciled, dbVars
    <2>5. CASE TtlStop
      <3>1. CASE h.s \notin owned /\ CancelTimer(h.s) /\ UNCHANGED dbVars
        <4>1. timer'[s] = timer[s]
          BY <1>1, <2>1, <3>1 DEF CancelTimer
        <4>. QED
          BY <1>2, <1>3, <2>1, <3>1, <4>1 DEF dbVars
      <3>2. CASE ScheduleDeadline(h.s, deadline[h.s]) /\ UNCHANGED dbVars
        BY <1>2, <1>3, <2>1, <2>2, <3>2 DEF dbVars
      <3>3. CASE HasFreshOp /\ BeginStop("ttl", h.s) /\ UNCHANGED timer
        BY <1>2, <2>1, <3>3, StopPending
      <3>4. CASE TtlRetries /\ UNCHANGED dbVars
        BY <1>2, <1>3, <2>1, <2>2, <3>4 DEF dbVars, TtlRetries
      <3>. QED
        BY <2>5, <3>1, <3>2, <3>3, <3>4 DEF TtlStop
    <2>6. CASE TtlReturn
      <3>1. CASE h.res = "ok" /\ s = h.s
        <4>1. h.kind = "stop" /\ ctr' = ctr
          BY <2>6 DEF TtlReturn, Roles, ReturnSteps, TtlSteps, StopSteps, ReconcileSteps
        <4>. QED
          BY <2>6, <3>1, <4>1 DEF TtlReturn, Dated, FrameDated, Halted
      <3>2. CASE h.res = "ok" /\ s # h.s
        <4>1. timer'[s] = timer[s]
          BY <1>1, <2>1, <2>6, <3>2 DEF TtlReturn, CancelTimer
        <4>. QED
          BY <1>2, <1>3, <2>1, <2>6, <4>1 DEF TtlReturn, dbVars
      <3>3. CASE h.res # "ok"
        BY <1>2, <1>3, <2>1, <2>2, <2>6, <3>3 DEF TtlReturn, TtlRetries, dbVars
      <3>. QED
        BY <3>1, <3>2, <3>3
    <2>. QED
      BY <1>6, <2>3, <2>4, <2>5, <2>6
  <1>7. CASE OpJobRuns \/ TtlJobRuns \/ OpJobReturn \/ WorkerSettles \/ Dispatch
    <2>1. RetryOperation => h.pc = "retry" /\ h'.pc = "ret"
      BY <1>1 DEF RetryOperation, FrameInv, FrameType, Goto
    <2>2. UNCHANGED <<ops, owned, ctr, svc, timer>> /\ ~RetryOperation
      BY <1>7, <2>1
      DEF OpJobRuns, TtlJobRuns, OpJobReturn, WorkerSettles, Dispatch, DispatchOp,
          DispatchTtl, dbVars, WorkerLocks
    <2>. QED
      BY <1>2, <1>3, <2>2
  <1>. QED
    BY <1>4, <1>5, <1>6, <1>7 DEF RecoveryStep, LockedRecoveryStep, JobRuns

LEMMA SweepsCovered ==
  ASSUME Inv, Sweeping, Timed, [Next]_vars, up \in OpenUp, up' \in OpenUp,
         BootStep \/ ShutdownStep, NEW s \in owned', ctr'[s] \in Live
  PROVE  Covered(s)'
  <1>1. /\ h \in FrameType /\ owned \subseteq Sandboxes
        /\ timer \in [Sandboxes -> TimerValues]
    BY DEF Inv, Core, Memory, FrameInv, DbInv, DbTypeOK
  <1>2. ~ProcessEnds /\ ~ShutdownStep /\ ~Recover
    BY DEF ProcessEnds, OpenUp, Recover, Sweeping, ShutdownStep, ShutdownLock,
           ShutdownSandbox, ShutdownReconciled, ShutdownReturn, ShutdownEnds
  <1>3. ASSUME UNCHANGED <<owned, ctr, svc, timer>>, KeepsPending(s), ~RetryOperation
        PROVE  Covered(s)'
    BY <1>3, CoveredQuiet
  <1>4. ASSUME UNCHANGED ops PROVE KeepsPending(s)
    BY <1>4 DEF KeepsPending, Pending
  <1>5. ASSUME NEW t \in Sandboxes, RecoverOverdue(t) PROVE Covered(s)'
    <2>1. UNCHANGED <<owned, ctr, svc, timer>> /\ ~RetryOperation
      BY <1>5 DEF RecoverOverdue, RetryOperation, BeginStop, BeginOperation
    <2>2. KeepsPending(s)
      BY <1>1, <1>4, <1>5, <2>1, StopPending DEF RecoverOverdue
    <2>. QED
      BY <1>3, <2>1, <2>2
  <1>6. CASE RecoverReturn \/ RecoverEnds \/ \E id \in OpIds : RecoverIntent(id)
    <2>1. UNCHANGED <<ops, owned, ctr, svc, timer>> /\ ~RetryOperation
      BY <1>6
      DEF RecoverReturn, RecoverEnds, RecoverIntent, RetryOperation, dbVars, memVars
    <2>. QED
      BY <1>3, <1>4, <2>1
  <1>. QED
    BY <1>2, <1>5, <1>6 DEF BootStep, RecoverAborts

LEMMA WorldCovered ==
  ASSUME Inv, Timed, Roles, [Next]_vars, up \in OpenUp, up' \in OpenUp,
         Environment \/ (\E t \in Sandboxes : ServiceStep(t) \/ Request(t))
           \/ UNCHANGED vars,
         NEW s \in owned', ctr'[s] \in Live
  PROVE  Covered(s)'
  <1>1. /\ FrameInv /\ h \in FrameType /\ owned \subseteq Sandboxes
        /\ timer \in [Sandboxes -> TimerValues] /\ svc \in [Sandboxes -> SvcType]
        /\ ctr \in [Sandboxes -> CtrType] /\ ops \subseteq Operations
    BY DEF Inv, Core, Memory, FrameInv, DbInv, DbTypeOK
  <1>2. ASSUME s \in owned, ctr[s] \in Live, ~RetryOperation, svc'[s] = svc[s] \/ svc'[s] # "created",
               timer'[s] # NoTimer \/ timer'[s] = timer[s], KeepsPending(s)
        PROVE  Covered(s)'
    BY <1>2, CoveredQuiet
  <1>3. ASSUME ops \subseteq ops' PROVE KeepsPending(s)
    BY <1>3 DEF KeepsPending, Pending
  <1>4. RetryOperation => h.pc = "retry" /\ h'.pc = "ret"
    BY <1>1 DEF RetryOperation, FrameType, Goto
  <1>5. CASE Environment
    <2>1. CASE Tick
      <3>1. /\ owned' = owned /\ ctr' = ctr /\ svc' = svc
            /\ h'.pc = h.pc /\ timer'[s] = [timer[s] EXCEPT !.dl = CountDown(@)]
        BY <1>1, <2>1 DEF Tick, FrameType
      <3>2. timer'[s] # NoTimer \/ timer'[s] = timer[s]
        BY <1>1, <3>1 DEF TimerValues, NoTimer, CountDown, Entries
      <3>3. KeepsPending(s)
        <4> DEFINE ticked(o) == [o EXCEPT !.dl = CountDown(@)]
        <4>1. ops' = {ticked(o) : o \in ops}
          BY <2>1 DEF Tick
        <4>2. \A o \in ops : ticked(o).id = o.id /\ ticked(o).s = o.s /\ ticked(o).kind = o.kind
          BY <1>1 DEF Operations
        <4> HIDE DEF ticked
        <4>. QED
          BY <4>1, <4>2 DEF KeepsPending, Pending
      <3>. QED
        BY <1>2, <1>4, <3>1, <3>2, <3>3
    <2>2. CASE ShutdownQueue \/ WorkerTimesOut \/ \E t \in Sandboxes : TimerFires(t)
      BY <1>2, <1>3, <1>4, <2>2
      DEF ShutdownQueue, WorkerTimesOut, TimerFires, dbVars
    <2>3. ASSUME NEW t \in Sandboxes, ContainerExits(t) \/ ContainerVanishes(t)
          PROVE  Covered(s)'
      <3>1. ctr[s] \in Live /\ UNCHANGED <<dbVars, timer, svc, h>>
        BY <1>1, <2>3 DEF ContainerExits, ContainerVanishes, Live, dbVars, memVars
      <3>. QED
        BY <1>2, <1>3, <1>4, <3>1 DEF dbVars
    <2>4. ~Crash
      BY DEF Crash, ProcessEnds, OpenUp
    <2>. QED
      BY <1>5, <2>1, <2>2, <2>3, <2>4 DEF Environment
  <1>6. ASSUME NEW t \in Sandboxes, ServiceStep(t) PROVE Covered(s)'
    <2>1. UNCHANGED <<owned, ctr, timer>> /\ ~RetryOperation
      BY <1>4, <1>6
      DEF ServiceStep, Adopt, AdoptProvenance, AdoptFails, PortsRejected, Acknowledge,
          Rollback, RollbackRefused, BeginRemove, BeginOperation, CanLock, dbVars,
          memVars
    <2>2. svc'[s] = svc[s] \/ svc'[s] # "created"
      BY <1>1, <1>6, <2>1
      DEF ServiceStep, Adopt, AdoptFails, PortsRejected, Acknowledge, Rollback,
          RollbackRefused
    <2>3. CASE Adopt(t)
      <3>1. CASE s = t
        <4>1. Covered(s) /\ svc[s] = "created" /\ h.pc = "idle"
              /\ \A o \in Pending(s) : o.kind = "create"
          BY <2>1, <2>3, <3>1 DEF Timed, Adopt, AdoptProvenance, CanAdopt, CanLock
        <4>. QED
          BY <2>1, <4>1 DEF Covered
      <3>2. CASE s # t
        <4>1. KeepsPending(s)
          BY <2>3, <3>2 DEF Adopt, AdoptProvenance, KeepsPending, Pending
        <4>. QED
          BY <1>2, <2>1, <2>2, <4>1
      <3>. QED
        BY <3>1, <3>2
    <2>4. CASE Rollback(t)
      <3>1. PICK op \in Begun(t, "delete", NewOp, NoDeadline) : BeginOperation(op)
        BY <2>4 DEF Rollback, BeginRemove
      <3>2. KeepsPending(s) \/ \E p \in Pending(s)' : p.kind = "delete"
        BY <1>1, <2>1, <2>4, <3>1, BegunPending, Datable DEF Rollback, Kinds
      <3>. QED
        BY <1>2, <2>1, <2>2, <3>2 DEF Covered
    <2>5. CASE UNCHANGED ops
      BY <1>2, <1>3, <2>1, <2>2, <2>5
    <2>. QED
      BY <1>6, <2>3, <2>4, <2>5
      DEF ServiceStep, AdoptFails, PortsRejected, Acknowledge, RollbackRefused, dbVars
  <1>7. ASSUME NEW t \in Sandboxes, Request(t) PROVE Covered(s)'
    <2>1. ~RetryOperation
      BY <1>4, <1>7
      DEF Request, CreateBegin, StartBegin, RestartBegin, StopBegin, RemoveBegin,
          Pause, Resume, RenewExpiration, CanLock
    <2>2. /\ owned' = owned /\ ctr[s] \in Live
          /\ svc'[s] = svc[s] \/ svc'[s] # "created"
      BY <1>1, <1>7
      DEF Request, CreateBegin, StartBegin, RestartBegin, StopBegin, RemoveBegin,
          BeginStop, BeginRemove, BeginCreate, BeginOperation, Pause, Resume,
          RenewExpiration, SetDeadline, dbVars, Live
    <2>3. CASE \E ttl \in 1 .. MaxTtl : RenewExpiration(t, ttl)
      <3>1. UNCHANGED ops
        BY <2>3 DEF RenewExpiration, SetDeadline
      <3>2. timer'[s] # NoTimer \/ timer'[s] = timer[s]
        BY <1>1, <2>2, <2>3, ScheduledTimer DEF RenewExpiration
      <3>. QED
        BY <1>2, <1>3, <2>1, <2>2, <3>1, <3>2
    <2>4. CASE UNCHANGED timer
      <3>1. CASE ops \subseteq ops'
        BY <1>2, <1>3, <2>1, <2>2, <2>4, <3>1
      <3>2. CASE StartBegin(t) \/ RestartBegin(t) \/ StopBegin(t) \/ RemoveBegin(t)
        <4>1. PICK kind \in Kinds, dl \in Deadlines :
                \E op \in Begun(t, kind, NewOp, dl) : HasFreshOp /\ BeginOperation(op)
          BY <3>2, Datable
          DEF StartBegin, RestartBegin, StopBegin, RemoveBegin, BeginStop, BeginRemove,
              Kinds
        <4>2. KeepsPending(s) \/ \E p \in Pending(s)' : p.kind = "delete"
          BY <1>1, <2>2, <4>1, BegunPending
        <4>. QED
          BY <1>2, <2>1, <2>2, <2>4, <4>2 DEF Covered
      <3>. QED
        BY <1>7, <3>1, <3>2, <2>3
        DEF Request, CreateBegin, BeginCreate, Pause, Resume, dbVars
    <2>. QED
      BY <1>7, <2>3, <2>4
      DEF Request, CreateBegin, StartBegin, RestartBegin, StopBegin, RemoveBegin,
          Pause, Resume, memVars
  <1>8. CASE UNCHANGED vars
    BY <1>2, <1>3, <1>4, <1>8 DEF vars, dbVars, memVars
  <1>. QED
    BY <1>5, <1>6, <1>7, <1>8

\* Startup arms a timer for every container it finds running.
LEMMA RecoverCovered ==
  ASSUME Inv, Dated, Recover, NEW s \in owned, ctr[s] \in Live
  PROVE  timer'[s] # NoTimer
  <1> DEFINE late == {op \in Pending(s) : op.kind # "create" /\ op.dl # NoDeadline}
             due == IF s \in owned /\ deadline[s] # NoDeadline THEN deadline[s]
                    ELSE IF late # {} THEN (CHOOSE op \in late : TRUE).dl
                    ELSE NoDeadline
  <1>1. s \in Sandboxes
    BY DEF Inv, Core, DbInv, DbTypeOK
  <1>2. timer'[s] = IF due = NoDeadline THEN NoTimer ELSE [entry |-> 1, dl |-> due]
    BY <1>1 DEF Recover
  <1>3. deadline[s] # NoDeadline \/ late # {}
    BY DEF Dated, LiveDated, IntentsDated, Pending, RunKinds, DatedKinds
  <1>4. late # {} => (CHOOSE op \in late : TRUE) \in late
    OBVIOUS
  <1>5. due # NoDeadline
    BY <1>3, <1>4
  <1> HIDE DEF due
  <1>. QED
    BY <1>2, <1>5 DEF NoTimer

LEMMA TimedStep ==
  ASSUME Inv, Sweeping, Dated, Roles, Timed, [Next]_vars
  PROVE  Timed'
  <1> SUFFICES ASSUME up' \in OpenUp, NEW s \in owned', ctr'[s] \in Live
               PROVE  Covered(s)'
    BY DEF Timed
  <1>1. CASE up \notin OpenUp
    <2>1. Recover
      BY <1>1, RecoverOpens
    <2>. QED
      BY <2>1, RecoverCovered DEF Recover, Covered, dbVars
  <1>2. CASE up \in OpenUp /\ HandlerStep
    <2>1. CASE ApiReturn \/ CreateReturn \/ RollbackReturn
      <3>1. /\ UNCHANGED <<dbVars, ctr, timer>> /\ ~RetryOperation
            /\ s \in Sandboxes /\ svc \in [Sandboxes -> SvcType]
        BY <2>1
        DEF ApiReturn, CreateReturn, RollbackReturn, RetryOperation, memVars, dbVars,
            Inv, Core, Memory, DbInv, DbTypeOK
      <3>2. svc'[s] = svc[s] \/ svc'[s] # "created"
        BY <2>1, <3>1 DEF ApiReturn, CreateReturn, RollbackReturn
      <3>3. KeepsPending(s) /\ owned' = owned
        BY <3>1 DEF KeepsPending, Pending, dbVars
      <3>. QED
        BY <1>2, <3>1, <3>2, <3>3, CoveredQuiet
    <2>2. CASE RetryOperation
      <3>1. owned' = owned /\ ctr' = ctr
        BY <2>2 DEF RetryOperation, dbVars
      <3>. QED
        BY <1>2, <2>2, <3>1, RetryCovered
    <2>. QED
      BY <1>2, <2>1, <2>2, NativeCovered, CommitCovered DEF HandlerStep
  <1>. QED
    BY <1>1, <1>2, RecoveryCovered, SweepsCovered, WorldCovered DEF Next

-----------------------------------------------------------------------------
(* The promises of the lifecycle.                                          *)

Promises == /\ Inv /\ Sweeping /\ Committed /\ Dated /\ Roles /\ Retired
            /\ Driven /\ Timed

LEMMA PromisesInit ==
  ASSUME Init
  PROVE  Promises
  <1>1. Inv
    BY InitInv
  <1>2. Sweeping /\ Roles /\ FrameDated
    BY DEF Init, Idle, Sweeping, Roles, FrameDated, Halted, CreateSteps, TtlSteps,
           DatedKinds, RunKinds
  <1>3. Committed /\ Dated /\ Driven /\ Timed
    BY <1>2 DEF Init, DbInit, Committed, Dated, IntentsDated, CreationsDated, LiveDated,
                Driven, Timed, OpenUp
  <1>4. Retired
    BY DEF Init, DbInit, NoWorker, Retired, FindOperation
  <1>. QED
    BY <1>1, <1>2, <1>3, <1>4 DEF Promises

LEMMA PromisesStep ==
  ASSUME Promises, [Next]_vars
  PROVE  Promises'
  BY InvStep, SweepingStep, CommittedStep, DatedStep, RolesStep, RetiredStep,
     DrivenStep, TimedStep
  DEF Promises

LEMMA PromisesEver == Spec => []Promises
  <1>1. Init => Promises
    BY PromisesInit
  <1>2. Promises /\ [Next]_vars => Promises'
    BY PromisesStep
  <1>. QED
    BY <1>1, <1>2, PTL DEF Spec

\* A client that was told that its sandbox exists never loses it to a recovery
\* that rolls a creation back: UpdateProvenance has retired the creation intent
\* before service.Create answers (service.go:143-156).
THEOREM AckedIsCommittedEver == Spec => []AckedIsCommitted
  <1>1. Promises => AckedIsCommitted
    BY DEF Promises, Committed, AckedIsCommitted, Pending
  <1>. QED
    BY <1>1, PromisesEver, PTL

\* Whatever crashes and retries come between, the row and the container of an
\* acknowledged sandbox are removed on behalf of a delete intent only.
THEOREM AckedGoesByDeleteEver == Spec => AckedGoesByDelete
  <1> DEFINE Gone(s) == \/ s \in owned /\ s \notin owned'
                        \/ ctr[s] # "absent" /\ ctr'[s] = "absent" /\ h' # h
             ByDelete(s) == \E o \in Pending(s) : o.kind = "delete"
  <1>1. ASSUME Promises, [Next]_vars, NEW s \in Sandboxes, svc[s] = "acked", Gone(s)
        PROVE  ByDelete(s)
    <2>1. /\ FrameInv /\ h \in FrameType /\ ctr \in [Sandboxes -> CtrType]
          /\ owned \subseteq Sandboxes
      BY <1>1 DEF Promises, Inv, Core, FrameInv, DbInv, DbTypeOK
    <2>2. ASSUME h.pc \in IntentSteps, h.s = s, h.kind \in {"create", "delete"}
          PROVE  ByDelete(s)
      <3>1. HasIntent(h.id, h.s, h.kind)
        BY <2>1, <2>2 DEF FrameInv
      <3>. QED
        BY <1>1, <2>2, <3>1 DEF Promises, Committed, HasIntent, Pending
    <2>3. ~(h.pc \in CreateSteps /\ h.s = s)
      BY <1>1 DEF Promises, Roles
    <2>4. CASE HandlerStep
      <3>1. CASE CreateNative \/ CreateStart \/ CreateUndo \/ RunNative \/ StopNative
        <4>1. h.s \in Sandboxes /\ owned' = owned
          BY <2>1, <3>1
          DEF CreateNative, CreateStart, CreateUndo, RunNative, StopNative, FrameInv,
              IntentSteps, CreateSteps, RunSteps, StopSteps, dbVars
        <4>2. s # h.s => ctr'[s] = ctr[s]
          BY <2>1, <3>1, <4>1, NativeCallShape
          DEF CreateNative, CreateStart, CreateUndo, RunNative, StopNative, HalfRestart
        <4>3. s = h.s => RunNative \/ StopNative
          BY <2>3, <3>1 DEF CreateNative, CreateStart, CreateUndo, CreateSteps
        <4>4. s = h.s /\ ctr[s] # "absent" => ctr'[s] # "absent"
          BY <2>1, <4>1, <4>3, NativeCallShape
          DEF RunNative, StopNative, HalfRestart, Stopped
        <4>. QED
          BY <1>1, <4>1, <4>2, <4>4
      <3>2. CASE RemoveNative
        <4>1. /\ h.s \in Sandboxes /\ owned' = owned
              /\ h.pc \in IntentSteps /\ h.kind = "delete"
          BY <2>1, <3>2 DEF RemoveNative, FrameInv, IntentSteps, RemoveSteps, dbVars
        <4>2. s # h.s => ctr'[s] = ctr[s]
          BY <2>1, <3>2, <4>1, NativeCallShape DEF RemoveNative
        <4>. QED
          BY <1>1, <2>2, <4>1, <4>2
      <3>3. CASE CreateForget
        BY <1>1, <2>3, <3>3 DEF CreateForget, DeleteOperation, DbFails, dbVars, CreateSteps
      <3>4. CASE RemoveDelete
        <4>1. h.pc \in IntentSteps /\ h.kind = "delete" /\ ctr' = ctr
          BY <2>1, <3>4 DEF RemoveDelete, FrameInv, IntentSteps, RemoveSteps
        <4>. QED
          BY <1>1, <2>2, <3>4, <4>1 DEF RemoveDelete, DeleteOperation, DbFails, dbVars
      <3>. QED
        BY <1>1, <2>4, <3>1, <3>2, <3>3, <3>4
        DEF HandlerStep, CreateBind, CreateCommit, CreateOwn, RunComplete, StopComplete,
            RetryOperation, ApiReturn, CreateReturn, RollbackReturn, BindCreation,
            CommitCreation, CreateOwnership, CompleteOperation, DbFails, dbVars
    <2>5. CASE RecoveryStep \/ Dispatch
      <3>1. CASE ReconcileNative
        <4>1. h.s \in Sandboxes /\ h.pc \in IntentSteps /\ owned' = owned
          BY <2>1, <3>1 DEF ReconcileNative, FrameInv, IntentSteps, ReconcileSteps, dbVars
        <4>2. s # h.s => ctr'[s] = ctr[s]
          BY <2>1, <3>1, <4>1, NativeCallShape DEF ReconcileNative
        <4>3. h.kind \notin {"create", "delete"} /\ ctr[h.s] # "absent"
                => ctr'[h.s] # "absent"
          BY <2>1, <3>1, <4>1, NativeCallShape DEF ReconcileNative, Stopped
        <4>. QED
          BY <1>1, <2>2, <4>1, <4>2, <4>3
      <3>2. CASE ReconcileCommit
        BY <1>1, <2>2, <3>2
        DEF ReconcileCommit, DeleteOperation, CompleteOperation, DbFails, dbVars,
            IntentSteps, ReconcileSteps
      <3>. QED
        BY <1>1, <2>5, <3>1, <3>2
        DEF RecoveryStep, LockedRecoveryStep, JobRuns, OpJobRuns, TtlJobRuns,
            OpJobReturn, TtlCheck, TtlReconciled, TtlStop, TtlReturn, WorkerSettles,
            Dispatch, DispatchOp, DispatchTtl, BeginStop, BeginOperation, dbVars
    <2>6. CASE BootStep \/ ShutdownStep \/ Environment \/ UNCHANGED vars
      <3>1. CASE Tick
        BY <1>1, <3>1 DEF Tick
      <3>2. ASSUME NEW t \in Sandboxes, ContainerExits(t) \/ ContainerVanishes(t)
            PROVE  ByDelete(s)
        BY <1>1, <3>2 DEF ContainerExits, ContainerVanishes, dbVars
      <3>. QED
        BY <1>1, <2>6, <3>1, <3>2
        DEF BootStep, Recover, RecoverReturn, RecoverEnds, RecoverAborts, RecoverIntent,
            RecoverOverdue, ShutdownStep, ShutdownLock, ShutdownSandbox,
            ShutdownReconciled, ShutdownReturn, ShutdownEnds, Environment, Crash,
            ShutdownQueue, WorkerTimesOut, TimerFires, ProcessEnds, BeginStop,
            BeginOperation, dbVars, vars
    <2>7. ASSUME NEW t \in Sandboxes, ServiceStep(t) \/ Request(t)
          PROVE  ByDelete(s)
      BY <1>1, <2>1, <2>7
      DEF ServiceStep, Adopt, AdoptProvenance, AdoptFails, PortsRejected, Acknowledge,
          Rollback, RollbackRefused, Request, CreateBegin, BeginCreate, StartBegin,
          RestartBegin, StopBegin, RemoveBegin, BeginStop, BeginRemove, BeginOperation,
          Pause, Resume, RenewExpiration, SetDeadline, dbVars
    <2>. QED
      BY <1>1, <2>4, <2>5, <2>6, <2>7 DEF Next
  <1>2. Promises /\ [Next]_vars
          => [\A s \in Sandboxes :
                /\ svc[s] = "acked"
                /\ \/ s \in owned /\ s \notin owned'
                   \/ ctr[s] # "absent" /\ ctr'[s] = "absent" /\ h' # h
                => \E o \in Pending(s) : o.kind = "delete"]_vars
    BY <1>1
  <1>. QED
    BY <1>2, PromisesEver, PTL DEF Spec, AckedGoesByDelete

\* A TTL job that a renewal, a restart or a crash has overtaken stops nothing:
\* whenever expiration stops a container, its persisted deadline is over.
THEOREM TtlStopsOnlyOverdueEver == Spec => TtlStopsOnlyOverdue
  <1>1. ASSUME Promises, NEW s \in Sandboxes, h.by = "ttl", StopsForExpiry(s)
        PROVE  deadline[s] = 0
    <2>1. deadline[s] <= 0 /\ deadline[s] \in Deadlines
      BY <1>1
      DEF Promises, Dated, FrameDated, StopsForExpiry, Inv, Core, DbInv, DbTypeOK
    <2>2. HasIntent(h.id, s, "stop")
      BY <1>1
      DEF Promises, Inv, Core, FrameInv, StopsForExpiry, IntentSteps, StopSteps
    <2>3. s \in owned /\ \A o \in Pending(s) : o.kind = "stop"
      BY <1>1, <2>2
      DEF Promises, Inv, Core, DbInv, StartupNeverWedged, ValidOperation, OneIntent,
          HasIntent, Pending
    <2>4. deadline[s] # NoDeadline
      BY <1>1, <2>3 DEF Promises, Dated, LiveDated, StopsForExpiry, RunKinds
    <2>. QED
      BY <2>1, <2>4, OwnershipAssumption DEF Deadlines, NoDeadline
  <1>2. Promises =>
          [\A s \in Sandboxes : h.by = "ttl" /\ StopsForExpiry(s) => deadline[s] = 0]_vars
    BY <1>1
  <1>. QED
    BY <1>2, PromisesEver, PTL DEF TtlStopsOnlyOverdue

\* No intent waits for the next restart: while the server serves and the lock is
\* free, each has a retry job or a service call that will adopt or compensate it.
THEOREM IntentIsDrivenEver == Spec => []IntentIsDriven
  <1>1. Promises => IntentIsDriven
    BY DEF Promises, Driven, OpenUp, IntentIsDriven, ServiceDrives, FrameDrives,
           DrivingSteps, IntentSteps, CreateSteps, RunSteps, StopSteps, RemoveSteps,
           ReconcileSteps
  <1>. QED
    BY <1>1, PromisesEver, PTL

\* No fault and no interleaving lets a sandbox run for ever: with nothing pending
\* it has a persisted deadline, and while the server serves an armed timer.
THEOREM RunsOnATimerEver == Spec => []RunsOnATimer
  <1>1. ASSUME Promises, up = "serving", h.pc = "idle", NEW s \in Sandboxes,
               ctr[s] \in Live, RequireIdle(s)
        PROVE  deadline[s] # NoDeadline /\ timer[s] # NoTimer
    BY <1>1
    DEF Promises, Dated, LiveDated, Timed, Covered, OpenUp, RequireIdle
  <1>2. Promises => RunsOnATimer
    BY <1>1 DEF RunsOnATimer
  <1>. QED
    BY <1>2, PromisesEver, PTL
=============================================================================
