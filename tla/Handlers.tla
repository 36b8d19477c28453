------------------------------- MODULE Handlers -------------------------------
(***************************************************************************)
(* The lifecycle handlers of the Docker client (internal/docker/           *)
(* lifecycle.go): Create, Start, Restart, Stop, Remove, Pause, Resume and  *)
(* RenewExpiration.  lifecycleMu serialises them, so the handler in flight *)
(* is one frame h; h.pc names the next native call or transaction.  Each   *)
(* native call and each transaction is an action, and a crash may come     *)
(* between any two.  Memory changes that follow a step belong to it: the   *)
(* lock hides them, and a crash loses them.                                *)
(***************************************************************************)
EXTENDS Ownership

CONSTANTS
  DefaultTtl,     \* default timeout of Start and Restart, in ticks
  MaxEntries,     \* bound: expiration timers of a sandbox referenced at once
  MaxFaults,      \* bound: faults in a behaviour, when CountFaults
  CountFaults,    \* FALSE: faults are unlimited and not counted
  Requests,       \* bound: the requests that clients make
  Nobody          \* the sandbox of a frame that works on none

ASSUME HandlersAssumption ==
  /\ DefaultTtl \in 1 .. MaxTtl
  /\ MaxEntries \in Nat \ {0}
  /\ MaxFaults \in Nat
  /\ CountFaults \in BOOLEAN
  /\ Requests \subseteq {"create", "start", "restart", "stop", "remove", "pause",
                         "resume", "renew"}
  /\ Nobody \notin Sandboxes

VARIABLES
  ctr,            \* the managed container of each attempt, as Docker has it
  timer,          \* Client.timers: entry 0 when there is none
  opJobs,         \* RecoveryQueue.jobs keyed by operation ID
  ttlJobs,        \* RecoveryQueue.jobs keyed by "ttl:" sandbox and entry
  worker,         \* the recovery attempt in progress
  attempt,        \* Client.createAttempts: the creation's operation ID, or 0
  svc,            \* how far service.Create got with each attempt
  up,             \* the phase of the server process
  h,              \* the frame that holds lifecycleMu
  sweep,          \* what Recover or Shutdown still has to visit
  faults

memVars == <<timer, opJobs, ttlJobs, worker, attempt, sweep>>
vars == <<dbVars, ctr, memVars, svc, up, h, faults>>

\* Defect: a paused container is taken for a stopped one.
OnlyRunning == {"running"}

Live == {"running", "paused"}     \* Docker reports both as State.Running
Entries == 1 .. MaxEntries
NoTimer == [entry |-> 0, dl |-> 0]
NoSweep == [ops |-> {}, rows |-> {}]
NoWorker == [job |-> "none", id |-> 0, s |-> Nobody, entry |-> 0, res |-> "none"]
Idle == [by |-> "none", pc |-> "idle", s |-> Nobody, id |-> 0, kind |-> "none",
         dl |-> NoDeadline, res |-> "none", saw |-> FALSE]

\* A handler called by caller on behalf of s, holding a copy of intent op.
Frame(caller, pc, op) ==
  [by |-> caller, pc |-> pc, s |-> op.s, id |-> op.id, kind |-> op.kind,
   dl |-> op.dl, res |-> "ok", saw |-> FALSE]

-----------------------------------------------------------------------------
(* Fresh identities.  Operation IDs are random and timer entries are       *)
(* pointers: a number may come back once nothing refers to it any more.    *)

UsedOps == {o.id : o \in ops} \cup opJobs \cup {worker.id}
             \cup {attempt[s] : s \in Sandboxes}
FreshOps == OpIds \ UsedOps
NewOp == CHOOSE id \in OpIds : id \notin UsedOps
HasFreshOp == FreshOps # {}

EntriesOf(s) == {e \in Entries : <<s, e>> \in ttlJobs}
                  \cup (IF worker.s = s THEN {worker.entry} ELSE {})
NewEntry(s) == CHOOSE e \in Entries : e \notin EntriesOf(s)

-----------------------------------------------------------------------------
(* Memory: timers and the retry queue.                                     *)

ScheduleDeadline(s, dl) ==
  timer' = [timer EXCEPT ![s] =
              [entry |-> NewEntry(s), dl |-> IF dl > 0 THEN dl ELSE 0]]

CancelTimer(s) == timer' = [timer EXCEPT ![s] = NoTimer]

\* RecoveryQueue.Schedule: a known key is left alone, and after Stop the
\* queue takes nothing.
QueueOpen == up \in {"boot", "serving"}

\* Defect: a queue that is busy takes no further job.
QueueWhenEmpty(id) ==
  opJobs' = IF QueueOpen /\ id # 0 /\ opJobs = {} THEN {id} ELSE opJobs

\* Defect: an attempt that has no operation ID any more is queued like another.
QueueUnchecked(id) == opJobs' = IF QueueOpen THEN opJobs \cup {id} ELSE opJobs

QueueOperation(id) ==
  opJobs' = IF QueueOpen /\ id # 0 THEN opJobs \cup {id} ELSE opJobs

\* lockLifecycle: the lock is free and the client is not closing.
CanLock == h.pc = "idle" /\ up \in {"serving", "draining"}

-----------------------------------------------------------------------------
(* Faults.                                                                 *)

Fault == /\ CountFaults => faults < MaxFaults
         /\ faults' = IF CountFaults THEN faults + 1 ELSE faults

\* A native call that makes container h.s eff, with the ownership check and
\* the inspection before it: it succeeds, it fails before it has an effect, or
\* it has its effect and the response is lost.  A missing container is no
\* error to a stop or a removal.
NativeCall(eff, okPc, errPc) ==
  \/ /\ ctr' = [ctr EXCEPT ![h.s] = eff]
     /\ h' = [h EXCEPT !.pc = okPc]
     /\ UNCHANGED faults
  \/ /\ Fault
     /\ ctr' \in {ctr, [ctr EXCEPT ![h.s] = eff]}
     /\ h' = [h EXCEPT !.pc = errPc, !.res = "err"]

\* The database refuses or fails a read or a transaction.
DbFails(errPc) ==
  /\ Fault
  /\ h' = [h EXCEPT !.pc = errPc, !.res = "fatal"]
  /\ UNCHANGED dbVars

Goto(pc) == h' = [h EXCEPT !.pc = pc]

-----------------------------------------------------------------------------
(* Create.                                                                 *)

CreateBegin(s, ttl) ==
  /\ CanLock /\ HasFreshOp
  /\ svc[s] = "none"
  /\ BeginCreate(s, NewOp, ttl)
  /\ h' = Frame("create", "create.native",
                [id |-> NewOp, kind |-> "create", s |-> s, dl |-> ttl])
  /\ svc' = [svc EXCEPT ![s] = "creating"]
  /\ UNCHANGED <<ctr, memVars, up, faults>>

\* On an error the intent stays: the container may exist all the same.
CreateNative ==
  /\ h.pc = "create.native"
  /\ NativeCall("stopped", "create.bind", "retry")
  /\ UNCHANGED <<dbVars, memVars, svc, up>>

CreateBind ==
  /\ h.pc = "create.bind"
  /\ \/ BindCreation(h.id) /\ Goto("create.start") /\ UNCHANGED faults
     \/ DbFails("create.undo")
  /\ UNCHANGED <<ctr, memVars, svc, up>>

\* ContainerStart and the inspection of the assigned ports.
CreateStart ==
  /\ h.pc = "create.start"
  /\ IF ctr[h.s] = "absent"
     THEN Goto("create.undo") /\ UNCHANGED <<ctr, faults>>
     ELSE NativeCall("running", "create.commit", "create.undo")
  /\ UNCHANGED <<dbVars, memVars, svc, up>>

CreateCommit ==
  /\ h.pc = "create.commit"
  /\ \/ /\ CommitCreation(h.s, h.dl)
        /\ attempt' = [attempt EXCEPT ![h.s] = h.id]
        /\ ScheduleDeadline(h.s, h.dl)
        /\ svc' = [svc EXCEPT ![h.s] = "created"]
        /\ h' = Idle
        /\ UNCHANGED <<opJobs, faults>>
     \/ /\ DbFails("create.undo")
        /\ UNCHANGED <<timer, opJobs, attempt, svc>>
  /\ UNCHANGED <<ctr, ttlJobs, worker, sweep, up>>

\* Defect: the creation is forgotten although the removal failed.
UndoRegardless ==
  /\ h.pc = "create.undo"
  /\ NativeCall("absent", "create.forget", "create.forget")
  /\ CancelTimer(h.s)
  /\ UNCHANGED <<dbVars, opJobs, ttlJobs, worker, attempt, sweep, svc, up>>

\* The deferred rollback: remove the container, then forget the intent, or
\* keep an owner for what could not be removed.
CreateUndo ==
  /\ h.pc = "create.undo"
  /\ NativeCall("absent", "create.forget", "create.own")
  /\ CancelTimer(h.s)
  /\ UNCHANGED <<dbVars, opJobs, ttlJobs, worker, attempt, sweep, svc, up>>

CreateForget ==
  /\ h.pc = "create.forget"
  /\ \/ DeleteOperation(h.s, h.id) /\ Goto("retry") /\ UNCHANGED faults
     \/ DbFails("retry")
  /\ UNCHANGED <<ctr, memVars, svc, up>>

CreateOwn ==
  /\ h.pc = "create.own"
  /\ \/ CreateOwnership(h.s, h.dl) /\ Goto("retry") /\ UNCHANGED faults
     \/ DbFails("retry")
  /\ UNCHANGED <<ctr, memVars, svc, up>>

-----------------------------------------------------------------------------
(* Start and Restart: from the native call on they are the same.           *)

StartBegin(s) ==
  /\ CanLock /\ HasFreshOp
  /\ ctr[s] = "stopped"
  /\ \E op \in Begun(s, "start", NewOp, DefaultTtl) :
       BeginOperation(op) /\ h' = Frame("api", "run.native", op)
  /\ UNCHANGED <<ctr, memVars, svc, up, faults>>

RestartBegin(s) ==
  /\ CanLock /\ HasFreshOp
  /\ \E op \in Begun(s, "restart", NewOp, DefaultTtl) :
       BeginOperation(op) /\ h' = Frame("api", "run.native", op)
  /\ UNCHANGED <<ctr, memVars, svc, up, faults>>

\* A restart may fail after it has stopped the container.
HalfRestart ==
  /\ Fault
  /\ ctr' = [ctr EXCEPT ![h.s] = "stopped"]
  /\ h' = [h EXCEPT !.pc = "retry", !.res = "err"]

\* The new deadline is scheduled before it is persisted.
RunNative ==
  /\ h.pc = "run.native"
  /\ IF ctr[h.s] = "absent"
     THEN Goto("retry") /\ UNCHANGED <<ctr, faults>>
     ELSE \/ NativeCall("running", "run.complete", "retry")
          \/ h.kind = "restart" /\ HalfRestart
  /\ IF h'.pc = "run.complete" THEN ScheduleDeadline(h.s, h.dl)
                               ELSE UNCHANGED timer
  /\ UNCHANGED <<dbVars, opJobs, ttlJobs, worker, attempt, sweep, svc, up>>

\* Inspect the ports, then persist ports and deadline with the intent's end.
RunComplete ==
  /\ h.pc = "run.complete"
  /\ \/ ctr[h.s] = "absent" /\ Goto("retry") /\ UNCHANGED <<dbVars, faults>>
     \/ /\ ctr[h.s] # "absent"
        /\ CompleteOperation(h.s, h.id, h.dl)
        /\ Goto("retry")
        /\ UNCHANGED faults
     \/ DbFails("retry")
  /\ UNCHANGED <<ctr, memVars, svc, up>>

-----------------------------------------------------------------------------
(* Stop: by the API, the TTL timer, Recover and Shutdown (stopLocked).     *)

\* Defect: the runtime removes a container that stops (AutoRemove).
RemovedOnStop(state) == IF state \in Live THEN "absent" ELSE state

\* Only a running container is stopped.
Stopped(state) == IF state \in Live THEN "stopped" ELSE state

BeginStop(caller, s) ==
  \E op \in Begun(s, "stop", NewOp, NoDeadline) :
    BeginOperation(op) /\ h' = Frame(caller, "stop.native", op)

StopBegin(s) ==
  /\ CanLock /\ HasFreshOp
  /\ BeginStop("api", s)
  /\ UNCHANGED <<ctr, memVars, svc, up, faults>>

StopNative ==
  /\ h.pc = "stop.native"
  /\ NativeCall(Stopped(ctr[h.s]), "stop.complete", "retry")
  /\ UNCHANGED <<dbVars, memVars, svc, up>>

StopComplete ==
  /\ h.pc = "stop.complete"
  /\ \/ /\ CompleteOperation(h.s, h.id, NoDeadline)
        /\ Goto("retry")
        /\ CancelTimer(h.s)
        /\ UNCHANGED faults
     \/ DbFails("retry") /\ UNCHANGED timer
  /\ UNCHANGED <<ctr, opJobs, ttlJobs, worker, attempt, sweep, svc, up>>

-----------------------------------------------------------------------------
(* Remove: by the API and by the service's rollback (DiscardCreated).      *)

BeginRemove(caller, s) ==
  \E op \in Begun(s, "delete", NewOp, NoDeadline) :
    BeginOperation(op) /\ h' = Frame(caller, "remove.native", op)

RemoveBegin(s) ==
  /\ CanLock /\ HasFreshOp
  /\ BeginRemove("api", s)
  /\ UNCHANGED <<ctr, memVars, svc, up, faults>>

RemoveNative ==
  /\ h.pc = "remove.native"
  /\ NativeCall("absent", "remove.delete", "retry")
  /\ IF h'.pc = "remove.delete" THEN CancelTimer(h.s) ELSE UNCHANGED timer
  /\ UNCHANGED <<dbVars, opJobs, ttlJobs, worker, attempt, sweep, svc, up>>

RemoveDelete ==
  /\ h.pc = "remove.delete"
  /\ \/ DeleteOperation(h.s, h.id) /\ Goto("retry") /\ UNCHANGED faults
     \/ DbFails("retry")
  /\ UNCHANGED <<ctr, memVars, svc, up>>

-----------------------------------------------------------------------------
(* Pause, Resume and RenewExpiration have no intent.                       *)

Pause(s) ==
  /\ CanLock /\ RequireIdle(s)
  /\ ctr[s] = "running"
  /\ ctr' = [ctr EXCEPT ![s] = "paused"]
  /\ UNCHANGED <<dbVars, memVars, svc, up, h, faults>>

Resume(s) ==
  /\ CanLock /\ RequireIdle(s)
  /\ ctr[s] = "paused"
  /\ ctr' = [ctr EXCEPT ![s] = "running"]
  /\ UNCHANGED <<dbVars, memVars, svc, up, h, faults>>

RenewExpiration(s, ttl) ==
  /\ CanLock
  /\ ctr[s] # "absent"
  /\ SetDeadline(s, ttl)
  /\ ScheduleDeadline(s, ttl)
  /\ UNCHANGED <<ctr, opJobs, ttlJobs, worker, attempt, sweep, svc, up, h, faults>>

-----------------------------------------------------------------------------
(* retryOperation, deferred by every handler that began an intent: keep    *)
(* what is still pending registered for recovery.  A failing read of the   *)
(* intent counts as pending.                                               *)

RetryOperation ==
  /\ h.pc = "retry"
  /\ Goto("ret")
  /\ \/ /\ up # "closing"
        /\ \/ FindOperation(h.id) # {} /\ UNCHANGED faults
           \/ Fault
        /\ IF h.kind # "create" /\ h.dl # NoDeadline /\ timer[h.s] = NoTimer
           THEN ScheduleDeadline(h.s, h.dl)
           ELSE UNCHANGED timer
        /\ QueueOperation(h.id)
     \/ /\ up = "closing" \/ FindOperation(h.id) = {}
        /\ UNCHANGED <<timer, opJobs, faults>>
  /\ UNCHANGED <<dbVars, ctr, ttlJobs, worker, attempt, sweep, svc, up>>

ApiReturn ==
  /\ h.pc = "ret" /\ h.by = "api"
  /\ h' = Idle
  /\ UNCHANGED <<dbVars, ctr, memVars, svc, up, faults>>

\* Create failed; a success returns from CreateCommit.
CreateReturn ==
  /\ h.pc = "ret" /\ h.by = "create"
  /\ h' = Idle
  /\ svc' = [svc EXCEPT ![h.s] = "failed"]
  /\ UNCHANGED <<dbVars, ctr, memVars, up, faults>>
=============================================================================
