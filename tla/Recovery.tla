------------------------------- MODULE Recovery -------------------------------
(***************************************************************************)
(* How the Docker client finishes what a handler could not: the retry      *)
(* queue (runtimeio/recovery.go), reconcile, the TTL timers, Recover at    *)
(* startup and Shutdown (internal/docker/recovery.go, lifecycle.go).       *)
(***************************************************************************)
EXTENDS Handlers

-----------------------------------------------------------------------------
(* reconcile: called by a job, a TTL expiration, Recover and Shutdown.     *)

BeginReconcile(caller, op) == h' = Frame(caller, "reconcile.native", op)

\* A start is observed, never repeated.
ReconcileNative ==
  /\ h.pc = "reconcile.native"
  /\ \/ /\ h.kind \in {"create", "delete"}
        /\ NativeCall("absent", "reconcile.commit", "reconcile.ret")
     \/ /\ h.kind = "stop"
        /\ NativeCall(Stopped(ctr[h.s]), "reconcile.commit", "reconcile.ret")
     \/ /\ h.kind \in {"start", "restart"}
        /\ UNCHANGED ctr
        /\ \/ /\ h' = [h EXCEPT !.pc = "reconcile.commit",
                                !.saw = ctr[h.s] \in Live]
              /\ UNCHANGED faults
           \/ Fault /\ h' = [h EXCEPT !.pc = "reconcile.ret", !.res = "err"]
     \/ DbFails("reconcile.ret") /\ UNCHANGED ctr
  /\ UNCHANGED <<dbVars, memVars, svc, up>>

\* Retire the intent, then settle the timer.
ReconcileCommit ==
  /\ h.pc = "reconcile.commit"
  /\ \/ /\ h.kind \in {"create", "delete"}
        /\ DeleteOperation(h.s, h.id)
        /\ CancelTimer(h.s)
        /\ Goto("reconcile.ret") /\ UNCHANGED faults
     \/ /\ h.kind = "stop" \/ (h.kind \in {"start", "restart"} /\ ~h.saw)
        /\ CompleteOperation(h.s, h.id, NoDeadline)
        /\ CancelTimer(h.s)
        /\ Goto("reconcile.ret") /\ UNCHANGED faults
     \/ /\ h.kind \in {"start", "restart"} /\ h.saw
        /\ CompleteOperation(h.s, h.id, h.dl)
        /\ ScheduleDeadline(h.s, h.dl)
        /\ Goto("reconcile.ret") /\ UNCHANGED faults
     \/ DbFails("reconcile.ret") /\ UNCHANGED timer
  /\ UNCHANGED <<ctr, opJobs, ttlJobs, worker, attempt, sweep, svc, up>>

-----------------------------------------------------------------------------
(* The retry queue: one attempt at a time, a failed job stays registered.  *)

DispatchOp(id) ==
  /\ QueueOpen /\ worker = NoWorker
  /\ id \in opJobs
  /\ worker' = [NoWorker EXCEPT !.job = "op", !.id = id, !.res = "run"]
  /\ UNCHANGED <<dbVars, ctr, timer, opJobs, ttlJobs, attempt, sweep, svc, up, h, faults>>

DispatchTtl(s, e) ==
  /\ QueueOpen /\ worker = NoWorker
  /\ <<s, e>> \in ttlJobs
  /\ worker' = [NoWorker EXCEPT !.job = "ttl", !.s = s, !.entry = e, !.res = "run"]
  /\ UNCHANGED <<dbVars, ctr, timer, opJobs, ttlJobs, attempt, sweep, svc, up, h, faults>>

WorkerEnds(res) == worker' = [worker EXCEPT !.res = res]

\* The budget ends while another holds the lock, or Stop has cancelled it.
WorkerTimesOut ==
  /\ worker.res = "run"
  /\ \/ ~QueueOpen /\ UNCHANGED faults
     \/ h.pc # "idle" /\ Fault
  /\ WorkerEnds("err")
  /\ UNCHANGED <<dbVars, ctr, timer, opJobs, ttlJobs, attempt, sweep, svc, up, h>>

WorkerLocks == worker.res = "run" /\ h.pc = "idle" /\ up = "serving"

\* Under the lock the job reads its own intent again, by ID.
OpJobRuns ==
  /\ worker.job = "op" /\ WorkerLocks
  /\ \/ /\ FindOperation(worker.id) = {} /\ WorkerEnds("ok")
        /\ UNCHANGED <<h, faults>>
     \/ Fault /\ WorkerEnds("err") /\ UNCHANGED h
     \/ /\ \E op \in FindOperation(worker.id) : BeginReconcile("job", op)
        /\ WorkerEnds("locked")
        /\ UNCHANGED faults
  /\ UNCHANGED <<dbVars, ctr, timer, opJobs, ttlJobs, attempt, sweep, svc, up>>

OpJobReturn ==
  /\ h.pc = "reconcile.ret" /\ h.by = "job"
  /\ h' = Idle
  /\ WorkerEnds(IF h.res = "ok" THEN "ok" ELSE "err")
  /\ attempt' = IF h.res = "ok" /\ h.kind \in {"create", "delete"}
                THEN [attempt EXCEPT ![h.s] = 0] ELSE attempt
  /\ UNCHANGED <<dbVars, ctr, timer, opJobs, ttlJobs, sweep, svc, up, faults>>

\* Defect: the queue forgets a job whatever it returned.
WorkerForgets ==
  /\ worker.res \in {"ok", "err"}
  /\ worker' = NoWorker
  /\ opJobs' = opJobs \ {worker.id}
  /\ ttlJobs' = ttlJobs \ {<<worker.s, worker.entry>>}
  /\ UNCHANGED <<dbVars, ctr, timer, attempt, sweep, svc, up, h, faults>>

\* The queue forgets a job that returned no error.
WorkerSettles ==
  /\ worker.res \in {"ok", "err"}
  /\ worker' = NoWorker
  /\ IF worker.res = "ok"
     THEN /\ opJobs' = opJobs \ {worker.id}
          /\ ttlJobs' = ttlJobs \ {<<worker.s, worker.entry>>}
     ELSE UNCHANGED <<opJobs, ttlJobs>>
  /\ UNCHANGED <<dbVars, ctr, timer, attempt, sweep, svc, up, h, faults>>

-----------------------------------------------------------------------------
(* Expiration: the timer's goroutine registers a job keyed by its entry.   *)
(* At the bound MaxEntries it waits until an older job is done.            *)

TimerFires(s) ==
  LET e == timer[s].entry IN
  /\ e # 0 /\ timer[s].dl = 0
  /\ QueueOpen
  /\ <<s, e>> \notin ttlJobs
  /\ Entries \ (EntriesOf(s) \cup {e}) # {}
  /\ ttlJobs' = ttlJobs \cup {<<s, e>>}
  /\ UNCHANGED <<dbVars, ctr, timer, opJobs, worker, attempt, sweep, svc, up, h, faults>>

\* A replaced or cancelled timer finds another entry, and does nothing.  At
\* the bound MaxOps the job is put off, as if its budget had ended.
TtlJobRuns ==
  /\ worker.job = "ttl" /\ WorkerLocks
  /\ CASE timer[worker.s].entry # worker.entry -> WorkerEnds("ok") /\ UNCHANGED h
       [] timer[worker.s].entry = worker.entry /\ HasFreshOp ->
            /\ WorkerEnds("locked")
            /\ h' = [Idle EXCEPT !.by = "ttl", !.pc = "ttl.check", !.s = worker.s]
       [] OTHER -> WorkerEnds("err") /\ UNCHANGED h
  /\ UNCHANGED <<dbVars, ctr, timer, opJobs, ttlJobs, attempt, sweep, svc, up, faults>>

TtlEnds == h' = Idle /\ WorkerEnds("ok")

\* Defect: a failed expiration is not tried again.
TtlGivesUp == CancelTimer(h.s) /\ TtlEnds

\* Something failed: the expired deadline is tried again after a delay.
TtlRetries == ScheduleDeadline(h.s, 0) /\ TtlEnds

\* reconcileResource: finish what is pending; a creation is left alone.
TtlCheck ==
  /\ h.pc = "ttl.check"
  /\ \/ /\ Pending(h.s) = {} /\ Goto("ttl.stop")
        /\ UNCHANGED <<timer, worker, faults>>
     \/ \E op \in Pending(h.s) :
          /\ op.kind # "create"
          /\ BeginReconcile("ttl", op)
          /\ UNCHANGED <<timer, worker, faults>>
     \/ /\ \E op \in Pending(h.s) : op.kind = "create"
        /\ TtlRetries /\ UNCHANGED faults
     \/ Fault /\ TtlRetries
  /\ UNCHANGED <<dbVars, ctr, opJobs, ttlJobs, attempt, sweep, svc, up>>

TtlReconciled ==
  /\ h.pc = "reconcile.ret" /\ h.by = "ttl"
  /\ CASE h.res # "ok" -> TtlRetries
       [] h.res = "ok" /\ timer[h.s] = NoTimer -> TtlEnds /\ UNCHANGED timer
       [] OTHER -> Goto("ttl.stop") /\ UNCHANGED <<timer, worker>>
  /\ UNCHANGED <<dbVars, ctr, opJobs, ttlJobs, attempt, sweep, svc, up, faults>>

\* Defect: the persisted deadline is not read again before the stop.
TtlStopUnchecked ==
  /\ h.pc = "ttl.stop"
  /\ \/ /\ h.s \notin owned
        /\ CancelTimer(h.s) /\ TtlEnds
        /\ UNCHANGED <<dbVars, faults>>
     \/ /\ h.s \in owned
        /\ HasFreshOp /\ BeginStop("ttl", h.s)
        /\ UNCHANGED <<timer, worker, faults>>
  /\ UNCHANGED <<ctr, opJobs, ttlJobs, attempt, sweep, svc, up>>

\* A deadline that was renewed meanwhile is awaited; otherwise stopLocked.
TtlStop ==
  /\ h.pc = "ttl.stop"
  /\ \/ /\ h.s \notin owned
        /\ CancelTimer(h.s) /\ TtlEnds
        /\ UNCHANGED <<dbVars, faults>>
     \/ /\ h.s \in owned /\ deadline[h.s] > 0
        /\ ScheduleDeadline(h.s, deadline[h.s]) /\ TtlEnds
        /\ UNCHANGED <<dbVars, faults>>
     \/ /\ h.s \in owned /\ deadline[h.s] <= 0
        /\ HasFreshOp /\ BeginStop("ttl", h.s)
        /\ UNCHANGED <<timer, worker, faults>>
     \/ Fault /\ TtlRetries /\ UNCHANGED dbVars
  /\ UNCHANGED <<ctr, opJobs, ttlJobs, attempt, sweep, svc, up>>

TtlReturn ==
  /\ h.pc = "ret" /\ h.by = "ttl"
  /\ IF h.res = "ok" THEN CancelTimer(h.s) /\ TtlEnds ELSE TtlRetries
  /\ UNCHANGED <<dbVars, ctr, opJobs, ttlJobs, attempt, sweep, svc, up, faults>>

-----------------------------------------------------------------------------
(* Recover, before the listener opens.  Every intent and every deadline is *)
(* registered first; the rows' deadlines are read here, once.  sweep.rows  *)
(* are the rows that are overdue in that snapshot: the warm-up lasts one   *)
(* second, which is less than a tick.                                      *)

SweepFrame(caller, pc) == [Idle EXCEPT !.by = caller, !.pc = pc]

Recover ==
  /\ up = "down"
  /\ \A op \in ops : ValidOperation(op)
  /\ up' = "boot"
  /\ h' = SweepFrame("boot", "boot")
  /\ opJobs' = {op.id : op \in ops}
  /\ timer' = [s \in Sandboxes |->
       LET late == {op \in Pending(s) : op.kind # "create" /\ op.dl # NoDeadline}
           dl == IF s \in owned /\ deadline[s] # NoDeadline THEN deadline[s]
                 ELSE IF late # {} THEN (CHOOSE op \in late : TRUE).dl
                 ELSE NoDeadline
       IN IF dl = NoDeadline THEN NoTimer ELSE [entry |-> 1, dl |-> dl]]
  /\ sweep' = [ops |-> {op.id : op \in ops},
               rows |-> {s \in owned : deadline[s] = 0}]
  /\ UNCHANGED <<dbVars, ctr, ttlJobs, worker, attempt, svc, faults>>

RecoverIntent(id) ==
  /\ h.pc = "boot" /\ id \in sweep.ops
  /\ \E op \in FindOperation(id) : BeginReconcile("boot", op)
  /\ sweep' = [sweep EXCEPT !.ops = @ \ {id}]
  /\ UNCHANGED <<dbVars, ctr, timer, opJobs, ttlJobs, worker, attempt, svc, up, faults>>

\* An overdue row with nothing pending is stopped; a row that is gone, or
\* that has an intent by now, is passed over.
RecoverOverdue(s) ==
  /\ h.pc = "boot" /\ sweep.ops = {} /\ s \in sweep.rows
  /\ sweep' = [sweep EXCEPT !.rows = @ \ {s}]
  /\ IF RequireIdle(s)
     THEN HasFreshOp /\ BeginStop("boot", s)
     ELSE UNCHANGED <<ops, owned, deadline, h>>
  /\ UNCHANGED <<ctr, timer, opJobs, ttlJobs, worker, attempt, svc, up, faults>>

\* Native errors are deferred to the queue; a database error ends the start.
RecoverReturn ==
  /\ h.pc \in {"ret", "reconcile.ret"} /\ h.by = "boot" /\ h.res # "fatal"
  /\ h' = SweepFrame("boot", "boot")
  /\ UNCHANGED <<dbVars, ctr, memVars, svc, up, faults>>

\* Everything was visited, or the warm-up budget is spent: listen.
RecoverEnds ==
  /\ h.pc = "boot"
  /\ up' = "serving"
  /\ h' = Idle
  /\ sweep' = NoSweep
  /\ UNCHANGED <<dbVars, ctr, timer, opJobs, ttlJobs, worker, attempt, svc, faults>>

-----------------------------------------------------------------------------
(* Shutdown: the queue stops first, then the lock is taken for good.       *)

ShutdownQueue ==
  /\ up = "serving"
  /\ Fault
  /\ up' = "draining"
  /\ opJobs' = {} /\ ttlJobs' = {}
  /\ UNCHANGED <<dbVars, ctr, timer, worker, attempt, sweep, svc, h>>

ShutdownLock ==
  /\ up = "draining" /\ h.pc = "idle"
  /\ up' = "closing"
  /\ h' = SweepFrame("shutdown", "shutdown")
  /\ sweep' = [ops |-> {}, rows |-> {s \in Sandboxes : timer[s] # NoTimer}]
  /\ UNCHANGED <<dbVars, ctr, timer, opJobs, ttlJobs, worker, attempt, svc, faults>>

\* cancelTimer and stopForShutdown for one tracked sandbox.
ShutdownSandbox(s) ==
  /\ h.pc = "shutdown" /\ s \in sweep.rows
  /\ sweep' = [sweep EXCEPT !.rows = @ \ {s}]
  /\ CancelTimer(s)
  /\ \/ \E op \in Pending(s) :
          op.kind # "create" /\ BeginReconcile("shutdown", op) /\ UNCHANGED dbVars
     \/ RequireIdle(s) /\ HasFreshOp /\ BeginStop("shutdown", s)
     \/ ~RequireIdle(s) /\ (\A op \in Pending(s) : op.kind = "create")
        /\ UNCHANGED <<dbVars, h>>
  /\ UNCHANGED <<ctr, opJobs, ttlJobs, worker, attempt, svc, up, faults>>

\* After a successful reconciliation the sandbox is stopped as well.
ShutdownReconciled ==
  /\ h.pc = "reconcile.ret" /\ h.by = "shutdown"
  /\ IF h.res = "ok" /\ h.s \in owned
     THEN HasFreshOp /\ BeginStop("shutdown", h.s)
     ELSE h' = SweepFrame("shutdown", "shutdown") /\ UNCHANGED dbVars
  /\ UNCHANGED <<ctr, memVars, svc, up, faults>>

ShutdownReturn ==
  /\ h.pc = "ret" /\ h.by = "shutdown"
  /\ h' = SweepFrame("shutdown", "shutdown")
  /\ UNCHANGED <<dbVars, ctr, memVars, svc, up, faults>>

\* The process ends: memory is gone, an unanswered creation has failed.
ProcessEnds ==
  /\ up' = "down"
  /\ h' = Idle
  /\ timer' = [s \in Sandboxes |-> NoTimer]
  /\ opJobs' = {} /\ ttlJobs' = {}
  /\ worker' = NoWorker
  /\ attempt' = [s \in Sandboxes |-> 0]
  /\ sweep' = NoSweep
  /\ svc' = [s \in Sandboxes |->
               IF svc[s] \in {"none", "acked"} THEN svc[s] ELSE "failed"]
  /\ UNCHANGED <<dbVars, ctr>>

ShutdownEnds ==
  /\ h.pc = "shutdown" /\ sweep.rows = {}
  /\ ProcessEnds /\ UNCHANGED faults

\* Recover gives up on a database error and the process exits.
RecoverAborts ==
  /\ h.pc \in {"ret", "reconcile.ret"} /\ h.by = "boot" /\ h.res = "fatal"
  /\ ProcessEnds /\ UNCHANGED faults

\* A kill between any two steps, a shutdown past its deadline included.
Crash == up # "down" /\ Fault /\ ProcessEnds
=============================================================================
