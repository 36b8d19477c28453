---------------------------- MODULE AppleLifecycle ----------------------------
(***************************************************************************)
(* The sandbox lifecycle over the Apple Container client (internal/        *)
(* applecontainer).  It keeps the rows, intents, timers, retry queue and   *)
(* creation protocol of Lifecycle; what its code repeats is taken from     *)
(* there.  Its own are the creation in up to three attempts, a container   *)
(* whose ID is known before it exists, states that are not settled yet, a  *)
(* removal that is a reconciliation, and its shutdown.                     *)
(***************************************************************************)
EXTENDS Lifecycle

CONSTANT Attempts       \* container creations that one Create makes (3)

ASSUME AttemptsAssumption == Attempts \in Nat \ {0}

VARIABLE creation       \* the Create in progress: attempts made, timeout

appleVars == <<vars, creation>>

Unsettled == {"stopping", "unknown"}

-----------------------------------------------------------------------------
(* The container command line tool.                                        *)

\* lookup: the tool lists the container.  One that somebody else made is never
\* taken for it.
Listed(s) == ctr[s] # "absent"

\* A call that makes the container eff.  A failed one may also leave it on its
\* way there.
Cli(eff, onTheWay, okPc, errPc) ==
  \/ NativeCall(eff, okPc, errPc)
  \/ /\ Fault /\ ctr[h.s] # "absent"
     /\ ctr' = [ctr EXCEPT ![h.s] = onTheWay]
     /\ h' = [h EXCEPT !.pc = errPc, !.res = "err"]

CliDelete(okPc, errPc) == Cli("absent", "stopping", okPc, errPc)

CliStop(okPc, errPc) ==
  Cli(IF ctr[h.s] = "absent" THEN "absent" ELSE "stopped", "stopping", okPc, errPc)

\* A container that is gone cannot be started.
CliStart(okPc, errPc) ==
  \/ Listed(h.s) /\ Cli("running", "unknown", okPc, errPc)
  \/ /\ ~Listed(h.s)
     /\ h' = [h EXCEPT !.pc = errPc, !.res = "err"]
     /\ UNCHANGED <<ctr, faults>>

Unsettles(s) ==
  /\ ctr[s] = "running" /\ Fault
  /\ \E state \in Unsettled : ctr' = [ctr EXCEPT ![s] = state]
  /\ UNCHANGED <<dbVars, memVars, svc, up, h, creation>>

Settles(s) ==
  /\ \/ ctr[s] \in Unsettled /\ ctr' = [ctr EXCEPT ![s] = "stopped"]
     \/ ctr[s] = "unknown" /\ ctr' = [ctr EXCEPT ![s] = "running"]
  /\ UNCHANGED <<dbVars, memVars, svc, up, h, faults, creation>>

-----------------------------------------------------------------------------
(* Create.                                                                 *)

Create(s, ttl) ==
  /\ CreateBegin(s, ttl)
  /\ creation' = [tries |-> 1, ttl |-> ttl]

CreateContainer ==
  /\ h.pc = "create.native"
  /\ NativeCall("stopped", "create.start", "create.undo")
  /\ UNCHANGED <<dbVars, memVars, svc, up, creation>>

StartContainer ==
  /\ h.pc = "create.start"
  /\ CliStart("create.commit", "create.undo")
  /\ UNCHANGED <<dbVars, memVars, svc, up, creation>>

\* On an error of the database h.res is "fatal".
Commit == CreateCommit /\ UNCHANGED creation

\* Defect: what could not be removed is forgotten and the next attempt made.
RollbackRegardless ==
  /\ h.pc = "create.undo"
  /\ CliDelete("create.forget", "create.forget")
  /\ UNCHANGED <<dbVars, memVars, svc, up, creation>>

\* rollback.  What could not be removed gets a row beside its intent (Own).
RollBack ==
  /\ h.pc = "create.undo"
  /\ CliDelete("create.forget", "create.own")
  /\ UNCHANGED <<dbVars, memVars, svc, up, creation>>

Own == CreateOwn /\ UNCHANGED creation

\* Only a failure of the tool is tried again.
Forget ==
  /\ h.pc = "create.forget"
  /\ \/ /\ DeleteOperation(h.s, h.id)
        /\ Goto(IF h.res = "err" THEN "create.again" ELSE "retry")
        /\ UNCHANGED faults
     \/ DbFails("retry")
  /\ UNCHANGED <<ctr, memVars, svc, up, creation>>

\* A fresh ID, token and intent.  The deferred retryOperation of the attempt
\* before finds that its intent is gone.
Again(t) ==
  /\ h.pc = "create.again" /\ creation.tries < Attempts
  /\ svc[t] = "none" /\ HasFreshOp
  /\ BeginCreate(t, NewOp, creation.ttl)
  /\ h' = Frame("create", "create.native",
                [id |-> NewOp, kind |-> "create", s |-> t, dl |-> creation.ttl])
  /\ svc' = [svc EXCEPT ![h.s] = "failed", ![t] = "creating"]
  /\ creation' = [creation EXCEPT !.tries = @ + 1]
  /\ UNCHANGED <<ctr, memVars, up, faults>>

\* The attempts are used up, the image is not there offline, the request is
\* cancelled, or the database refuses the next intent.
GiveUp ==
  /\ h.pc = "create.again"
  /\ Goto("retry")
  /\ UNCHANGED <<dbVars, ctr, memVars, svc, up, faults, creation>>

-----------------------------------------------------------------------------
(* Start, Restart, Stop, Remove.  Stop and Remove do not ask whether the   *)
(* client is closing.                                                      *)

CanEnter == h.pc = "idle" /\ up \in {"serving", "draining", "closing"}

Start(s) ==
  /\ CanLock /\ HasFreshOp
  /\ Listed(s) /\ ctr[s] # "running"
  /\ \E op \in Begun(s, "start", NewOp, DefaultTtl) :
       BeginOperation(op) /\ h' = Frame("api", "run.native", op)
  /\ UNCHANGED <<ctr, memVars, svc, up, faults, creation>>

Restart(s) ==
  /\ CanLock /\ HasFreshOp
  /\ Listed(s)
  /\ \E op \in Begun(s, "restart", NewOp, DefaultTtl) :
       BeginOperation(op) /\ h' = Frame("api", "restart.stop", op)
  /\ UNCHANGED <<ctr, memVars, svc, up, faults, creation>>

RestartStop ==
  /\ h.pc = "restart.stop"
  /\ CliStop("run.native", "retry")
  /\ UNCHANGED <<dbVars, memVars, svc, up, creation>>

\* finishStart: the deadline is scheduled before it is persisted.
Run ==
  /\ h.pc = "run.native"
  /\ CliStart("run.complete", "retry")
  /\ IF h'.pc = "run.complete" THEN ScheduleDeadline(h.s, h.dl) ELSE UNCHANGED timer
  /\ UNCHANGED <<dbVars, opJobs, ttlJobs, worker, attempt, sweep, svc, up, creation>>

Complete == RunComplete /\ UNCHANGED creation

Stop(s) ==
  /\ CanEnter /\ HasFreshOp
  /\ BeginStop("api", s)
  /\ UNCHANGED <<ctr, memVars, svc, up, faults, creation>>

\* stopLocked: a container that is gone or stopped is left alone.
StopRunning ==
  /\ h.pc = "stop.native"
  /\ IF ctr[h.s] = "stopped" THEN Goto("stop.complete") /\ UNCHANGED <<ctr, faults>>
                             ELSE CliStop("stop.complete", "retry")
  /\ UNCHANGED <<dbVars, memVars, svc, up, creation>>

StopDone == StopComplete /\ UNCHANGED creation

Renew(s, ttl) == RenewExpiration(s, ttl) /\ UNCHANGED creation

Delete(caller, s) ==
  \E op \in Begun(s, "delete", NewOp, NoDeadline) :
    BeginOperation(op) /\ BeginReconcile(caller, op)

Remove(s) ==
  /\ CanEnter /\ HasFreshOp
  /\ Delete("api", s)
  /\ UNCHANGED <<ctr, memVars, svc, up, faults, creation>>

\* The service's compensation removes the sandbox in the same way.
Compensate(s) ==
  /\ svc[s] = "undo" /\ CanEnter /\ HasFreshOp
  /\ Delete("rollback", s)
  /\ svc' = [svc EXCEPT ![s] = "undoing"]
  /\ UNCHANGED <<ctr, memVars, up, faults, creation>>

\* Defect: Remove does not defer retryOperation.
RemovedUnretried ==
  /\ h.pc = "reconcile.ret" /\ h.by \in {"api", "rollback"}
  /\ Goto("ret")
  /\ UNCHANGED <<dbVars, ctr, memVars, svc, up, faults, creation>>

Removed ==
  /\ h.pc = "reconcile.ret" /\ h.by \in {"api", "rollback"}
  /\ Goto("retry")
  /\ UNCHANGED <<dbVars, ctr, memVars, svc, up, faults, creation>>

-----------------------------------------------------------------------------
(* Recovery.                                                               *)

\* Defect: a container that is not running is taken for a stopped one.
ObserveUnsettled ==
  h' = [h EXCEPT !.pc = "reconcile.commit", !.saw = ctr[h.s] = "running"]

\* A start is observed, never repeated, and only once the state is settled: the
\* intent is kept until then.
Observe ==
  h' = IF ctr[h.s] \in Unsettled
         THEN [h EXCEPT !.pc = "reconcile.ret", !.res = "err"]
         ELSE [h EXCEPT !.pc = "reconcile.commit", !.saw = ctr[h.s] = "running"]

Reconcile ==
  /\ h.pc = "reconcile.native"
  /\ \/ h.kind \in {"create", "delete"} /\ CliDelete("reconcile.commit", "reconcile.ret")
     \/ h.kind = "stop" /\ CliStop("reconcile.commit", "reconcile.ret")
     \/ /\ h.kind \in {"start", "restart"}
        /\ \/ Observe /\ UNCHANGED faults
           \/ Fault /\ h' = [h EXCEPT !.pc = "reconcile.ret", !.res = "err"]
        /\ UNCHANGED ctr
     \/ DbFails("reconcile.ret") /\ UNCHANGED ctr
  /\ UNCHANGED <<dbVars, memVars, svc, up, creation>>

Retired == ReconcileCommit /\ UNCHANGED creation

Retry == RetryOperation /\ UNCHANGED creation

\* expireLocked and the job that calls it.
Expire ==
  /\ TtlJobRuns \/ TtlCheck \/ TtlReconciled \/ TtlStop \/ TtlReturn
  /\ UNCHANGED creation

\* queueOperation: the job of an intent.
RunJob == (OpJobRuns \/ OpJobReturn) /\ UNCHANGED creation

Boot == BootStep /\ UNCHANGED creation

\* Every timer is cleared and every row visited; without the rows, none is.
CloseClient ==
  /\ up = "draining" /\ h.pc = "idle"
  /\ up' = "closing"
  /\ h' = SweepFrame("shutdown", "shutdown")
  /\ timer' = [s \in Sandboxes |-> NoTimer]
  /\ \/ sweep' = [ops |-> {}, rows |-> owned] /\ UNCHANGED faults
     \/ sweep' = NoSweep /\ Fault
  /\ UNCHANGED <<dbVars, ctr, opJobs, ttlJobs, worker, attempt, svc, creation>>

\* Finish what is pending, then stop it; a creation is left alone.
CloseSandboxes ==
  /\ \E s \in Sandboxes : ShutdownSandbox(s) \/ ShutdownReconciled \/ ShutdownReturn
  /\ UNCHANGED creation

\* Every row was visited, or the budget is spent: the lock is given back.
Closed ==
  /\ h.pc = "shutdown"
  /\ h' = Idle /\ sweep' = NoSweep
  /\ UNCHANGED <<dbVars, ctr, timer, opJobs, ttlJobs, worker, attempt, svc, up, faults, creation>>

\* Requests that the server gave up waiting for may go on until the process ends.
Exit == up = "closing" /\ h.pc = "idle" /\ ProcessEnds /\ UNCHANGED <<faults, creation>>

-----------------------------------------------------------------------------

AppleInit == Init /\ creation = [tries |-> 0, ttl |-> 0]

\* Bound: the instance creates one sandbox; the others are its further attempts.
AppleRequest(s) ==
  \/ creation.tries = 0 /\ \E ttl \in 1 .. MaxTtl : Create(s, ttl)
  \/ "start" \in Requests /\ Start(s)
  \/ "restart" \in Requests /\ Restart(s)
  \/ "stop" \in Requests /\ Stop(s)
  \/ "remove" \in Requests /\ Remove(s)
  \/ "renew" \in Requests /\ \E ttl \in 1 .. MaxTtl : Renew(s, ttl)

AppleHandlerStep ==
  \/ CreateContainer \/ StartContainer \/ Commit \/ RollBack \/ Own \/ Forget \/ GiveUp
  \/ RestartStop \/ Run \/ Complete \/ StopRunning \/ StopDone \/ Removed \/ Retry
  \/ \E s \in Sandboxes : Again(s)

AppleRecoveryStep ==
  \/ Reconcile \/ Retired \/ RunJob \/ Expire \/ Boot
  \/ CloseClient \/ CloseSandboxes \/ Closed \/ Exit

\* The service, the queue and the world are those of Lifecycle.
AsBefore ==
  /\ \/ ApiReturn \/ CreateReturn \/ RollbackReturn
     \/ WorkerSettles \/ Dispatch \/ Environment
     \/ \E s \in Sandboxes :
          Adopt(s) \/ AdoptFails(s) \/ PortsRejected(s) \/ Acknowledge(s) \/ RollbackRefused(s)
  /\ UNCHANGED creation

AppleNext ==
  \/ AppleHandlerStep \/ AppleRecoveryStep \/ AsBefore
  \/ \E s \in Sandboxes : AppleRequest(s) \/ Compensate(s) \/ Unsettles(s) \/ Settles(s)

AppleSpec == AppleInit /\ [][AppleNext]_appleVars
=============================================================================
