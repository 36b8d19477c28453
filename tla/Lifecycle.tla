------------------------------ MODULE Lifecycle ------------------------------
(***************************************************************************)
(* The sandbox lifecycle of opensbx: the handlers and the recovery of the  *)
(* Docker client, the creation protocol of the service above them          *)
(* (internal/service, internal/runtimeio/provision.go) and the world       *)
(* around them: time, and containers that die or are removed by others.    *)
(***************************************************************************)
EXTENDS Recovery

-----------------------------------------------------------------------------
(* service.Create after the adapter returned a provisioned sandbox: adopt, *)
(* read it back, or compensate.                                            *)

Adopt(s) ==
  /\ svc[s] = "created" /\ CanLock
  /\ AdoptProvenance(s)
  /\ attempt' = [attempt EXCEPT ![s] = 0]
  /\ svc' = [svc EXCEPT ![s] = "adopted"]
  /\ UNCHANGED <<ctr, timer, opJobs, ttlJobs, worker, sweep, up, h, faults>>

\* CreationFailed authorises the rollback of this creation, then Rollback.
AdoptFails(s) ==
  /\ svc[s] = "created"
  /\ \/ (~CanAdopt(s) \/ up = "closing") /\ UNCHANGED faults
     \/ Fault
  /\ QueueOperation(attempt[s])
  /\ svc' = [svc EXCEPT ![s] = "undo"]
  /\ UNCHANGED <<dbVars, ctr, timer, ttlJobs, worker, attempt, sweep, up, h>>

\* The adapter rejects the ports of a created sandbox: Rollback at once.
PortsRejected(s) ==
  /\ svc[s] = "created"
  /\ Fault
  /\ svc' = [svc EXCEPT ![s] = "undo"]
  /\ UNCHANGED <<dbVars, ctr, memVars, up, h>>

\* The row is read back outside the lock before the caller is answered.
Acknowledge(s) ==
  /\ svc[s] = "adopted"
  /\ \/ s \in owned /\ svc' = [svc EXCEPT ![s] = "acked"] /\ UNCHANGED faults
     \/ s \notin owned /\ svc' = [svc EXCEPT ![s] = "undo"] /\ UNCHANGED faults
     \/ Fault /\ svc' = [svc EXCEPT ![s] = "undo"]
  /\ UNCHANGED <<dbVars, ctr, memVars, up, h>>

Rollback(s) ==
  /\ svc[s] = "undo" /\ CanLock /\ HasFreshOp
  /\ BeginRemove("rollback", s)
  /\ svc' = [svc EXCEPT ![s] = "undoing"]
  /\ UNCHANGED <<ctr, memVars, up, faults>>

RollbackRefused(s) ==
  /\ svc[s] = "undo"
  /\ \/ (up = "closing" \/ Begun(s, "delete", 1, NoDeadline) = {})
        /\ UNCHANGED faults
     \/ Fault
  /\ QueueOperation(attempt[s])
  /\ svc' = [svc EXCEPT ![s] = "failed"]
  /\ UNCHANGED <<dbVars, ctr, timer, ttlJobs, worker, attempt, sweep, up, h>>

RollbackReturn ==
  /\ h.pc = "ret" /\ h.by = "rollback"
  /\ h' = Idle
  /\ svc' = [svc EXCEPT ![h.s] = "failed"]
  /\ IF h.res = "ok"
     THEN attempt' = [attempt EXCEPT ![h.s] = 0] /\ UNCHANGED opJobs
     ELSE QueueOperation(attempt[h.s]) /\ UNCHANGED attempt
  /\ UNCHANGED <<dbVars, ctr, timer, ttlJobs, worker, sweep, up, faults>>

-----------------------------------------------------------------------------
(* The environment.                                                        *)

CountDown(dl) == IF dl > 0 THEN dl - 1 ELSE dl

Tick ==
  /\ \/ \E s \in Sandboxes : deadline[s] > 0 \/ timer[s].dl > 0
     \/ \E o \in ops : o.dl > 0
     \/ h.dl > 0
  /\ deadline' = [s \in Sandboxes |-> CountDown(deadline[s])]
  /\ timer' = [s \in Sandboxes |-> [timer[s] EXCEPT !.dl = CountDown(@)]]
  /\ ops' = {[o EXCEPT !.dl = CountDown(@)] : o \in ops}
  /\ h' = [h EXCEPT !.dl = CountDown(@)]
  /\ UNCHANGED <<owned, ctr, opJobs, ttlJobs, worker, attempt, sweep, svc, up, faults>>

\* The workload dies, or somebody removes the container behind the server.
ContainerExits(s) ==
  /\ ctr[s] \in Live
  /\ Fault
  /\ ctr' = [ctr EXCEPT ![s] = "stopped"]
  /\ UNCHANGED <<dbVars, memVars, svc, up, h>>

ContainerVanishes(s) ==
  /\ ctr[s] # "absent"
  /\ Fault
  /\ ctr' = [ctr EXCEPT ![s] = "absent"]
  /\ UNCHANGED <<dbVars, memVars, svc, up, h>>

-----------------------------------------------------------------------------

Init ==
  /\ DbInit
  /\ ctr = [s \in Sandboxes |-> "absent"]
  /\ timer = [s \in Sandboxes |-> NoTimer]
  /\ opJobs = {} /\ ttlJobs = {}
  /\ worker = NoWorker
  /\ attempt = [s \in Sandboxes |-> 0]
  /\ svc = [s \in Sandboxes |-> "none"]
  /\ up = "down"
  /\ h = Idle
  /\ sweep = NoSweep
  /\ faults = 0

\* The steps of a handler once it holds the lock, and its return.
HandlerStep ==
  \/ CreateNative \/ CreateBind \/ CreateStart \/ CreateCommit
  \/ CreateUndo \/ CreateForget \/ CreateOwn
  \/ RunNative \/ RunComplete
  \/ StopNative \/ StopComplete
  \/ RemoveNative \/ RemoveDelete
  \/ RetryOperation \/ ApiReturn \/ CreateReturn \/ RollbackReturn

\* The same for the recovery that holds the lock.
LockedRecoveryStep ==
  \/ ReconcileNative \/ ReconcileCommit \/ OpJobReturn
  \/ TtlCheck \/ TtlReconciled \/ TtlStop \/ TtlReturn

JobRuns == OpJobRuns \/ TtlJobRuns

RecoveryStep == LockedRecoveryStep \/ JobRuns \/ WorkerSettles

BootStep ==
  \/ Recover \/ RecoverReturn \/ RecoverEnds \/ RecoverAborts
  \/ \E id \in OpIds : RecoverIntent(id)
  \/ \E s \in Sandboxes : RecoverOverdue(s)

ShutdownStep ==
  \/ ShutdownLock \/ ShutdownReconciled \/ ShutdownReturn \/ ShutdownEnds
  \/ \E s \in Sandboxes : ShutdownSandbox(s)

ServiceStep(s) ==
  \/ Adopt(s) \/ AdoptFails(s) \/ PortsRejected(s) \/ Acknowledge(s)
  \/ Rollback(s) \/ RollbackRefused(s)

Request(s) ==
  \/ "create" \in Requests /\ \E ttl \in 1 .. MaxTtl : CreateBegin(s, ttl)
  \/ "start" \in Requests /\ StartBegin(s)
  \/ "restart" \in Requests /\ RestartBegin(s)
  \/ "stop" \in Requests /\ StopBegin(s)
  \/ "remove" \in Requests /\ RemoveBegin(s)
  \/ "pause" \in Requests /\ Pause(s)
  \/ "resume" \in Requests /\ Resume(s)
  \/ "renew" \in Requests /\ \E ttl \in 1 .. MaxTtl : RenewExpiration(s, ttl)

Dispatch ==
  \/ \E id \in OpIds : DispatchOp(id)
  \/ \E s \in Sandboxes, e \in Entries : DispatchTtl(s, e)

Environment ==
  \/ Tick \/ Crash \/ ShutdownQueue \/ WorkerTimesOut
  \/ \E s \in Sandboxes : TimerFires(s) \/ ContainerExits(s) \/ ContainerVanishes(s)

Next ==
  \/ HandlerStep \/ RecoveryStep \/ BootStep \/ ShutdownStep
  \/ Dispatch \/ Environment
  \/ \E s \in Sandboxes : ServiceStep(s) \/ Request(s)

Spec == Init /\ [][Next]_vars

\* Whoever holds lifecycleMu goes on, a server that is down is started, time
\* passes.  The lock and the dispatcher are won by whoever keeps trying:
\* lockLifecycle polls, and every job is retried 30 seconds after a failure.
LockedStep == HandlerStep \/ LockedRecoveryStep \/ BootStep \/ ShutdownStep

Fairness ==
  /\ WF_vars(LockedStep) /\ SF_vars(ShutdownLock)
  /\ SF_vars(JobRuns) /\ WF_vars(WorkerSettles) /\ WF_vars(Tick)
  /\ \A s \in Sandboxes : SF_vars(ServiceStep(s)) /\ WF_vars(TimerFires(s))
  /\ \A id \in OpIds : SF_vars(DispatchOp(id))
  /\ \A s \in Sandboxes, e \in Entries : SF_vars(DispatchTtl(s, e))

FairSpec == Spec /\ Fairness

-----------------------------------------------------------------------------
(* Type invariant.                                                         *)

Steps == {"idle", "create.native", "create.bind", "create.start", "create.commit",
          "create.undo", "create.forget", "create.own", "run.native",
          "run.complete", "stop.native", "stop.complete", "remove.native",
          "remove.delete", "retry", "ret", "reconcile.native", "reconcile.commit",
          "reconcile.ret", "ttl.check", "ttl.stop", "boot", "shutdown"}
Callers == {"none", "create", "api", "rollback", "job", "ttl", "boot", "shutdown"}

CtrType == {"absent", "stopped", "running", "paused"}
TimerType == [entry : 0 .. MaxEntries, dl : 0 .. MaxTtl]
WorkerType == [job : {"none", "op", "ttl"}, id : 0 .. MaxOps,
               s : Sandboxes \cup {Nobody}, entry : 0 .. MaxEntries,
               res : {"none", "run", "locked", "ok", "err"}]
SvcType == {"none", "creating", "created", "adopted", "acked", "undo", "undoing",
            "failed"}
FrameType == [by : Callers, pc : Steps, s : Sandboxes \cup {Nobody},
              id : 0 .. MaxOps, kind : Kinds \cup {"none"}, dl : Deadlines,
              res : {"ok", "err", "fatal", "none"}, saw : BOOLEAN]
SweepType == [ops : SUBSET OpIds, rows : SUBSET Sandboxes]

\* Every variable has its type: the state the code keeps in SQLite, in Docker,
\* in the client's maps and on the stack of the handler that holds the lock.
TypeOK ==
  /\ DbTypeOK
  /\ ctr \in [Sandboxes -> CtrType]
  /\ timer \in [Sandboxes -> TimerType]
  /\ opJobs \subseteq OpIds
  /\ ttlJobs \subseteq (Sandboxes \X Entries)
  /\ worker \in WorkerType
  /\ attempt \in [Sandboxes -> 0 .. MaxOps]
  /\ svc \in [Sandboxes -> SvcType]
  /\ up \in {"down", "boot", "serving", "draining", "closing"}
  /\ h \in FrameType
  /\ sweep \in SweepType
  /\ faults \in 0 .. MaxFaults

-----------------------------------------------------------------------------
(* Safety.                                                                 *)

\* Write-ahead ownership: a container that opensbx created always has a row or
\* a creation intent, whatever call failed and wherever the process died, so
\* that recovery finds it without adopting from Docker's inventory.
NoOrphan ==
  \A s \in Sandboxes :
    ctr[s] # "absent" => s \in owned \/ \E o \in Pending(s) : o.kind = "create"

\* While the server serves and the lock is free, every pending intent is driven
\* by somebody: it has a retry job, or it is a creation whose service call has
\* yet to adopt or compensate it.  (An intent nobody drives would block its
\* sandbox until the next restart.)
IntentIsDriven ==
  up = "serving" /\ h.pc = "idle" =>
    \A o \in ops :
      \/ o.id \in opJobs
      \/ o.kind = "create" /\ svc[o.s] \in {"created", "undo"}
         /\ attempt[o.s] = o.id

\* A sandbox that runs with nothing pending has a persisted deadline, and while
\* the server serves an expiration timer: no fault lets it run for ever.
RunsOnATimer ==
  up = "serving" /\ h.pc = "idle" =>
    \A s \in Sandboxes :
      ctr[s] \in Live /\ RequireIdle(s) =>
        deadline[s] # NoDeadline /\ timer[s] # NoTimer

\* A sandbox whose creation was answered with success has no creation intent
\* left that a recovery, now or after a restart, could roll back.
AckedIsCommitted ==
  \A s \in Sandboxes :
    svc[s] = "acked" => \A o \in Pending(s) : o.kind # "create"

-----------------------------------------------------------------------------
(* Action properties.                                                      *)

\* Only a delete intent removes an acknowledged sandbox: neither its row nor
\* (by a step of the server) its container goes in any other way.
AckedGoesByDelete ==
  [][\A s \in Sandboxes :
       /\ svc[s] = "acked"
       /\ \/ s \in owned /\ s \notin owned'
          \/ ctr[s] # "absent" /\ ctr'[s] = "absent" /\ h' # h
       => \E o \in Pending(s) : o.kind = "delete"]_vars

StopsForExpiry(s) ==
  h.pc = "stop.native" /\ h.s = s /\ ctr[s] \in Live /\ ctr'[s] = "stopped" /\ h' # h

\* A timer of an earlier generation never stops a sandbox that was renewed or
\* restarted: when expiration stops a container, its persisted deadline is over.
TtlStopsOnlyOverdue ==
  [][\A s \in Sandboxes :
       h.by = "ttl" /\ StopsForExpiry(s) => deadline[s] = 0]_vars

\* The same of startup: "Recovery restores future deadlines without extending
\* them and attempts to stop overdue resources" (docs/architecture.md).
RecoverStopsOnlyOverdue ==
  [][\A s \in Sandboxes :
       h.by = "boot" /\ StopsForExpiry(s) => deadline[s] = 0]_vars

-----------------------------------------------------------------------------
(* Liveness, once faults stop (MaxFaults).                                 *)

\* Every intent is finished or rolled back in the end, however many calls
\* failed before and wherever the process died.
IntentsRetire ==
  \A s \in Sandboxes : (Pending(s) # {}) ~> (Pending(s) = {})

\* A sandbox does not outlive its deadline: it is stopped, removed or renewed,
\* or its clients are restarting it.
OverdueStops ==
  \A s \in Sandboxes :
    (s \in owned /\ ctr[s] \in Live /\ deadline[s] = 0)
      ~> \/ ctr[s] \notin Live
         \/ deadline[s] # 0
         \/ \E o \in Pending(s) : o.kind \in {"start", "restart"}
=============================================================================
