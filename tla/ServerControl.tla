----------------------------- MODULE ServerControl -----------------------------
(***************************************************************************)
(* One server per data directory and per database (internal/processctl,    *)
(* cmd/api).  A server holds the lock of its execution database and the    *)
(* control lock of its data directory from before it recovers until it has *)
(* shut down, and records its process ID once it listens.  `opensbx start` *)
(* and `opensbx stop` are processes of their own: they ask who runs by     *)
(* trying the control lock themselves.  Locks end with their process; a    *)
(* record does not.                                                        *)
(***************************************************************************)

CONSTANTS
  Dirs,           \* data directories
  Runtimes,
  LegacyDBs,      \* databases of an earlier version, which directories may share
  Pids,           \* bound: numbers of server processes
  Calls,          \* `opensbx start` and `opensbx stop` commands in progress
  None

ASSUME ServerControlAssumption ==
  /\ LegacyDBs \cap (Dirs \X Runtimes) = {}
  /\ Pids \cap Calls = {} /\ None \notin Pids \cup Calls

VARIABLES
  dblock,         \* the server that holds each database's lock
  lock,           \* the process that holds each directory's opensbx.lock
  record,         \* the number in each directory's pid file
  srv,            \* each process: how far runServer got
  call            \* each command

vars == <<dblock, lock, record, srv, call>>
disk == <<dblock, lock, record>>

\* ExecutionPath: a database for each runtime of a directory, or a legacy one.
ExecutionPaths(d) == ({d} \X Runtimes) \cup LegacyDBs

Databases == UNION {ExecutionPaths(d) : d \in Dirs}

NoProcess == [pc |-> "none", dir |-> None, db |-> None]
NoCall == [pc |-> "none", op |-> "none", dir |-> None, stage |-> "first", pid |-> None,
           seen |-> None]

-----------------------------------------------------------------------------
(* runServer.                                                              *)

Server(p, pc) == srv[p].pc = pc
Advance(p, pc) == srv' = [srv EXCEPT ![p].pc = pc]

\* Bound: a process gets a number that no record and no running command names.
FreshPid(p) ==
  /\ srv[p] = NoProcess
  /\ \A d \in Dirs : record[d] # p
  /\ \A c \in Calls : p \notin {call[c].pid, call[c].seen}

Launched(p, d, b) == srv' = [srv EXCEPT ![p] = [NoProcess EXCEPT !.pc = "boot", !.dir = d, !.db = b]]

\* `opensbx server` in the foreground.
Foreground(p, d, b) ==
  /\ FreshPid(p)
  /\ Launched(p, d, b)
  /\ UNCHANGED <<disk, call>>

\* The database's lock is tried once; without it the process ends.
LockDatabase(p) ==
  /\ Server(p, "boot")
  /\ IF dblock[srv[p].db] = None
     THEN Advance(p, "acquire") /\ dblock' = [dblock EXCEPT ![srv[p].db] = p]
     ELSE srv' = [srv EXCEPT ![p] = NoProcess] /\ UNCHANGED dblock
  /\ UNCHANGED <<lock, record, call>>

\* Acquire: the control lock is tried once as well.
Acquire(p) ==
  /\ Server(p, "acquire")
  /\ IF lock[srv[p].dir] = None
     THEN Advance(p, "clear") /\ lock' = [lock EXCEPT ![srv[p].dir] = p]
     ELSE Advance(p, "release") /\ UNCHANGED lock
  /\ UNCHANGED <<dblock, record, call>>

\* Then the record that an earlier server left is removed.
ClearRecord(p) ==
  /\ Server(p, "clear")
  /\ record' = [record EXCEPT ![srv[p].dir] = None]
  /\ Advance(p, "start")
  /\ UNCHANGED <<dblock, lock, call>>

\* Runtime validation, the stores, recovery, the listener and its first answer:
\* done, or failed, or cancelled by a signal.
Start(p) ==
  /\ Server(p, "start")
  /\ Advance(p, "publish") \/ Advance(p, "close")
  /\ UNCHANGED <<disk, call>>

\* The rename of the pid file; without it the process ends.
Publish(p) ==
  /\ Server(p, "publish")
  /\ \/ Advance(p, "serve") /\ record' = [record EXCEPT ![srv[p].dir] = p]
     \/ Advance(p, "close") /\ UNCHANGED record
  /\ UNCHANGED <<dblock, lock, call>>

\* A signal shuts the service down, an error of the listener ends it without that;
\* nothing else here changes until either is done.
StopServing(p) ==
  /\ Server(p, "serve")
  /\ Advance(p, "close")
  /\ UNCHANGED <<disk, call>>

\* Close: the record goes if it is this process's own.
Close(p) ==
  /\ Server(p, "close")
  /\ record' = [record EXCEPT ![srv[p].dir] = IF @ = p THEN None ELSE @]
  /\ Advance(p, "unlock")
  /\ UNCHANGED <<dblock, lock, call>>

Unlock(p) ==
  /\ Server(p, "unlock")
  /\ lock' = [lock EXCEPT ![srv[p].dir] = None]
  /\ Advance(p, "release")
  /\ UNCHANGED <<dblock, record, call>>

\* The database's lock, and the process, last.
Release(p) ==
  /\ Server(p, "release")
  /\ dblock' = [dblock EXCEPT ![srv[p].db] = None]
  /\ srv' = [srv EXCEPT ![p] = NoProcess]
  /\ UNCHANGED <<lock, record, call>>

Without(locks, p) == [x \in DOMAIN locks |-> IF locks[x] = p THEN None ELSE locks[x]]

\* A process that is killed leaves its record.
Killed(p) ==
  /\ srv' = [srv EXCEPT ![p] = NoProcess]
  /\ dblock' = Without(dblock, p) /\ lock' = Without(lock, p)
  /\ UNCHANGED record

Crash(p) == srv[p] # NoProcess /\ Killed(p) /\ UNCHANGED call

-----------------------------------------------------------------------------
(* Running, by which a command asks who serves its directory.              *)

At(c, pc, stage, op) == call[c].pc = pc /\ call[c].stage = stage /\ call[c].op = op
Update(c, pc) == call' = [call EXCEPT ![c].pc = pc, ![c].seen = None]
Return(c) == call' = [call EXCEPT ![c] = NoCall]

Ask(c, op, d) ==
  /\ call[c] = NoCall
  /\ call' = [call EXCEPT ![c] = [NoCall EXCEPT !.pc = "probe", !.op = op, !.dir = d]]
  /\ UNCHANGED <<disk, srv>>

TryLock(c) ==
  /\ call[c].pc = "probe"
  /\ IF lock[call[c].dir] = None
     THEN Update(c, "remove") /\ lock' = [lock EXCEPT ![call[c].dir] = c]
     ELSE Update(c, "read") /\ UNCHANGED lock
  /\ UNCHANGED <<dblock, record, srv>>

\* Defect: a stale record is removed after the lock was given back.
RemoveUnlocked(c) ==
  /\ call[c].pc = "remove"
  /\ IF lock[call[c].dir] = c
     THEN lock' = [lock EXCEPT ![call[c].dir] = None] /\ UNCHANGED <<record, call>>
     ELSE record' = [record EXCEPT ![call[c].dir] = None] /\ Update(c, "free") /\ UNCHANGED lock
  /\ UNCHANGED <<dblock, srv>>

\* The lock was free: the record is stale.
RemoveStale(c) ==
  /\ call[c].pc = "remove"
  /\ record' = [record EXCEPT ![call[c].dir] = None]
  /\ Update(c, "unlock")
  /\ UNCHANGED <<dblock, lock, srv>>

GiveBack(c) ==
  /\ call[c].pc = "unlock"
  /\ lock' = [lock EXCEPT ![call[c].dir] = None]
  /\ Update(c, "free")
  /\ UNCHANGED <<dblock, record, srv>>

\* The lock was taken: what the record says.
ReadPid(c) ==
  /\ call[c].pc = "read"
  /\ call' = [call EXCEPT ![c].pc = "taken", ![c].seen = record[call[c].dir]]
  /\ UNCHANGED <<disk, srv>>

-----------------------------------------------------------------------------
(* opensbx start and opensbx stop.                                         *)

\* A server that runs, or seems to.
StartRefused(c) ==
  /\ At(c, "taken", "first", "start")
  /\ Return(c)
  /\ UNCHANGED <<disk, srv>>

\* The server is started detached, and asked for until its own number is recorded.
Spawn(c) ==
  /\ At(c, "free", "first", "start")
  /\ \E p \in Pids : \E b \in ExecutionPaths(call[c].dir) :
       /\ FreshPid(p) /\ Launched(p, call[c].dir, b)
       /\ call' = [call EXCEPT ![c].pid = p, ![c].stage = "poll", ![c].pc = "probe"]
  /\ UNCHANGED disk

IsChild(c) == call[c].pc = "taken" /\ call[c].seen = call[c].pid

\* Defect: any server that is recorded is taken for the one that was started.
StartedAny(c) ==
  /\ At(c, "taken", "poll", "start") /\ call[c].seen # None
  /\ Update(c, "started")
  /\ UNCHANGED <<disk, srv>>

Started(c) ==
  /\ At(c, "taken", "poll", "start") /\ IsChild(c)
  /\ Update(c, "started")
  /\ UNCHANGED <<disk, srv>>

\* The child has ended, the time is up, or it is asked for again.
NotStarted(c) ==
  /\ At(c, "free", "poll", "start") \/ (At(c, "taken", "poll", "start") /\ ~IsChild(c))
  /\ \/ srv[call[c].pid] = NoProcess /\ Return(c) /\ UNCHANGED <<disk, srv>>
     \/ Killed(call[c].pid) /\ Return(c)
     \/ Update(c, "probe") /\ UNCHANGED <<disk, srv>>

\* Nothing runs, or it has no record yet.
StopRefused(c) ==
  /\ At(c, "free", "first", "stop") \/ (At(c, "taken", "first", "stop") /\ call[c].seen = None)
  /\ Return(c)
  /\ UNCHANGED <<disk, srv>>

\* The recorded process is asked to end (a server may at any time); it may be gone.
Signal(c) ==
  /\ At(c, "taken", "first", "stop") /\ call[c].seen # None
  /\ call' = [call EXCEPT ![c].pid = call[c].seen, ![c].seen = None, ![c].pc = "probe",
                ![c].stage = IF srv[call[c].seen] = NoProcess THEN "failed" ELSE "poll"]
  /\ UNCHANGED <<disk, srv>>

\* The directory is free again.
Stopped(c) ==
  /\ At(c, "free", "poll", "stop") \/ At(c, "free", "failed", "stop")
  /\ Update(c, "stopped")
  /\ UNCHANGED <<disk, srv>>

\* It is not: after a signal it is asked again until the time is up.
NotStopped(c) ==
  /\ At(c, "taken", "poll", "stop") \/ At(c, "taken", "failed", "stop")
  /\ Return(c) \/ (call[c].stage = "poll" /\ Update(c, "probe"))
  /\ UNCHANGED <<disk, srv>>

Reported(c) ==
  /\ call[c].pc \in {"started", "stopped"}
  /\ Return(c)
  /\ UNCHANGED <<disk, srv>>

\* A command fails at something else, or is killed.
Interrupted(c) ==
  /\ call[c].pc \notin {"none", "started", "stopped"}
  /\ Return(c)
  /\ lock' = Without(lock, c)
  /\ UNCHANGED <<dblock, record, srv>>

-----------------------------------------------------------------------------

Init ==
  /\ dblock = [b \in Databases |-> None]
  /\ lock = [d \in Dirs |-> None] /\ record = [d \in Dirs |-> None]
  /\ srv = [p \in Pids |-> NoProcess]
  /\ call = [c \in Calls |-> NoCall]

ServerStep(p) ==
  \/ LockDatabase(p) \/ Acquire(p) \/ ClearRecord(p) \/ Start(p) \/ Publish(p)
  \/ StopServing(p) \/ Close(p) \/ Unlock(p) \/ Release(p)

CallStep(c) ==
  \/ TryLock(c) \/ RemoveStale(c) \/ GiveBack(c) \/ ReadPid(c)
  \/ StartRefused(c) \/ Spawn(c) \/ Started(c) \/ NotStarted(c)
  \/ StopRefused(c) \/ Signal(c) \/ Stopped(c) \/ NotStopped(c) \/ Reported(c)

Next ==
  \/ \E p \in Pids :
       \/ ServerStep(p) \/ Crash(p)
       \/ \E d \in Dirs : \E b \in ExecutionPaths(d) : Foreground(p, d, b)
  \/ \E c \in Calls :
       \/ CallStep(c) \/ Interrupted(c)
       \/ \E d \in Dirs, op \in {"start", "stop"} : Ask(c, op, d)

Spec == Init /\ [][Next]_vars

-----------------------------------------------------------------------------
(* Properties.                                                             *)

\* A server that serves can be found: no probe of a command, and no server that
\* is starting or ending, ever removes or replaces its record.  So a directory
\* has at most one.
ServingIsRecorded ==
  \A p \in Pids : Server(p, "serve") => record[srv[p].dir] = p

\* What the commands report is so: "started" of a process that has published its
\* record, "stopped" of one that has shut down and let go of the directory.
ReportsAreTrue ==
  \A c \in Calls :
    /\ call[c].pc = "started" =>
         srv[call[c].pid].pc \notin {"boot", "acquire", "clear", "start", "publish"}
    /\ call[c].pc = "stopped" => srv[call[c].pid].pc \in {"release", "none"}
=============================================================================
