# opensbx: a TLA+ model of its sandboxes, commands, images and servers

opensbx runs sandboxes (containers) through one local runtime and keeps, in a
SQLite file, who owns them and until when. Its promise is one of bookkeeping
under failure: no container without an owner, no sandbox that outlives its
deadline, no answer to a client that a restart takes back. Around that it runs
commands in the sandboxes, routes requests to them, keeps a store of images, and
sees to it that one server has its data directory. This project models the code
that keeps those promises, checks it with TLC and proves its safety with TLAPS.
All paths below are relative to `src/`.

## 1. Inventory

| Component | State it keeps | Operations | Hard behaviour | What makes it correct |
|---|---|---|---|---|
| `internal/database` | rows (`Sandbox`), pending intents (`Operation`), commands | BeginCreate, BeginOperation, BindCreation, CommitCreation, CompleteOperation, DeleteOperation, SetDeadline, UpdateProvenance | a failed transaction, a crash between two | one intent for a sandbox; an intent never without the row it needs |
| `internal/docker/lifecycle.go` | `lifecycleMu`, expiration timers, `createAttempts`, `closing` | Create, Start, Restart, Stop, Remove, Pause, Resume, RenewExpiration, expire, Shutdown | each handler is a row of database and Docker calls; any of them may fail, lose its answer, or be the last | write-ahead ownership; every intent is retried; deadlines survive |
| `internal/docker/recovery.go` | none of its own | Recover, reconcile, reconcileResource, retryOperation, queueOperation, stopForShutdown | runs the same intents as the handlers, after them or after a crash | finishes or rolls back every intent; never takes away what was acknowledged |
| `internal/runtimeio/recovery.go` | `RecoveryQueue`: jobs by key, closed flag | Schedule, Run, Stop | one attempt at a time; jobs scheduled while one runs | a failed job stays, a done one goes, none is lost |
| `internal/service`, `runtimeio/provision.go`, `adapter.go` | the creation in flight | Create, Adopt, Rollback, Route | a remove, an expiration or a recovery between creation and adoption | success is answered only for a sandbox no recovery rolls back |
| `internal/docker/ringbuffer.go` | ring of output bytes, readers' positions | Write, Close, Read, reader Close | readers overrun, woken by a shared condition | readers see a contiguous prefix or an error, and end |
| `internal/docker/cache_lock.go`, `cache.go` | lock entries by image reference, the private tags | acquire, release, Materialize, verifyCache | deletion of an entry others wait for; a tag moved in Docker between two looks at it | one owner of a reference; no entry leaks; a sandbox has the content of its source |
| `internal/docker/commands.go`, `command_identity.go` | running commands, their buffers and identities, command rows | exec, wait, kill, logs, cancel on removal | lost answers, broken streams, reused process IDs, removal of the sandbox | final statuses come with all the output, Docker's are confirmed, a late signal reaches nobody |
| `internal/applecontainer` | as docker, over a command line tool | the same operations | failed calls that leave a container on its way, states that are not settled, a gate before each payload | the same promises |
| `service.Route`, `database/routing.go`, `internal/proxy` | shared snapshots of the runtime | Route | state read before a shared native call and used after | a request is proxied for the sandbox that has the name, if it may be used |
| `internal/images` | OCI blobs, `index.json`, `catalog.json`, verified graphs | pull, import, remove, resolve, export | crash between renames; other processes; files that are damaged or replaced | names only of whole images; whole transactions; a cache that tells the truth |
| `internal/processctl`, `cmd/api/cli.go` | control lock, pid file, database lock | Acquire, Publish, Close, Running, Stop; start, stop | a second server, a probe that takes the lock, a process that ends | one server for a directory and a database; reports that are so |
| `internal/api`, `cli`, `client`, `config`, `logging` | nothing that lasts | conversion, transport | streaming only | out of scope: no protocol state |

How they interact: the API calls the service, the service calls
`runtimeio.Adapter`, which calls the Docker client. Every lifecycle call takes
`lifecycleMu`, writes an intent, calls Docker, and retires the intent in the
transaction that records the result. What fails in between is left as an intent
and registered with the `RecoveryQueue`; timers register expirations with the
same queue; `Recover` does both from the database before the listener opens.

The hazards of this code, each at its line, are in `PROJECT.json` under
`hazards`, with the properties that watch them; the ones without a property say
why.

## 2. Modules

The lifecycle modules extend one another in the order of the table, so that
every action is written once; the client for Apple Container extends what it
has in common with the one for Docker, in `AppleLifecycle` and `AppleCommands`.
The groups below stand alone: they meet the others only in what is listed under
"What is abstracted".

| Module | Stands for |
|---|---|
| `Ownership` | the SQLite side: rows, deadlines, intents and each transaction |
| `Handlers` | the handlers of `lifecycle.go`, one action for each native call or transaction |
| `Recovery` | reconcile, the retry queue and its worker, expiration, Recover, Shutdown, the end of the process |
| `Lifecycle` | the service above them (Adopt, read back, Rollback), time, containers that die; `Init`, `Next`, fairness and the properties |
| `MCLifecycle` | symmetry for TLC |
| `LifecycleProofs` | what each transaction preserves, ownership through every step, and the promises to clients |
| `Log` | abstract: what the readers of a command's output are promised |
| `LogRing` | `ringbuffer.go` with its writer and readers; `PlainLog` maps it to `Log` |
| `LogTail` | `boundedBuffer` (`runner.go`) and the polling `logReader` of `applecontainer/commands.go`; its specification has the buffer of either runtime |
| `LogProofs` | the indices of the ring and its refinement; stretches of the output, what a write keeps, the refinement for either runtime |
| `AppleLifecycle` | `applecontainer/client.go`, `recovery.go`: creation in attempts with its rollback, unsettled states, removal by reconciliation, shutdown; the rest is `Lifecycle`'s |
| `DockerCommands` | `commands.go`, `command_identity.go`: the registration of a command, its goroutine, the guest process, the clients that wait, kill and read |
| `AppleCommands` | `applecontainer/commands.go`: the wrapper with its gate, the handshake, the tool's process; its specification has a server of either runtime |
| `CommandsProofs` | the invariant of commands under either runtime and the theorems |
| `CacheLocks` | the locks by reference around `Materialize` |
| `Materialize` | what the owner of such a lock does: inspect, load, inspect again, export, compare, and the sandbox created from it |
| `MaterializeProofs` | the counting of the locks' users, that `Materialize` implements `CacheLocks`, and what its sandboxes are made of |
| `ImageCatalog` | abstract: the transactions that may change the catalog |
| `ImageStore` | the files of a data directory, the mutex and the lock file, stages, pulls, imports, removals, reads, crashes; `Catalog` maps it to `ImageCatalog` |
| `ImageStoreProofs` | graphs, what each transaction's plan rests on, the locks, the refinement |
| `ImageVerify`, `ImageVerifyProofs` | what is served from the blobs: readings, their cache, exports; what a reading may believe |
| `ServerControl`, `ServerControlProofs` | the server process, its locks and record, `start`, `stop` and the probe they use; who holds what, and what a caller knows |
| `RouteAdmission`, `RouteAdmissionProofs` | `service.Route`, the shared snapshot, the recheck, the proxy; that an owner who lost the name stays gone |
| `MC...` | the instances for TLC: symmetry and the values of structured constants |

Operators marked `Defect:` stand just before the definition they deviate from.
No specification uses them; they are the faults with which each property was
shown to be able to fail (`mutants` in `PROJECT.json`).

### State and code

| Variable | Code |
|---|---|
| `owned`, `deadline` | table `sandboxes`, column `expires_at` (ticks left, 0 = overdue) |
| `ops` | table `operations` |
| `ctr` | the containers, as Docker has them |
| `timer` | `Client.timers`; `entry` is the identity of the `timerEntry` pointer |
| `opJobs`, `ttlJobs` | `RecoveryQueue.jobs`, under operation ID or `ttl:` key |
| `worker` | the attempt `RecoveryQueue.Run` is executing |
| `attempt` | `Client.createAttempts` |
| `h` | the stack of whoever holds `lifecycleMu`: caller, next step, a copy of its intent, its error |
| `svc` | how far `service.Create` got |
| `sweep` | the snapshots that `Recover` and `Shutdown` iterate over |
| `up` | down, boot (Recover), serving, draining (queue stopped), closing |

A handler is a sequence of actions `XBegin`, `XNative`, `XComplete`, …; `h.pc`
names the next. A step has up to three outcomes: success, an error without
effect, and for native calls an effect whose answer is lost. `retry` is the
deferred `retryOperation`. A crash is possible between any two actions and loses
everything but `owned`, `deadline`, `ops` and `ctr`.

`LogRing` has the fields of `ringBuffer` and `ringReader` under their names,
with each reader's booleans as the sets `left` and `waiting`. Its methods are
single actions, since the buffer's mutex covers them; `Read` is one for each turn
of its loop, because `cond.Wait` gives the mutex up. `got` and `res` record what
the consumer of a reader received and the error that ended it: they are what the
refinement compares with `Log`. `CacheLocks` splits `acquire` where another call
can get in between: registering, the channel, the second look at the context.

`LogTail` adds `data`, the Apple client's buffer, and shares the rest with `LogRing`:
`written` is `boundedBuffer.total`, `pos` `logReader.offset`, `closed` the channel
`done`. `TailRead` is the half of a reader's loop under the mutex, and a reader in
`waiting` is at its select, from which `PollEnds` and `PollAgain` take it.

In `DockerCommands`, `row` is the table `commands`, `tracked` the map
`Client.commands`, `rc` the `runningCommand` with the place of its goroutine in
`go`, `proc` the guest process, `cl` a client's request. `lock` is `lifecycleMu`
(or the Apple client's `mu`, held through the whole handshake). `gate` is the
input pipe of the wrapper. In `ImageStore`, `frame` is the stack of a call:
where it is, its stage, the catalog it has read; `mu` and `flock` are the two
locks of a transaction. In `ServerControl`, `srv` are server processes, `call` the
processes of `start` and `stop`, `record` the pid files. In `RouteAdmission`,
`flights` are the running functions of `singleflight`, by key.

### What is abstracted

- In `LogRing` the i-th byte is written i, so that a byte shows its place. A
  reader attached late is one whose first `Read` comes late: `NewReader` touches nothing
  of the ring. Empty reads and writes have no effect and are left out.
- In `DockerCommands` the output of a process is counted in pieces, of which the
  wrapper's identity record is the first, and exit codes are nil, the -1 or 125
  of a failure, and the status of the guest. A signal need not end a process.
  The signal helper is a process of the guest: it compares the start time in one
  step and kills in another, may reach a namesake in between (`docs/usage.md:176`
  says so), and goes on when its request or the server has ended. One client
  request at a time for each client, and none while its last helper runs; any
  context may end at any time.
- In `AppleCommands` eviction comes at any time after the end, as with Docker,
  where it comes after five minutes; the code does it at the 128th command. The
  wrapper's failures are one, its end before the payload. The end of the tool is
  either that of the guest process (`ToolEnds`) or its own (`ToolDies`), whose code the
  client keeps as the command's all the same; the model tells the two apart, the
  code does not. The runtime is chosen once, at the start of the server.
- In `AppleLifecycle` the container's ID is the sandbox: the client names it
  before it exists. Its attempts after a failed creation (port conflicts) are
  further sandboxes that one `Create` tries in turn.
- In `Materialize` an image is its immutable ID, and what Docker exports for an
  ID an archive of files, paths and hashes that is a constant; what Docker makes
  of a loaded archive is any of the IDs. Sizes and limits are left out.
- In `ImageStore` blobs are immutable names, so contents are only whether a blob is
  there; damage to files is `ImageVerify`'s subject. A crash is that of a
  process: what a power failure does to renames is not modelled. Stages left by a crash
  are private and not modelled. A root has one manifest for a platform.
- In `ImageVerify` a stamp (identity, size, times) is whether the file is still
  the one that was remembered. Damage shows in the stamp, as every write does; bits
  that rot on the disk and leave it are not modelled, and the cache would not see them.
  Of the destination of an export only whether a file is there. `List` takes the
  images in any order and reads no root, `Resolve` reads the root of its one image.
- In `ServerControl` a process ID that is in a record or belongs to a command
  still running is not taken by a new process; strangers with a recorded ID are
  left out. Which databases two directories share is a constant.
- In `RouteAdmission` one name is owned by sandboxes in turn, and only the steps
  of the lifecycle that a route can see are there (`Lifecycle` has them all).
- In `CacheLocks` an entry is a name that is free again once neither the map nor
  a call refers to it, as the allocator would have it. A call whose context
  has ended before it registers has no effect.
- Public ID, native ID and ownership token of a creation are one name. They are
  fresh random values that the code never reuses; rows from before tokens
  existed and the refusals on a mismatch are left out.
- `awaitAdoption` is always true: the adapter is the only caller of
  `CommitCreation` on this path.
- A failing transaction has no effect. (SQLite reporting an error for a commit
  that happened is not modelled.) A native call that fails has its effect at
  once or never; effects that arrive after a later inspection are planned.
- The queue's delays (100 ms between attempts, 30 s after a failure) and
  `RecoveryRetryDelay` are "at some time"; `nextAttempt` is a free choice among
  the jobs.
- Operation IDs and timer entries are recycled once nothing refers to them,
  which keeps the state finite without ever confusing two live ones. `MaxOps`
  and `MaxEntries` bound how many are referenced at once; a request that finds
  no free number waits.
- `Recover` takes its list of overdue rows once; since its budget is a second,
  less than a tick, no further row becomes overdue in that list.
- Pause and Resume are single actions without failure: they write nothing to
  the database, and a failed one equals one that never came or succeeded.
- In the lifecycle modules commands, proxy invalidation, ports and the text `recovery_error` are not
  state that these properties can tell apart.

## 3. Runs

| Run | Instance | Question |
|---|---|---|
| `lifecycle_one` | 1 sandbox, all requests, unlimited faults, 2 operation IDs, 3 timer entries, timeout 1; deadlock checked | All safety invariants and two action properties |
| `lifecycle_two` | 2 sandboxes (symmetric), create / restart / remove, 1 fault, 3 operation IDs | Is each intent registered and retried, whatever the queue does for the other sandbox? |
| `lifecycle_live` | 1 sandbox, create / restart, at most 2 faults, `FairSpec` | Does every intent end, is every overdue sandbox stopped? |
| `lifecycle_boot` | 1 sandbox, all requests, at most 2 faults | The documented promise of startup about deadlines; it fails, see section 5 |
| `apple` | 2 sandboxes (symmetric), two attempts of one creation, all other requests, unlimited faults, requests that go on beside and after the shutdown; deadlock checked | Do the promises of the lifecycle hold for the Apple client's own handlers? |
| `commands` | 1 command, 1 client, 3 pieces of output, either runtime, fair; deadlock checked | Final statuses with all the output, confirmed ends, no late signal, nothing left of a removed sandbox, no forgotten waiter |
| `log` | either runtime, a buffer of 3, output of 8 in chunks of any length, reads up to 4, 2 readers (symmetry would be unsound with liveness), fair; it may stop once the command and the readers have ended, so deadlock is not checked | Is the ring, and the sliding buffer, a log (`IsLog`, a refinement), a snapshot its tail, is a wake-up ever lost or an end missed by polling? |
| `cache` | 3 calls, 1 tag, 4 images of which one is right, fair; deadlock checked | One owner, no leak, no forgotten waiter, and only sandboxes of the right image |
| `images` | 2 processes, 2 calls (symmetric), 2 tags, 2 roots, 4 blobs, 2 platforms, removal by a tag and by a digest; deadlock checked | Do crashes and other processes ever break a name or half a transaction? (`AtomicCatalog`, a refinement) |
| `images_verify` | 2 calls (symmetric), 2 images, one with a layer and an index, a cache of 1; deadlock checked | Does the cache vouch for what it has not read, is anything served that was not good? |
| `server` | 2 directories, 3 processes, 2 commands (symmetric), a database of each and a shared one; deadlock checked | Is a serving server recorded, are reports true? |
| `route` | 3 owners of a name, two with one public ID, 2 requests, fair; deadlock checked | Is a request only proxied for who may have it, is each answered? |

Why the bounds are enough. The lock serialises everything a sandbox can
undergo, so the hard cases are sequences on one sandbox: `lifecycle_one` leaves
the number of faults, crashes, restarts and clients' requests unbounded and is
exhaustive. A sandbox has one pending intent, and stale jobs and the copy in
the frame need a second number: two operation IDs are both used at once, and
three timer entries let a stale expiration, a running one and the current timer
coexist. A timeout of one tick already has the two cases the code distinguishes,
future and overdue. Two sandboxes meet only in the lock, the queue and its worker,
which `lifecycle_two` covers. `lifecycle_boot` needs three operation IDs only
because startup holds one while it begins another. `CHECK_DEADLOCK FALSE` stands
in the lifecycle runs whose faults are bounded: with no fault left a failed
creation may be the last thing that happens. Symmetry is used only in runs
without liveness.

The ring treats a write by whether it fills the ring, wraps or neither, and a
read by whether it wraps, is clamped, or has been overrun, exactly or by more.
Eight bytes in a ring of three reach every combination, with the ring's origin
at each of its slots; the proofs below cover all sizes. Its run has
`CHECK_DEADLOCK FALSE` because a command's output and its readers end.

Locks of different references are independent, and the proofs of `CacheLocks`
cover any number of references and calls; the run of `Materialize` needs an
owner, one that waits and one that comes anew. Its four images differ from
the source in nothing, in a layer's bytes behind a repeated diff ID, in a second
file of the same path, and in the configuration.

Commands share nothing but the lock and the map, so one command with every
event of its own, of its sandbox and of the server is enough; a second client
would only read. Three pieces of output let the identity, a first and a last
piece be apart. An Apple creation of two attempts has an attempt after a failed
one, and one that fails for good; recovery and the timers of one then run beside
the creation of the other. Two processes are the case of the file lock, two
calls of one process that of the mutex: the two stores and two calls of `images`
reach both, and its graph has an index, a shared manifest and one that is
not downloaded. A cache of one entry is full at once. Three server processes are one that
serves, one that was started beside it, and one that comes when the first has
gone. A name with three owners has a successor with the same public ID and one
with another; two requests share a flight or do not.

The properties:

- `NoOrphan` – a container that opensbx made has a row or a creation intent.
- `OneIntent` – one pending intent for a sandbox, one sandbox for an ID.
- `StartupNeverWedged` – no pending intent ever fails the validation that makes
  `Recover` abort the start of the server.
- `IntentIsDriven` – with the lock free, an intent has a retry job or a service
  call that still has to adopt or compensate it.
- `RunsOnATimer` – a live sandbox with nothing pending has a persisted deadline
  and a timer.
- `AckedIsCommitted`, `AckedGoesByDelete` – what `Create` acknowledged has no
  creation intent left, and goes only through a delete intent.
- `TtlStopsOnlyOverdue` – a timer, however stale, never stops a sandbox whose
  persisted deadline lies ahead.
- `IntentsRetire`, `OverdueStops` – liveness, under `FairSpec`.
- `IsLog` – no reader gets a byte twice, out of place or after a gap, none is told of the
  end before it has everything, none of a loss while its next byte is retained.
- `SnapshotsAreTails` – what `GetCommandLogs` returns is the tail of the output.
- `OutputArrives`, `ReadersEnd` – the shared condition loses no wake-up, and polling
  finds every byte and the end.
- `OneOwner`, `NoLeak` – a reference is materialised by one call at a time,
  though its lock is deleted and made anew; the map has no lock without a user.
- `WaiterServed` – a cancelled call never keeps the token.
- `SandboxHasSource` – a sandbox is created only of an image whose export has the
  configuration and the layer bytes of the source, wherever the tag has gone.
- `FinalLogs` – a snapshot with an exit status has all the output.
- `EndIsConfirmed` – under Docker, a status other than the -1 of a failed attachment,
  in memory, in the database or in an answer, is of a process that has ended, and
  an observation that closes without an error is its end. Nothing is claimed
  of the -1, which may be told of a command that runs (section 5), nor of the
  Apple client's codes, which are the tool's.
- `NoLateSignal` – a signal helper that starts after the command's process has ended
  signals nobody, neither that process nor one that has taken over its ID. One that
  started before may hit a namesake between its check and its kill; the model has
  that case, and the documents do not exclude it.
- `NoCommandOfRemoved` – a removed sandbox has no command row and no tracked
  command, however late a command is registered or ends.
- `NotReleased` – a payload that the caller was told was not released never runs.
- `WaitersServed` – who waits for a command is answered once it is over.
- `NamesComplete` – a name is only in the catalog while its image is whole.
- `OneTransaction` – one transaction at a time over all processes, and none left
  behind by a call that failed.
- `AtomicCatalog` – the catalog changes by whole transactions; a refinement.
- `CacheTruthful`, `RepairedIsServed` – the cache of readings never vouches for a file that
  was not read as it is, and a repaired image is served again.
- `ServedWasGood` – each file of what `Resolve` and `List` return and `Export` publishes,
  the root's included, was good at some moment of the call, also when the call
  took the cache's word for it.
- `ServingIsRecorded` – while a server serves, its record stands.
- `ReportsAreTrue` – what `start` and `stop` report has been so.
- `RouteIsAdmitted` – what is proxied was routed for the owner of the name at a
  moment at which it had neither pending work nor a passed deadline.
- `WaitersAnswered` – a runtime that hangs keeps no request waiting.

### Fairness

Weak fairness for the steps of whoever holds the lock (`LockedStep`: running
code goes on, and every native call has a timeout), for the clock, for timers
and for the worker to report. Strong fairness where the code keeps trying for
something that others take in between: `lockLifecycle` polls `TryLock`, the
service calls under a context of their own, and the queue retries each of its
jobs 30 seconds after a failure. Startup is fair: a server that is down is
started again. Nothing is assumed of clients, of faults (which are bounded in
that run, since no retry helps against a Docker that always fails) or of crashes.

In `DockerCommands` and `AppleCommands` the goroutine of a command is fair, the stream delivers what
was written and ends when the process has closed it, and a cancelled connection
or a killed tool ends; the guest process and an unbroken connection promise
nothing. In `RouteAdmission` only the ten seconds of a shared read pass.

In `LogTail` only the consumers are fair, as long as a client takes what it is
sent: `streamLogs` reads in a loop until it has an error. Nothing is asked of the
command. A polling reader is at its select again and again, where `done` or its
own side is ready, hence strong fairness of `PollEnds`; of its timer no length is
assumed. In
`CacheLocks` and `Materialize` a blocked sender is strongly fair, since Go serves the senders of a
channel in their order; an owner releases in the end, because `Materialize`
defers it and each of its calls of Docker runs under its context.

## 4. Proofs

Every invariant and every action property that a passing run checks, and the
refinements, are also theorems, for every value of the constants that the
assumptions allow. The exceptions are at the end of this section.

### The lifecycle

`LifecycleProofs` proves of `Spec`, for every set of sandboxes and every value
of the bounds that satisfies `OwnershipAssumption` and `HandlersAssumption`:

- `TypeCorrect`, `NoOrphanEver`, `OneIntentEver`, `StartupNeverWedgedEver`
- `AckedIsCommittedEver`, `AckedGoesByDeleteEver`
- `TtlStopsOnlyOverdueEver`
- `IntentIsDrivenEver`, `RunsOnATimerEver`

None is inductive. Retiring an intent is safe only because of what the frame did
before: `CreateForget` and `RemoveDelete` drop the intent because the container
is already gone, `CreateCommit` writes a row because its intent is still there.
`Inv` adds `FrameInv`, which says for each step of a frame that its intent is
pending with the kind the step expects, that a creation in flight has no row,
and that a container is absent at every step that forgets it. `Memory` types the
server's maps; `EntryFree`, the one non-trivial part of it, says that the bound on
timers always leaves an entry free, without which `NewEntry` would not be one.
The induction has a lemma for each action, grouped as `Next` groups them; the
lemmas about transactions that they cite (an idle sandbox may begin, a continued
intent keeps its ID, removal keeps uniqueness) come first.

The promises to clients need more of the frame, in `Promises`:

- `Committed`: a creation that the service has adopted has no intent. It holds
  because `Adopt` retires the intent, and no request begins a creation of a
  sandbox there is.
- `Dated`: an intent to run has a deadline to write, and a live container without
  a deadline has such an intent pending. At the step where an expiration stops a
  sandbox, the row it has just read is overdue.
- `Roles`: who holds the lock is at a step of his own, so that a report of success
  is one of the right handler.
- `Retired`: what reports success has retired its intent, so that the worker may
  forget the job.
- `Driven`: an intent has a job, a service call, or the frame that registers it
  before it returns. With the lock free the last is no case, and `IntentIsDriven`
  remains.
- `Timed`: a live sandbox has a timer, or something pending that arms one, removes
  the sandbox, or is about to be handed to the queue.
- `Sweeping`: Recover's frame is only there while the server starts, Shutdown's
  while it ends.

### Output

`LogProofs` proves of `LogRing!Spec`, for every size of ring, every length of
output and every set of readers (`LogRingAssumption`), `TypeCorrect`,
`SnapshotIsTailEver` and `RingIsLog`, the refinement `Spec => IsLog`.

The invariant behind them says which slot holds which byte: `Holds`, for each of
the last `Size` positions p of the output, `buf[(p - 1) % Size] = p`. That a write
keeps it is arithmetic on remainders (`SlotAhead`, `SlotSmall`, `SlotShift`), from
one lemma that a remainder is unique; `ShortHolds` and `LongHolds` are the two
branches of `Write`. `RetainedIsNext` then gives what `Read` returns, and
`ReadIsLogStep` maps each of its outcomes to a step of `Log` or a stutter.

Of `LogTail!LogSpec` it proves, from the same assumption, `SnapshotsAreTailsEver`
and `EitherIsLog`, the refinement for both runtimes. Under Docker the invariant is
that of the ring, and the steps are its lemmas'. The Apple client's says that `data`
is a stretch of consecutive numbers that ends at `written` (`LastOf`):
`WriteKeepsLast` shows it of each branch of `Write`, from what parts of stretches and
adjoining stretches are. `SelectInv`, that a reader at its select has not
returned, is what makes `PollEnds` a step of `Log`.

### Commands

`CommandsProofs` proves of `AppleSpec`, which has a server of either runtime, for
any commands and clients: `FinalLogsEver`, `EndIsConfirmedEver`, `NoLateSignalEver`,
`NoCommandOfRemovedEver`, `NotReleasedEver`. The invariant follows a command through its
registration (`Registration`: the lock keeps the sandbox, and a removal has
emptied the map before its row goes), through its goroutine (`Observed`: an exit
status is only set of a process that is over, and with a drained stream unless an
error says otherwise) and through Apple's gate (`Guarded`: nothing runs before it
is open, and a refusal leaves it closed). `Consistent` is what a client that is
reading a log in two steps may rely on in the second.

### Image cache

`MaterializeProofs` proves of `CacheLocks!Spec`, for every finite set of calls and
any references and entries (`CacheLocksAssumption`), `TypeCorrect` (no count falls
below zero), `OneOwnerEver` and `NoLeakEver`. Mutual exclusion of the entries is easy;
that two owners of a reference look at the same entry is not. `Counted` says that
`refs` is the number of calls that looked an entry up, so that the last to leave,
and only it, deletes the entry (`LastUser`), and `CallInv` that the map still has
the entry of every call.

`UsesLocks`, `MSpec => Spec`, carries those theorems over to `Materialize`.
`SandboxHasSourceEver` rests on `WInv`: the ID that an owner has verified stays the one
it goes on with, whatever becomes of the tag, and `VerifiedIsSame` says that the
comparison of an export with its source leaves no difference in what a sandbox
gets. `MaterializeAssumption` says what an archive is: files with a path, a hash,
and whether they are regular.

### Image store

`ImageStoreProofs` proves of `ImageStore!Spec`, for any processes, calls, references,
roots, blobs and platforms: `TypeOKEver`, `NamesCompleteEver`, `OneTransactionEver` and
`AtomicCatalogEver`, the refinement of `ImageCatalog`. Of the constants it
needs `ImageStoreAssumption` and `SelectionAssumption`: a manifest that is selected
for a root has its graph within the root's, since it was found by walking there.

`NamesComplete` is not inductive: what a call is about to write must be complete
before it is written. `Planned` says that what a call means to publish is there or
in its stage (blobs are never deleted, so it stays there), and `Current` that the
catalog a call has read inside its transaction is still the one on disk; `Locks`,
which is `OneTransaction` and what the locks name, is what makes that so, and `Disk`
holds of the files between any two renames, so a process may die there. A
rename of `catalog.json` is then the one step that `ImageCatalog` sees.

`ImageVerifyProofs` proves of `ImageVerify!Spec`, for any images, calls and size of the
cache: `CacheTruthfulEver`, `ServedWasGoodEver`, `RepairedIsServedEver`. `Stamped` says that of the
files whose stamps a call holds those it has hashed are good: they were stamped
before they were read, and a change in between takes the stamp away. `Undisturbed`
says what a call that no change met still has: good files, and the stamp of each
file it has to compare, so that only its return is left to end it. `Seen` says where
the files are that were not good at any moment of a call: among those that it has
still to read, so that none is left when it returns.

### Servers and routing

`ServerControlProofs` proves of `ServerControl!Spec`, for any processes, commands,
directories and databases: `ServingIsRecordedEver`, `ReportsAreTrueEver`, and `OneServerEver`,
that two servers never have a directory or a database in common. Each lock names
who is between its taking and its release (`ServerHolds`, `CallHolds`), a record names
a process that is or was a server of its directory (`RecordKnown`), and a caller
that goes by a record which it read earlier knows at each step what has become of
that process (`CallKnows`). `FreshPid`, the bound on the reuse of process numbers, is
in the actions and so a premise of these theorems.

`RouteAdmissionProofs` proves `RouteIsAdmittedEver` for any owners of a name and any
public IDs. A shared read may go on with a later owner of the same public ID. Then
its own owner is `Gone`, and `Lasting` says that no step of the lifecycle brings back an
owner that lost the name: so the recheck refuses whoever waited for that read.

### How far

Each inductive invariant was checked with TLC before it was proved: those of
the lifecycle on the instance of `lifecycle_one` and on a larger one, that of
commands with one command and two clients, and on the first 22 million states of
two commands and one client, that of the image store on three instances of up to 1.4 million states, the others
on the instances of their runs.

Only model-checked:

- Liveness (`IntentsRetire`, `OverdueStops`, `OutputArrives`, `ReadersEnd`,
  `WaiterServed`, `WaitersServed`, `WaitersAnswered`), which is out of the prover's reach.
- The Apple client's lifecycle: `NoOrphan`, `IntentIsDriven` and `RunsOnATimer` are proved of the
  Docker client's `Spec`, not of `AppleSpec` in `AppleLifecycle`.

## 5. Finding

`lifecycle_boot`: `docs/architecture.md:167` says that recovery restores future
deadlines and stops overdue resources. `Recover` reads all rows once, completes
the pending intents, and then stops the rows that were overdue in what it read.
If a restart of an overdue sandbox was pending, its completion has just written
a deadline in the future, and the sandbox is stopped all the same. The
expiration path reads the row again (`expireLocked`), and `TtlStopsOnlyOverdue`
holds of it.

`applecontainer/recovery.go:52` and 88-102 do the same for the Apple client.

Observations that no run is needed for:

- `docs/usage.md:141` says that `command wait` returns the confirmed guest status.
  When `ExecAttach` fails, -1 is stored as the exit code, in memory and in the row, of a
  command whose process may have been started with only the answer lost
  (`docker/commands.go:193-202`). `WaitCommand` looks only at the error of the stream, and
  returns that -1 with an end time and no error while the process runs. The command
  line prints it and then refuses the number (`cli/command.go:92`); a client of the API
  takes it for the status. Nor can the command be signalled: `startErr` refuses it.
- The Apple client stores the code of the container tool as the command's. When the
  tool fails by itself or is killed, that is 125, -1 or the tool's own status, of a
  command that may run on (`applecontainer/commands.go:169-193`).
- A probe of `Running` holds the control lock for a moment. Another probe, or a
  server that starts just then, finds it taken and is refused or reports a server
  without one. `ReportsAreTrue` therefore asks of `start` only what it says of its own
  child.
- `stop` reports as soon as the control lock is free, when the database lock may
  still be held (`main.go:90-95`): a `start` right after it may fail.
- `proxy.go:24` says that live resolution keeps traffic from a different process.
  A port resolved and rechecked just before a stop may belong to another
  process when the proxy dials it: the check narrows the window.

## 6. Plan

1. Done: `Ownership`, `Handlers`, `Recovery`, `Lifecycle` and their proofs.
2. Done: `Log`, `LogRing`, `LogTail` and their proofs; `CacheLocks` and its proofs.
3. Done: `AppleLifecycle`, `DockerCommands`, `AppleCommands`, `Materialize`,
   `ImageCatalog`, `ImageStore`, `ImageVerify`, `ServerControl`, `RouteAdmission`.
4. Done: proofs of the safety properties of all of them but `AppleLifecycle`.
   Next: `NoOrphan`, `IntentIsDriven` and `RunsOnATimer` of the Apple client, whose invariant
   has the parts of `Promises` with its own frames and the attempts of one creation.
5. Further models: native effects that arrive after a later inspection; commits
   that are reported as failed; the streaming handler over two logs.

## 7. Not modelled

Argument parsing, JSON and MCP conversion, rendering, logging and configuration,
which keep no state between calls; archive streaming, file copies and statistics, which are
I/O on data no property tells apart; the registry protocol and the layout of
tar archives; the proxy's own route cache, which is used only when no resolver
is set (`main.go:138` always sets one); the platform's selection among the
manifests of an index; and strangers among the processes of the host.
