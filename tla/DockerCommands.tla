---------------------------- MODULE DockerCommands ----------------------------
(***************************************************************************)
(* Commands of one Docker sandbox (internal/docker/commands.go and         *)
(* command_identity.go): ExecCommand registers a command under lifecycleMu *)
(* and leaves a goroutine that attaches to the guest process, copies its   *)
(* output, learns its guest identity and its end.  Clients wait for, kill  *)
(* and read commands meanwhile, and the sandbox is stopped or removed.     *)
(***************************************************************************)
EXTENDS Naturals, FiniteSets

CONSTANTS
  Commands,       \* command IDs; each is used once
  Clients,        \* callers of wait, kill and logs
  MaxOut,         \* bound: pieces of output of a process, preamble included
  Nobody          \* no command

ASSUME CommandsAssumption ==
  /\ MaxOut \in Nat \ {0}
  /\ Nobody \notin Commands

VARIABLES
  box,            \* the container, as Docker has it
  owned,          \* whether the sandbox has a row
  removing,       \* whether a delete intent is pending
  lock,           \* what lifecycleMu is held for, and by which command
  closing,        \* Shutdown has taken the lock for good
  row,            \* the command rows of the database, by exit code
  tracked,        \* Client.commands
  rc,             \* the runningCommand of each command and its goroutine
  proc,           \* the guest process of each command
  cl              \* the request of each client

vars == <<box, owned, removing, lock, closing, row, tracked, rc, proc, cl>>
sbxVars == <<box, owned, removing, lock, closing>>

(* Exit codes: "none" is a nil code, "fail" the -1 of a failed attach,     *)
(* "exit" the status that Docker reported.                                 *)
Codes == {"none", "fail", "exit"}

Free == [for |-> "free", c |-> Nobody]
NoRc == [go |-> "none", wrapped |-> FALSE, ident |-> "none", code |-> "none",
         err |-> FALSE, cancelled |-> FALSE, cap |-> 0]
NoProc == [st |-> "none", out |-> 0, mute |-> FALSE]
NoRequest == [op |-> "none", c |-> Nobody, pc |-> "idle", res |-> "none",
              code |-> "none", got |-> 0, helper |-> "none", late |-> FALSE]

Finished(c) == rc[c].code # "none"
Attached(c) == rc[c].go \notin {"none", "attach"}   \* close(rc.attached)
Done(c) == rc[c].go = "done"                        \* close(rc.done)

\* "reused": the process has ended and another one of the guest has its ID.
\* "gated": of Apple's client alone, see AppleCommands.
Running(c) == proc[c].st = "running"
Alive(c) == proc[c].st \in {"gated", "running"}
Over(c) == proc[c].st \in {"dead", "reused"}
Killed == [c \in Commands |-> IF proc[c].st = "none" THEN proc[c]
                              ELSE [proc[c] EXCEPT !.st = "dead"]]

\* The signal helper of a request is a process of the guest: "sent", "checked",
\* "failed", or by whom its signal reached, "own" or "other".  It goes on when
\* the request has been given up.  late: the command's process had ended when
\* the helper was started.
Helping(k) == cl[k].helper \in {"sent", "checked"}
NoHelpers == [k \in Clients |-> IF Helping(k) THEN [cl[k] EXCEPT !.helper = "failed"] ELSE cl[k]]
Orphan(r) == [NoRequest EXCEPT !.op = r.op, !.c = r.c, !.helper = r.helper, !.late = r.late]

-----------------------------------------------------------------------------
(* ExecCommand, under the lock.                                            *)

\* RequireIdle, and the inspection of the container.
ExecBegin(c) ==
  /\ lock = Free /\ ~closing
  /\ owned /\ ~removing
  /\ box = "running"
  /\ rc[c].go = "none" /\ row[c] = "absent"
  /\ lock' = [for |-> "probe", c |-> c]
  /\ UNCHANGED <<box, owned, removing, closing, row, tracked, rc, proc, cl>>

\* runIdentityHelper: a confirmed success, a confirmed refusal, or an error,
\* which may hide either.
HelperAnswers == {"ok", "refused", "error"}

\* probeIdentity decides whether the wrapper is used; an environment that the
\* wrapper could change, or a confirmed refusal, means direct execution.
ExecProbe ==
  /\ lock.for = "probe"
  /\ \E compatible \in BOOLEAN, answer \in HelperAnswers :
       IF compatible /\ (answer = "error" \/ box # "running")
       THEN lock' = Free /\ UNCHANGED rc
       ELSE /\ lock' = [lock EXCEPT !.for = "create"]
            /\ rc' = [rc EXCEPT ![lock.c].wrapped = compatible /\ answer = "ok"]
  /\ UNCHANGED <<box, owned, removing, closing, row, tracked, proc, cl>>

ExecCreate ==
  /\ lock.for = "create"
  /\ \/ box = "running" /\ lock' = [lock EXCEPT !.for = "save"]
     \/ lock' = Free
  /\ UNCHANGED <<box, owned, removing, closing, row, tracked, rc, proc, cl>>

\* SaveCommand, then the tracking and the goroutine.  Without the wrapper the
\* identity is published at once, as unsupported.
ExecSave ==
  /\ lock.for = "save"
  /\ \/ /\ row' = [row EXCEPT ![lock.c] = "none"]
        /\ tracked' = tracked \cup {lock.c}
        /\ rc' = [rc EXCEPT ![lock.c].go = "attach",
                            ![lock.c].ident = IF @ = "none" /\ ~rc[lock.c].wrapped
                                              THEN "err" ELSE @]
     \/ UNCHANGED <<row, tracked, rc>>
  /\ lock' = Free
  /\ UNCHANGED <<box, owned, removing, closing, proc, cl>>

-----------------------------------------------------------------------------
(* The goroutine of a command.                                             *)

\* publishIdentity: the first one counts.
Publish(r, i) == IF r.ident = "none" THEN [r EXCEPT !.ident = i] ELSE r

Starts(c) == box = "running" /\ proc' = [proc EXCEPT ![c].st = "running"]

AttachWorks(c) ==
  /\ rc[c].go = "attach" /\ ~rc[c].cancelled
  /\ Starts(c)
  /\ rc' = [rc EXCEPT ![c].go = "stream"]
  /\ UNCHANGED <<sbxVars, row, tracked, cl>>

\* ExecAttach fails, or its answer is lost when the process runs already.
AttachFails(c) ==
  /\ rc[c].go = "attach"
  /\ Starts(c) \/ UNCHANGED proc
  /\ rc' = [rc EXCEPT ![c] = Publish([rc[c] EXCEPT !.go = "row", !.code = "fail"], "err")]
  /\ UNCHANGED <<sbxVars, row, tracked, cl>>

\* StdCopy: the wrapper's first record is its identity.
Copy(c) ==
  /\ rc[c].go = "stream"
  /\ rc[c].cap < proc[c].out
  /\ rc' = [rc EXCEPT ![c] = Publish([rc[c] EXCEPT !.cap = @ + 1], "ok")]
  /\ UNCHANGED <<sbxVars, row, tracked, proc, cl>>

\* The first record is too long, or not the identity that was asked for.
BadPreamble(c) ==
  /\ rc[c].go = "stream" /\ rc[c].ident = "none"
  /\ rc[c].cap < proc[c].out
  /\ rc' = [rc EXCEPT ![c] = Publish([rc[c] EXCEPT !.go = "inspect", !.err = TRUE], "err")]
  /\ UNCHANGED <<sbxVars, row, tracked, proc, cl>>

\* Defect: the stream is closed when the process ends, drained or not.
StreamEndsEarly(c) ==
  /\ rc[c].go = "stream"
  /\ ~Running(c) \/ proc[c].mute
  /\ rc' = [rc EXCEPT ![c] = Publish([rc[c] EXCEPT !.go = "inspect",
                                          !.err = (rc[c].ident = "none")], "err")]
  /\ UNCHANGED <<sbxVars, row, tracked, proc, cl>>

\* identityStderr.finish: a wrapper that ended without its record is an error.
\* The process may close its output and go on.
StreamEnds(c) ==
  /\ rc[c].go = "stream"
  /\ rc[c].cap = proc[c].out
  /\ ~Running(c) \/ proc[c].mute
  /\ rc' = [rc EXCEPT ![c] = Publish([rc[c] EXCEPT !.go = "inspect",
                                          !.err = (rc[c].ident = "none")], "err")]
  /\ UNCHANGED <<sbxVars, row, tracked, proc, cl>>

\* The connection breaks, or its context is cancelled.
StreamFails(c) ==
  /\ rc[c].go = "stream"
  /\ rc' = [rc EXCEPT ![c] = Publish([rc[c] EXCEPT !.go = "inspect", !.err = TRUE], "err")]
  /\ UNCHANGED <<sbxVars, row, tracked, proc, cl>>

\* Defect: any answer of ExecInspect counts as the end.
EndsUnconfirmed(c) == TRUE

\* ExecInspect confirms the end only of a process that does not run.
Confirms(c) == ~Running(c)

\* Defect: the observation goes on until the end is confirmed.
InspectUntilConfirmed(c) ==
  /\ rc[c].go = "inspect"
  /\ Confirms(c) /\ rc' = [rc EXCEPT ![c].go = "row", ![c].code = "exit"]
  /\ UNCHANGED <<sbxVars, row, tracked, proc, cl>>

Inspect(c) ==
  /\ rc[c].go = "inspect"
  /\ \/ Confirms(c) /\ rc' = [rc EXCEPT ![c].go = "row", ![c].code = "exit"]
     \/ rc' = [rc EXCEPT ![c].go = "close", ![c].err = TRUE]
  /\ UNCHANGED <<sbxVars, row, tracked, proc, cl>>

\* Defect: the finished command is written whether or not its row is there.
UpsertFinished(c) ==
  /\ rc[c].go = "row"
  /\ row' = [row EXCEPT ![c] = rc[c].code]
  /\ rc' = [rc EXCEPT ![c].go = "close"]
  /\ UNCHANGED <<sbxVars, tracked, proc, cl>>

\* UpdateCommandFinished: its error is ignored, a deleted row stays deleted.
UpdateFinished(c) ==
  /\ rc[c].go = "row"
  /\ \/ row' = [row EXCEPT ![c] = IF @ = "absent" THEN @ ELSE rc[c].code]
     \/ UNCHANGED row
  /\ rc' = [rc EXCEPT ![c].go = "close"]
  /\ UNCHANGED <<sbxVars, tracked, proc, cl>>

\* The deferred closing of both buffers and of done.
Close(c) ==
  /\ rc[c].go = "close"
  /\ rc' = [rc EXCEPT ![c].go = "done"]
  /\ UNCHANGED <<sbxVars, row, tracked, proc, cl>>

\* Five minutes after the end.
Evict(c) ==
  /\ Done(c) /\ c \in tracked
  /\ tracked' = tracked \ {c}
  /\ UNCHANGED <<sbxVars, row, rc, proc, cl>>

-----------------------------------------------------------------------------
(* The guest: a process writes, closes its output, ends, has a namesake.   *)

Writes(c) ==
  /\ Running(c) /\ ~proc[c].mute /\ proc[c].out < MaxOut
  /\ proc' = [proc EXCEPT ![c].out = @ + 1]
  /\ UNCHANGED <<sbxVars, row, tracked, rc, cl>>

Mutes(c) ==
  /\ Running(c) /\ ~proc[c].mute
  /\ proc' = [proc EXCEPT ![c].mute = TRUE]
  /\ UNCHANGED <<sbxVars, row, tracked, rc, cl>>

Exits(c) ==
  /\ Running(c)
  /\ proc' = [proc EXCEPT ![c].st = "dead"]
  /\ UNCHANGED <<sbxVars, row, tracked, rc, cl>>

PidReused(c) ==
  /\ proc[c].st = "dead" /\ box = "running"
  /\ proc' = [proc EXCEPT ![c].st = "reused"]
  /\ UNCHANGED <<sbxVars, row, tracked, rc, cl>>

-----------------------------------------------------------------------------
(* The sandbox: stopped or started by whom ever, removed, shut down.       *)

BoxStops ==
  /\ box = "running"
  /\ box' = "stopped"
  /\ proc' = Killed
  /\ cl' = NoHelpers
  /\ UNCHANGED <<owned, removing, lock, closing, row, tracked, rc>>

BoxStarts ==
  /\ lock = Free /\ ~closing /\ owned /\ ~removing
  /\ box = "stopped"
  /\ box' = "running"
  /\ UNCHANGED <<owned, removing, lock, closing, row, tracked, rc, proc, cl>>

\* The first Remove begins the intent; later ones and recovery resume it.
RemoveBegin ==
  /\ lock = Free /\ ~closing /\ owned
  /\ removing' = TRUE
  /\ lock' = [Free EXCEPT !.for = "remove"]
  /\ UNCHANGED <<box, owned, closing, row, tracked, rc, proc, cl>>

\* clearCommands: every tracked command of the sandbox is cancelled and forgotten.
RemoveNative ==
  /\ lock.for = "remove"
  /\ \/ /\ box' = "gone"
        /\ proc' = Killed
        /\ cl' = NoHelpers
        /\ rc' = [c \in Commands |-> IF c \in tracked
                                     THEN [rc[c] EXCEPT !.cancelled = TRUE] ELSE rc[c]]
        /\ tracked' = {}
        /\ lock' = [lock EXCEPT !.for = "delete"]
     \/ lock' = Free /\ UNCHANGED <<box, proc, rc, tracked, cl>>
  /\ UNCHANGED <<owned, removing, closing, row>>

\* DeleteOperation: row, command history and intent go together.
RemoveDelete ==
  /\ lock.for = "delete"
  /\ \/ /\ owned' = FALSE /\ removing' = FALSE
        /\ row' = [c \in Commands |-> "absent"]
     \/ UNCHANGED <<owned, removing, row>>
  /\ lock' = Free
  /\ UNCHANGED <<box, closing, tracked, rc, proc, cl>>

Shutdown ==
  /\ lock = Free /\ ~closing
  /\ closing' = TRUE
  /\ rc' = [c \in Commands |-> IF c \in tracked
                               THEN [rc[c] EXCEPT !.cancelled = TRUE] ELSE rc[c]]
  /\ UNCHANGED <<box, owned, removing, lock, row, tracked, proc, cl>>

\* The server process ends and another one starts: rows and the processes of
\* the guest stay, signal helpers among them.
Restart ==
  /\ lock' = Free /\ closing' = FALSE
  /\ tracked' = {}
  /\ rc' = [c \in Commands |-> IF rc[c].go = "none" THEN NoRc
                               ELSE [NoRc EXCEPT !.go = "lost"]]
  /\ cl' = [k \in Clients |-> IF Helping(k) THEN Orphan(cl[k]) ELSE NoRequest]
  /\ UNCHANGED <<box, owned, removing, row, proc>>

-----------------------------------------------------------------------------
(* Clients.  A request that found its command in the map keeps using it    *)
(* after the map has dropped it.                                           *)

Request(k, op, c, pc) == cl' = [cl EXCEPT ![k] = [NoRequest EXCEPT !.op = op, !.c = c, !.pc = pc]]
Step(k, pc) == cl' = [cl EXCEPT ![k].pc = pc]
Answer(k, r) == cl' = [cl EXCEPT ![k] = [@ EXCEPT !.pc = "idle", !.res = r]]
At(k, pc) == cl[k].pc = pc

ClientStep == UNCHANGED <<sbxVars, row, tracked, rc, proc>>

\* Bound: a client whose helper goes on asks nothing; other clients may.
Ready(k) == cl[k].pc = "idle" /\ ~Helping(k)

\* A request for a command that was registered at some time.
Asks(k, op, c, pc) ==
  /\ Ready(k) /\ rc[c].go # "none"
  /\ IF c \in tracked \/ op = "wait"
     THEN Request(k, op, c, IF c \in tracked THEN pc ELSE "read")
     ELSE cl' = [cl EXCEPT ![k] =
            [NoRequest EXCEPT !.op = op, !.c = c,
                              !.res = IF op = "kill" /\ row[c] # "absent"
                                      THEN "finished" ELSE "notfound"]]
  /\ ClientStep

WaitCommand(k, c) == Asks(k, "wait", c, "done")
KillCommand(k, c) == Asks(k, "kill", c, "running")
GetCommandLogs(k, c) == Asks(k, "logs", c, "code")

WaitDone(k) ==
  LET c == cl[k].c IN
  /\ At(k, "done") /\ Done(c)
  /\ IF rc[c].err THEN Answer(k, "err") ELSE Step(k, "read")
  /\ ClientStep

\* dbCommandToDetail: a command that is still tracked answers for itself.
DetailCode(c) == IF c \in tracked /\ Finished(c) THEN rc[c].code ELSE row[c]

\* GetCommand.
ReadRow(k) ==
  LET c == cl[k].c IN
  /\ At(k, "read")
  /\ cl' = [cl EXCEPT ![k] = [@ EXCEPT !.pc = "idle",
               !.res = IF row[c] = "absent" THEN "notfound" ELSE "ok",
               !.code = IF row[c] = "absent" THEN "none" ELSE DetailCode(c)]]
  /\ ClientStep

LogsCode(k) ==
  LET c == cl[k].c IN
  /\ At(k, "code")
  /\ IF rc[c].err THEN Answer(k, "err")
     ELSE cl' = [cl EXCEPT ![k] = [@ EXCEPT !.pc = "bytes", !.code = rc[c].code]]
  /\ ClientStep

LogsBytes(k) ==
  /\ At(k, "bytes")
  /\ cl' = [cl EXCEPT ![k] = [@ EXCEPT !.pc = "idle", !.res = "ok", !.got = rc[cl[k].c].cap]]
  /\ ClientStep

\* waitCommandRunning: what the terminal check answers, "" if nothing.
Terminal(c) ==
  CASE rc[c].code = "fail" \/ rc[c].err -> "err"
    [] rc[c].code = "exit" \/ Done(c) -> "finished"
    [] OTHER -> ""

KillRunning(k) ==
  LET c == cl[k].c IN
  /\ At(k, "running")
  /\ \/ Terminal(c) # "" /\ Answer(k, Terminal(c))
     \/ Attached(c) /\ Running(c) /\ Terminal(c) = "" /\ Step(k, "identity")
  /\ ClientStep

\* waitGuestIdentity.
KillIdentity(k) ==
  LET c == cl[k].c IN
  /\ At(k, "identity")
  /\ rc[c].ident # "none" \/ Done(c)
  /\ CASE rc[c].ident = "err" \/ rc[c].err -> Answer(k, "err")
       [] rc[c].ident # "err" /\ ~rc[c].err /\ Finished(c) -> Answer(k, "finished")
       [] OTHER -> Step(k, "signal")
  /\ ClientStep

\* runIdentityHelper.
StartHelper(k) ==
  /\ At(k, "signal") /\ box = "running"
  /\ cl' = [cl EXCEPT ![k] = [@ EXCEPT !.pc = "helper", !.helper = "sent",
                                      !.late = Over(cl[k].c)]]
  /\ ClientStep

HelperStep(k, st) == cl' = [cl EXCEPT ![k].helper = st] /\ ClientStep

\* Defect: the helper trusts the process ID.
SamePid(c) == proc[c].st \notin {"none", "dead"}

\* identitySignalScript: /proc has the process ID, with the same start time.
SameStart(c) == Alive(c)

HelperChecks(k) ==
  /\ cl[k].helper = "sent"
  /\ HelperStep(k, IF SameStart(cl[k].c) THEN "checked" ELSE "failed")

\* The kill of whatever process has the ID by now.  It need not end it.
HelperKills(k) ==
  LET c == cl[k].c IN
  /\ cl[k].helper = "checked"
  /\ HelperStep(k, CASE Alive(c) -> "own"
                     [] proc[c].st = "reused" -> "other"
                     [] OTHER -> "failed")

Helper(k) == HelperChecks(k) \/ HelperKills(k)

\* The helper's acknowledgement, its refusal, or none because it did not start.
KillSignal(k) ==
  /\ \/ At(k, "helper") /\ cl[k].helper \in {"own", "other"} /\ Step(k, "settle")
     \/ At(k, "helper") /\ cl[k].helper = "failed" /\ Answer(k, "err")
     \/ At(k, "signal") /\ Answer(k, "err")
  /\ ClientStep

\* At most half a second for the end, then GetCommand.
KillSettles(k) == At(k, "settle") /\ Step(k, "read") /\ ClientStep

\* The context of the request ends, or one of the budgets.
Expires(k) == ~At(k, "idle") /\ Answer(k, "err") /\ ClientStep

-----------------------------------------------------------------------------

Init ==
  /\ box = "running" /\ owned = TRUE /\ removing = FALSE
  /\ lock = Free /\ closing = FALSE
  /\ row = [c \in Commands |-> "absent"]
  /\ tracked = {}
  /\ rc = [c \in Commands |-> NoRc]
  /\ proc = [c \in Commands |-> NoProc]
  /\ cl = [k \in Clients |-> NoRequest]

Attach(c) == AttachWorks(c) \/ AttachFails(c)
Ends(c) == Inspect(c) \/ UpdateFinished(c) \/ Close(c)
Guest(c) == Writes(c) \/ Mutes(c) \/ Exits(c) \/ PidReused(c)

Sandbox ==
  \/ ExecProbe \/ ExecCreate \/ ExecSave \/ BoxStops \/ BoxStarts
  \/ RemoveBegin \/ RemoveNative \/ RemoveDelete \/ Shutdown \/ Restart

Served(k) ==
  \/ WaitDone(k) \/ ReadRow(k) \/ LogsCode(k) \/ LogsBytes(k)
  \/ KillRunning(k) \/ KillIdentity(k) \/ StartHelper(k) \/ KillSignal(k) \/ KillSettles(k)

Next ==
  \/ Sandbox
  \/ \E c \in Commands :
       \/ ExecBegin(c) \/ Attach(c) \/ Copy(c) \/ BadPreamble(c)
       \/ StreamEnds(c) \/ StreamFails(c)
       \/ Ends(c) \/ Evict(c) \/ Guest(c)
       \/ \E k \in Clients : WaitCommand(k, c) \/ KillCommand(k, c) \/ GetCommandLogs(k, c)
  \/ \E k \in Clients : Served(k) \/ Helper(k) \/ Expires(k)

Spec == Init /\ [][Next]_vars

\* The goroutine runs on; Docker answers, delivers the end of a stream, and a
\* cancelled connection is closed.  A broken connection is not promised.
Fairness ==
  /\ \A c \in Commands :
       /\ WF_vars(Attach(c)) /\ WF_vars(Copy(c) \/ StreamEnds(c))
       /\ WF_vars(rc[c].cancelled /\ StreamFails(c))
       /\ WF_vars(Ends(c))
  /\ \A k \in Clients : WF_vars(Served(k))

-----------------------------------------------------------------------------
(* Safety.                                                                 *)

\* A snapshot of the logs that carries the exit status of a process carries
\* all the output it ever wrote: the status is set only after the stream was
\* drained, and the snapshot reads the status before it copies the buffers.
FinalLogs ==
  \A k \in Clients :
    cl[k].op = "logs" /\ cl[k].res = "ok" /\ cl[k].code = "exit"
      => cl[k].got = proc[cl[k].c].out

\* A signal helper that is started after the command's process has ended signals
\* nothing, whatever the server still believes of the command and whichever
\* process has its ID by now.  (One that was started before may reach such a
\* namesake between its check and its kill: docs/usage.md says so.)
NoLateSignal == \A k \in Clients : cl[k].late => cl[k].helper \notin {"own", "other"}

\* "Ownership and command history are deleted together" (docs/architecture.md):
\* a removed sandbox has no command row and no tracked command, whatever was
\* being registered or was just ending while it was removed.
NoCommandOfRemoved ==
  ~owned => tracked = {} /\ \A c \in Commands : row[c] = "absent"

-----------------------------------------------------------------------------
(* Liveness.                                                               *)

\* Whoever waits for a command is answered once its process has ended or its
\* observation was cancelled, through whatever error the stream ends.
WaitersServed ==
  \A k \in Clients, c \in Commands :
    cl[k].pc = "done" /\ cl[k].c = c /\ (Over(c) \/ rc[c].cancelled)
      ~> cl[k].pc # "done"
=============================================================================
