----------------------------- MODULE AppleCommands -----------------------------
(***************************************************************************)
(* Commands of a sandbox under either runtime.  Those of the Apple client  *)
(* (internal/applecontainer/commands.go) run as a child process of the     *)
(* server, the container tool, whose end is taken for the command's.  In   *)
(* the guest a wrapper publishes its identity and waits at a gate until    *)
(* ExecCommand, which holds the client's lock all the time, has read it.   *)
(* The database, the removal, the guest and the answers of a tracked       *)
(* command are those of DockerCommands.                                    *)
(***************************************************************************)
EXTENDS DockerCommands

VARIABLES
  runtime,        \* the runtime that the server was started with
  gate            \* the wrapper's input: "held", "open" (token written) or "closed"

appleVars == <<vars, runtime, gate>>

\* The identity is there and the payload is not: the wrapper runs.
Gated(c) == proc[c].st = "gated"

-----------------------------------------------------------------------------
(* ExecCommand.                                                            *)

\* RequireIdle, the listing of the container, room among the tracked commands.
BeginExec(c) ==
  /\ lock = Free /\ ~closing
  /\ owned /\ ~removing
  /\ box = "running"
  /\ rc[c].go = "none" /\ row[c] = "absent"
  /\ lock' = [for |-> "save", c |-> c]
  /\ UNCHANGED <<box, owned, removing, closing, row, tracked, rc, proc, cl, gate>>

SaveRow ==
  /\ lock.for = "save"
  /\ \/ row' = [row EXCEPT ![lock.c] = "none"] /\ lock' = [lock EXCEPT !.for = "start"]
     \/ lock' = Free /\ UNCHANGED row
  /\ UNCHANGED <<box, owned, removing, closing, tracked, rc, proc, cl, gate>>

\* Defect: the wrapper is not made to wait.
StartUngated ==
  /\ lock.for = "start"
  /\ rc' = [rc EXCEPT ![lock.c].go = "cli"] /\ gate' = [gate EXCEPT ![lock.c] = "open"]
  /\ tracked' = tracked \cup {lock.c}
  /\ lock' = [lock EXCEPT !.for = "ready"]
  /\ UNCHANGED <<box, owned, removing, closing, row, proc, cl>>

\* Of the tool; the command that could not be started is recorded as finished,
\* if the database lets it.
StartTool ==
  /\ lock.for = "start"
  /\ \/ /\ rc' = [rc EXCEPT ![lock.c].go = "cli"] /\ gate' = [gate EXCEPT ![lock.c] = "held"]
        /\ tracked' = tracked \cup {lock.c}
        /\ lock' = [lock EXCEPT !.for = "ready"]
        /\ UNCHANGED row
     \/ /\ row' \in {row, [row EXCEPT ![lock.c] = "fail"]}
        /\ rc' = [rc EXCEPT ![lock.c].go = "lost"]
        /\ lock' = Free
        /\ UNCHANGED <<tracked, gate>>
  /\ UNCHANGED <<box, owned, removing, closing, proc, cl>>

\* The identity is read and kept for signals, and the token written.
Release ==
  /\ lock.for = "ready" /\ Gated(lock.c)
  /\ rc' = [rc EXCEPT ![lock.c].ident = "ok"]
  /\ gate' = [gate EXCEPT ![lock.c] = "open"]
  /\ lock' = Free
  /\ UNCHANGED <<box, owned, removing, closing, row, tracked, proc, cl>>

\* The command is over before, or what is read is not its identity, or the token
\* cannot be written: the gate is closed.
NotReady ==
  /\ lock.for = "ready"
  /\ \/ Done(lock.c) /\ UNCHANGED rc
     \/ Gated(lock.c) /\ rc' \in {rc, [rc EXCEPT ![lock.c].ident = "ok"]}
  /\ gate' = [gate EXCEPT ![lock.c] = "closed"]
  /\ lock' = Free
  /\ UNCHANGED <<box, owned, removing, closing, row, tracked, proc, cl>>

\* Ten seconds have passed: the tool is killed too, and the caller is told that
\* the payload was not released (rc.ident is "err").
HandshakeTimesOut ==
  /\ lock.for = "ready"
  /\ gate' = [gate EXCEPT ![lock.c] = "closed"]
  /\ rc' = [rc EXCEPT ![lock.c].cancelled = TRUE, ![lock.c].ident = "err"]
  /\ lock' = Free
  /\ UNCHANGED <<box, owned, removing, closing, row, tracked, proc, cl>>

-----------------------------------------------------------------------------
(* The goroutine of a command, and the tool it waits for.                  *)

CopyOutput(c) ==
  /\ rc[c].go = "cli" /\ rc[c].cap < proc[c].out
  /\ rc' = [rc EXCEPT ![c].cap = @ + 1]
  /\ UNCHANGED <<sbxVars, row, tracked, proc, cl, gate>>

\* What the goroutine does when Wait returns, under the command's own mutex, so
\* that no snapshot sees the half of it.
Finish(c, code) ==
  /\ \/ row' = [row EXCEPT ![c] = IF @ = "absent" THEN @ ELSE code]
        /\ rc' = [rc EXCEPT ![c].go = "close", ![c].code = code]
     \/ rc' = [rc EXCEPT ![c].go = "close", ![c].code = code, ![c].err = TRUE]
        /\ UNCHANGED row
  /\ UNCHANGED <<sbxVars, tracked, proc, cl, gate>>

\* Defect: the end is stored before the output is all there.
ToolEndsEarly(c) ==
  /\ rc[c].go = "cli" /\ Over(c)
  /\ Finish(c, "exit")

\* The tool ends with the process, when the output has been handed over.
ToolEnds(c) ==
  /\ rc[c].go = "cli" /\ Over(c) /\ rc[c].cap = proc[c].out
  /\ Finish(c, "exit")

\* It is killed, or fails by itself: the status stored is not the guest's.
ToolDies(c) == rc[c].go = "cli" /\ Finish(c, "fail")

-----------------------------------------------------------------------------
(* The guest.                                                              *)

WrapperStarts(c) ==
  /\ rc[c].go = "cli" /\ proc[c].st = "none" /\ box = "running"
  /\ proc' = [proc EXCEPT ![c].st = "gated"]
  /\ UNCHANGED <<sbxVars, row, tracked, rc, cl, gate>>

\* exec of the payload, after the token; or the input ends, or something fails.
WrapperEnds(c) ==
  /\ Gated(c)
  /\ \E st \in {"dead"} \cup (IF gate[c] = "open" THEN {"running"} ELSE {}) :
       proc' = [proc EXCEPT ![c].st = st]
  /\ UNCHANGED <<sbxVars, row, tracked, rc, cl, gate>>

\* The server goes, and its end of the input with it.
ServerRestarts ==
  /\ Restart
  /\ gate' = [c \in Commands |-> IF gate[c] = "held" THEN "closed" ELSE gate[c]]

-----------------------------------------------------------------------------
(* Clients.  Everything that looks a command up takes the client's lock.   *)

Known(c) == owned /\ row[c] # "absent"
Tells(k, r, code) == cl' = [cl EXCEPT ![k] = [@ EXCEPT !.pc = "idle", !.res = r, !.code = code]]
NewAnswer(k, op, c, r) == cl' = [cl EXCEPT ![k] = [NoRequest EXCEPT !.op = op, !.c = c, !.res = r]]

Idle(k, c) == Ready(k) /\ rc[c].go # "none" /\ lock = Free

\* tracked; an error makes wait look at the row once more.
Waits(k, c) ==
  /\ Idle(k, c)
  /\ Request(k, "wait", c, IF Known(c) /\ c \in tracked THEN "done" ELSE "get")
  /\ ClientStep /\ UNCHANGED gate

Waited(k) ==
  LET c == cl[k].c IN
  /\ At(k, "done") /\ Done(c)
  /\ IF rc[c].err THEN Answer(k, "err") ELSE Tells(k, "ok", rc[c].code)
  /\ ClientStep /\ UNCHANGED gate

\* GetCommand of a command that was not tracked: only an end is an answer.
Gets(k) ==
  LET c == cl[k].c
      code == IF c \in tracked THEN rc[c].code ELSE row[c]
  IN  /\ At(k, "get") /\ lock = Free
      /\ IF Known(c) /\ code # "none" THEN Tells(k, "ok", code) ELSE Answer(k, "err")
      /\ ClientStep /\ UNCHANGED gate

Logs(k, c) ==
  /\ Idle(k, c)
  /\ IF Known(c) /\ c \in tracked THEN Request(k, "logs", c, "code")
                                  ELSE NewAnswer(k, "logs", c, "err")
  /\ ClientStep /\ UNCHANGED gate

\* KillCommand, up to the helper: the lock is kept.
Kills(k, c) ==
  /\ Idle(k, c)
  /\ IF /\ Known(c) /\ row[c] = "none"
        /\ c \in tracked /\ ~Done(c) /\ rc[c].ident = "ok" /\ box = "running"
     THEN Request(k, "kill", c, "signal") /\ lock' = [for |-> "kill", c |-> c]
     ELSE NewAnswer(k, "kill", c, IF Known(c) /\ (row[c] # "none" \/ Done(c))
                                  THEN "finished" ELSE "err")
          /\ UNCHANGED lock
  /\ UNCHANGED <<box, owned, removing, closing, row, tracked, rc, proc, gate>>

\* signalWrapper, a helper like Docker's.  Its answer may be lost, the tool fail
\* or the request's context end at any time.
Signals(k) ==
  /\ At(k, "signal") \/ At(k, "helper")
  /\ lock' = Free
  /\ \/ At(k, "helper") /\ cl[k].helper \in {"own", "other"} /\ Answer(k, "ok")
     \/ Answer(k, "err")
  /\ UNCHANGED <<box, owned, removing, closing, row, tracked, rc, proc, gate>>

\* The context of a wait ends.
Leaves(k) == At(k, "done") /\ Answer(k, "err") /\ ClientStep /\ UNCHANGED gate

-----------------------------------------------------------------------------

AppleInit ==
  /\ Init
  /\ runtime \in {"docker", "container"}
  /\ gate = [c \in Commands |-> "closed"]

Exec == SaveRow \/ StartTool \/ Release \/ NotReady \/ HandshakeTimesOut

Tool(c) == CopyOutput(c) \/ ToolEnds(c) \/ ToolDies(c)

\* As with Docker.
Shared ==
  /\ \/ BoxStops \/ BoxStarts \/ RemoveBegin \/ RemoveNative \/ RemoveDelete \/ Shutdown
     \/ \E c \in Commands : Close(c) \/ Evict(c) \/ Guest(c)
     \/ \E k \in Clients : LogsCode(k) \/ LogsBytes(k) \/ StartHelper(k) \/ Helper(k)
  /\ UNCHANGED gate

ContainerNext ==
  \/ Exec \/ ServerRestarts \/ Shared
  \/ \E c \in Commands :
       \/ BeginExec(c) \/ Tool(c) \/ WrapperStarts(c) \/ WrapperEnds(c)
       \/ \E k \in Clients : Waits(k, c) \/ Logs(k, c) \/ Kills(k, c)
  \/ \E k \in Clients : Waited(k) \/ Gets(k) \/ Signals(k) \/ Leaves(k)

AppleNext ==
  /\ \/ runtime = "docker" /\ Next /\ UNCHANGED gate
     \/ runtime = "container" /\ ContainerNext
  /\ UNCHANGED runtime

\* The tool hands over what is there and ends with its process, or when it is
\* killed; requests go on.
ToolFairness ==
  /\ \A c \in Commands :
       /\ WF_appleVars((CopyOutput(c) \/ ToolEnds(c)) /\ UNCHANGED runtime)
       /\ WF_appleVars(rc[c].cancelled /\ ToolDies(c) /\ UNCHANGED runtime)
  /\ \A k \in Clients : WF_appleVars((Waited(k) \/ Signals(k)) /\ UNCHANGED runtime)

AppleSpec == AppleInit /\ [][AppleNext]_appleVars /\ Fairness /\ ToolFairness

-----------------------------------------------------------------------------
(* Properties, beside those of DockerCommands.                             *)

\* What memory, the database and answers to clients say of a command's end.
Statuses(c) == {rc[c].code, row[c]} \cup {cl[k].code : k \in {j \in Clients : cl[j].c = c}}

\* Docker: a status other than the -1 of a failed attach, wherever it is kept or
\* told, is of a process that has ended; and an observation that closes without
\* an error is the end of the process, unless its attach failed.  A stream that
\* ends or breaks while the process goes on never passes for its end.
EndIsConfirmed ==
  runtime = "docker" =>
    \A c \in Commands :
      /\ "exit" \in Statuses(c) => Over(c)
      /\ Done(c) /\ ~rc[c].err => rc[c].code = "fail" \/ Over(c)

\* When ExecCommand has answered that the payload was not released, the payload
\* does not run and never has: it is safe to execute the command once more.
NotReleased ==
  \A c \in Commands :
    runtime = "container" /\ rc[c].ident = "err" => proc[c].st # "running" /\ proc[c].out = 0
=============================================================================
