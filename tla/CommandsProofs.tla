----------------------------- MODULE CommandsProofs -----------------------------
(***************************************************************************)
(* Proofs about the commands of a sandbox under either runtime, for every  *)
(* number of commands, of clients and of pieces of output: final logs are  *)
(* whole, Docker's exit statuses are confirmed, a helper that starts late  *)
(* signals nothing, a removed sandbox has no command, and a payload that   *)
(* was reported as not released never ran.                                 *)
(***************************************************************************)
EXTENDS AppleCommands, TLAPS

Registering == {"probe", "create", "save", "start"}   \* ExecCommand, before its goroutine
LockedFor == Registering \cup {"free", "ready", "kill", "remove", "delete"}
Stages == {"none", "attach", "stream", "inspect", "row", "cli", "close", "done", "lost"}
ClientPcs == {"idle", "done", "read", "get", "code", "bytes", "running", "identity",
              "signal", "helper", "settle"}
Helpers == {"none", "sent", "checked", "failed", "own", "other"}

RcType == [go : Stages, wrapped : BOOLEAN, ident : {"none", "ok", "err"}, code : Codes,
           err : BOOLEAN, cancelled : BOOLEAN, cap : Nat]
ProcType == [st : {"none", "gated", "running", "dead", "reused"}, out : Nat, mute : BOOLEAN]
RequestType == [op : {"none", "wait", "kill", "logs"}, c : Commands \cup {Nobody},
                pc : ClientPcs, res : {"none", "ok", "err", "finished", "notfound"},
                code : Codes, got : Nat, helper : Helpers, late : BOOLEAN]

Types ==
  /\ box \in {"running", "stopped", "gone"} /\ owned \in BOOLEAN /\ removing \in BOOLEAN
  /\ lock \in [for : LockedFor, c : Commands \cup {Nobody}] /\ closing \in BOOLEAN
  /\ row \in [Commands -> Codes \cup {"absent"}] /\ tracked \subseteq Commands
  /\ rc \in [Commands -> RcType] /\ proc \in [Commands -> ProcType]
  /\ cl \in [Clients -> RequestType]
  /\ runtime \in {"docker", "container"}
  /\ gate \in [Commands -> {"held", "open", "closed"}]

\* The command that is being registered has no process yet, and its sandbox stays.
Registration ==
  /\ lock.for \in Registering => owned /\ lock.c \in Commands /\ rc[lock.c].go = "none"
  /\ lock.for = "ready" =>
       lock.c \in Commands /\ rc[lock.c].go # "none" /\ gate[lock.c] = "held"
  /\ lock.for = "delete" => tracked = {}
  /\ ~owned => tracked = {} /\ \A c \in Commands : row[c] = "absent"

\* Everything that the process wrote was handed over, and it writes no more.
Silent(c) == rc[c].cap = proc[c].out /\ (~Running(c) \/ proc[c].mute)
Drained(c) == rc[c].cap = proc[c].out /\ Over(c)

\* A process starts once, out of its attach or its tool; its stream is drained
\* unless an error tells; an exit is that of a process which is over.
Observed(c) ==
  /\ rc[c].go \in {"none", "attach"} => proc[c].st = "none" /\ proc[c].out = 0
  /\ rc[c].go = "none" => rc[c].ident = "none"
  /\ rc[c].go \in {"stream", "inspect"} => proc[c].st \in {"running", "dead", "reused"}
  /\ rc[c].go = "inspect" /\ ~rc[c].err => Silent(c)
  /\ row[c] = "exit" => Over(c)
  /\ rc[c].code = "exit" => Over(c) /\ (rc[c].err \/ Drained(c))
  /\ rc[c].go \in {"row", "close", "done"} /\ ~rc[c].err => rc[c].code # "none"

\* Apple's gate: nothing runs before it is open.
Guarded(c) ==
  /\ runtime = "docker" => proc[c].st # "gated" /\ rc[c].go # "cli"
  /\ runtime = "container" =>
       /\ rc[c].go \notin {"attach", "stream", "inspect", "row"}
       /\ Running(c) \/ proc[c].out # 0 => gate[c] = "open"
       /\ rc[c].ident = "err" => gate[c] = "closed"

\* A snapshot that has an exit status copies buffers that are full; a status that
\* was told is of a process that is over, for good; so is the process that was
\* over when a helper was started, and that helper finds it gone.
Consistent(r) ==
  /\ r.op # "none" => r.c \in Commands
  /\ r.op = "none" => r.pc = "idle"
  /\ r.op = "logs" => r.pc \in {"idle", "code", "bytes"}
  /\ r.op = "logs" /\ r.pc # "idle" => r.res = "none"
  /\ r.op = "logs" /\ r.pc = "bytes" /\ r.code = "exit" => Drained(r.c)
  /\ r.op = "logs" /\ r.res = "ok" /\ r.code = "exit" => Over(r.c) /\ r.got = proc[r.c].out
  /\ r.code = "exit" => r.op # "none" /\ Over(r.c)
  /\ r.late => r.op # "none" /\ Over(r.c) /\ r.helper \in {"sent", "failed"}

Inv ==
  /\ Types
  /\ Registration
  /\ \A c \in Commands : Observed(c) /\ Guarded(c)
  /\ \A k \in Clients : Consistent(cl[k])

-----------------------------------------------------------------------------

LEMMA InitInv == AppleInit => Inv
  <1> SUFFICES ASSUME AppleInit PROVE Inv
    OBVIOUS
  <1>1. NoRc \in RcType /\ NoProc \in ProcType /\ NoRequest \in RequestType /\ Free.c = Nobody
    BY DEF NoRc, NoProc, NoRequest, RcType, ProcType, RequestType, Stages, Codes, ClientPcs, Helpers,
           Free
  <1>2. Types
    BY <1>1 DEF AppleInit, Init, Types, Free, LockedFor, Registering
  <1>. QED
    BY <1>2
    DEF AppleInit, Init, Inv, Registration, Registering, Observed, Guarded, Consistent,
        NoRc, NoProc, NoRequest, Free, Running

\* Publishing an identity changes nothing else.
LEMMA Publishing ==
  ASSUME NEW r \in RcType, NEW i \in {"ok", "err"}
  PROVE  /\ Publish(r, i) \in RcType
         /\ Publish(r, i).go = r.go /\ Publish(r, i).code = r.code
         /\ Publish(r, i).err = r.err /\ Publish(r, i).cap = r.cap
  BY DEF Publish, RcType

\* A step of one command, its process or its row: what the others and the clients
\* rely on goes on to hold.
LEMMA CommandMoves ==
  ASSUME Inv, NEW c \in Commands, UNCHANGED <<sbxVars, cl, gate, runtime>>,
         rc' \in [Commands -> RcType], proc' \in [Commands -> ProcType],
         row' \in [Commands -> Codes \cup {"absent"}], tracked' \subseteq tracked,
         \A d \in Commands : d # c => rc'[d] = rc[d] /\ proc'[d] = proc[d] /\ row'[d] = row[d],
         rc[c].go = "none" <=> rc'[c].go = "none",
         row[c] = "absent" => row'[c] = "absent",
         Drained(c) => Drained(c)',
         Over(c) => Over(c)' /\ proc'[c].out = proc[c].out,
         Observed(c)', Guarded(c)'
  PROVE  Inv'
  <1>1. Types'
    BY DEF Inv, Types, sbxVars
  <1>2. Registration'
    BY DEF Inv, Types, Registration, sbxVars
  <1>3. ASSUME NEW d \in Commands PROVE Observed(d)' /\ Guarded(d)'
    BY <1>3 DEF Inv, Observed, Guarded, Silent, Drained, Running, Over
  <1>4. ASSUME NEW k \in Clients PROVE Consistent(cl[k])'
    <2>1. \A d \in Commands : /\ Drained(d) => Drained(d)'
                              /\ Over(d) => Over(d)' /\ proc'[d].out = proc[d].out
      BY DEF Drained, Over
    <2>. QED
      BY <1>4, <2>1 DEF Inv, Consistent
  <1>. QED
    BY <1>1, <1>2, <1>3, <1>4 DEF Inv

\* The guest.
LEMMA GuestInv ==
  ASSUME Inv, NEW c \in Commands, Guest(c), UNCHANGED <<gate, runtime>>
  PROVE  Inv'
  <1>1. Types /\ Observed(c) /\ Guarded(c) /\ rc[c] \in RcType /\ proc[c] \in ProcType
    BY DEF Inv, Types
  <1>2. /\ UNCHANGED <<sbxVars, row, tracked, rc, cl>> /\ proc' \in [Commands -> ProcType]
        /\ \A d \in Commands : d # c => proc'[d] = proc[d]
        /\ \/ Running(c) /\ ~proc[c].mute /\ proc'[c].st = proc[c].st
              /\ proc'[c].out = proc[c].out + 1 /\ proc'[c].mute = proc[c].mute
           \/ Running(c) /\ ~proc[c].mute /\ proc'[c].st = proc[c].st
              /\ proc'[c].out = proc[c].out /\ proc'[c].mute
           \/ Running(c) /\ proc'[c].st = "dead"
              /\ proc'[c].out = proc[c].out /\ proc'[c].mute = proc[c].mute
           \/ proc[c].st = "dead" /\ proc'[c].st = "reused"
              /\ proc'[c].out = proc[c].out /\ proc'[c].mute = proc[c].mute
    <2>1. CASE Writes(c)
      BY <1>1, <2>1 DEF Writes, Types, ProcType
    <2>2. CASE Mutes(c)
      BY <1>1, <2>2 DEF Mutes, Types, ProcType
    <2>3. CASE Exits(c)
      BY <1>1, <2>3 DEF Exits, Types, ProcType
    <2>4. CASE PidReused(c)
      BY <1>1, <2>4 DEF PidReused, Types, ProcType
    <2>. QED
      BY <2>1, <2>2, <2>3, <2>4 DEF Guest
  <1>3. Observed(c)' /\ Guarded(c)'
    BY <1>1, <1>2 DEF Observed, Guarded, Silent, Drained, Running, Over, ProcType, RcType
  <1>. QED
    BY <1>1, <1>2, <1>3, CommandMoves DEF Types, Running, Over, Drained

-----------------------------------------------------------------------------
(* Docker.                                                                 *)

\* The goroutine of a command, as long as it needs nothing from the guest.
LEMMA GoroutineInv ==
  ASSUME Inv, NEW c \in Commands, UNCHANGED <<gate, runtime>>,
         Inspect(c) \/ UpdateFinished(c) \/ Close(c) \/ Evict(c)
  PROVE  Inv'
  <1>1. /\ Types /\ Observed(c) /\ Guarded(c) /\ rc[c] \in RcType /\ proc[c] \in ProcType
    BY DEF Inv, Types
  <1>2. CASE Inspect(c)
    <2>1. /\ UNCHANGED <<sbxVars, row, tracked, proc, cl>> /\ rc' \in [Commands -> RcType]
          /\ \A d \in Commands : d # c => rc'[d] = rc[d]
          /\ rc[c].go = "inspect" /\ rc'[c].ident = rc[c].ident /\ rc'[c].cap = rc[c].cap
          /\ \/ rc'[c].go = "row" /\ rc'[c].code = "exit" /\ ~Running(c) /\ rc'[c].err = rc[c].err
             \/ rc'[c].go = "close" /\ rc'[c].code = rc[c].code /\ rc'[c].err
      BY <1>1, <1>2 DEF Inspect, Confirms, Types, RcType, Stages, Codes
    <2>2. Observed(c)' /\ Guarded(c)'
      BY <1>1, <2>1 DEF Observed, Guarded, Silent, Drained, Running, Over
    <2>. QED
      BY <1>1, <2>1, <2>2, CommandMoves DEF Types, Over, Drained
  <1>3. CASE UpdateFinished(c)
    <2>1. /\ UNCHANGED <<sbxVars, tracked, proc, cl>> /\ rc' = [rc EXCEPT ![c].go = "close"]
          /\ row' \in [Commands -> Codes \cup {"absent"}] /\ row'[c] \in {row[c], rc[c].code}
          /\ row[c] = "absent" => row'[c] = "absent"
          /\ \A d \in Commands : d # c => row'[d] = row[d]
          /\ rc[c].go = "row"
      BY <1>1, <1>3 DEF UpdateFinished, Types, RcType
    <2>2. /\ rc' \in [Commands -> RcType] /\ \A d \in Commands : d # c => rc'[d] = rc[d]
          /\ rc'[c].go = "close" /\ rc'[c].ident = rc[c].ident /\ rc'[c].cap = rc[c].cap
          /\ rc'[c].code = rc[c].code /\ rc'[c].err = rc[c].err
      BY <1>1, <2>1 DEF Types, RcType, Stages
    <2>3. Observed(c)' /\ Guarded(c)'
      BY <1>1, <2>1, <2>2 DEF Observed, Guarded, Silent, Drained, Running, Over
    <2>. QED
      BY <1>1, <2>1, <2>2, <2>3, CommandMoves DEF Types, Over, Drained
  <1>4. CASE Close(c) \/ Evict(c)
    <2>1. /\ UNCHANGED <<sbxVars, row, proc, cl>> /\ tracked' \subseteq tracked
          /\ rc' \in [Commands -> RcType] /\ \A d \in Commands : d # c => rc'[d] = rc[d]
          /\ rc'[c].go = "done" /\ rc'[c].ident = rc[c].ident /\ rc'[c].cap = rc[c].cap
          /\ rc'[c].code = rc[c].code /\ rc'[c].err = rc[c].err
          /\ rc[c].go \in {"close", "done"}
      BY <1>1, <1>4 DEF Close, Evict, Done, Types, RcType, Stages, sbxVars
    <2>2. Observed(c)' /\ Guarded(c)'
      BY <1>1, <2>1 DEF Observed, Guarded, Silent, Drained, Running, Over
    <2>. QED
      BY <1>1, <1>4, <2>1, <2>2, CommandMoves DEF Types, Over, Drained, Close, Evict
  <1>. QED
    BY <1>2, <1>3, <1>4

\* The attach, and the copying of the stream to its end.
LEMMA StreamInv ==
  ASSUME Inv, NEW c \in Commands, UNCHANGED <<gate, runtime>>,
         Attach(c) \/ Copy(c) \/ BadPreamble(c) \/ StreamEnds(c) \/ StreamFails(c)
  PROVE  Inv'
  <1>1. /\ Types /\ Observed(c) /\ Guarded(c) /\ rc[c] \in RcType /\ proc[c] \in ProcType
    BY DEF Inv, Types
  <1>2. CASE AttachWorks(c)
    <2>1. /\ UNCHANGED <<sbxVars, row, tracked, cl>> /\ rc[c].go = "attach"
          /\ proc' = [proc EXCEPT ![c].st = "running"] /\ rc' = [rc EXCEPT ![c].go = "stream"]
      BY <1>2 DEF AttachWorks, Starts
    <2>2. /\ rc' \in [Commands -> RcType] /\ \A d \in Commands : d # c => rc'[d] = rc[d]
          /\ proc' \in [Commands -> ProcType] /\ \A d \in Commands : d # c => proc'[d] = proc[d]
          /\ rc'[c].go = "stream" /\ rc'[c].ident = rc[c].ident /\ rc'[c].cap = rc[c].cap
          /\ rc'[c].code = rc[c].code /\ rc'[c].err = rc[c].err
          /\ proc'[c].st = "running" /\ proc'[c].out = proc[c].out
      BY <1>1, <2>1 DEF Types, RcType, ProcType, Stages
    <2>3. Observed(c)' /\ Guarded(c)'
      BY <1>1, <2>1, <2>2 DEF Observed, Guarded, Silent, Drained, Running, Over, Types
    <2>. QED
      BY <1>1, <2>1, <2>2, <2>3, CommandMoves DEF Types, Over, Drained, Observed
  <1>3. CASE AttachFails(c)
    <2> DEFINE r == Publish([rc[c] EXCEPT !.go = "row", !.code = "fail"], "err")
    <2>1. /\ r \in RcType /\ r.go = "row" /\ r.code = "fail"
          /\ r.err = rc[c].err /\ r.cap = rc[c].cap
      <3>1. /\ [rc[c] EXCEPT !.go = "row", !.code = "fail"] \in RcType
            /\ [rc[c] EXCEPT !.go = "row", !.code = "fail"].go = "row"
            /\ [rc[c] EXCEPT !.go = "row", !.code = "fail"].code = "fail"
            /\ [rc[c] EXCEPT !.go = "row", !.code = "fail"].err = rc[c].err
            /\ [rc[c] EXCEPT !.go = "row", !.code = "fail"].cap = rc[c].cap
        BY <1>1 DEF RcType, Stages, Codes
      <3>. QED
        BY <3>1, Publishing
    <2>2. /\ UNCHANGED <<sbxVars, row, tracked, cl>> /\ rc[c].go = "attach"
          /\ proc' = [proc EXCEPT ![c].st = "running"] \/ proc' = proc
          /\ rc' = [rc EXCEPT ![c] = r]
      BY <1>3 DEF AttachFails, Starts
    <2>. HIDE DEF r
    <2>3. /\ rc' \in [Commands -> RcType] /\ \A d \in Commands : d # c => rc'[d] = rc[d]
          /\ proc' \in [Commands -> ProcType] /\ \A d \in Commands : d # c => proc'[d] = proc[d]
          /\ rc'[c] = r /\ proc'[c].out = proc[c].out
          /\ proc'[c].st \in {"running", proc[c].st}
      <3>1. CASE proc' = proc
        BY <1>1, <2>1, <2>2, <3>1 DEF Types
      <3>2. CASE proc' = [proc EXCEPT ![c].st = "running"]
        BY <1>1, <2>1, <2>2, <3>2 DEF Types, ProcType
      <3>. QED
        BY <2>2, <3>1, <3>2
    <2>4. Observed(c)' /\ Guarded(c)'
      BY <1>1, <2>1, <2>2, <2>3 DEF Observed, Guarded, Silent, Drained, Running, Over, Types
    <2>. QED
      BY <1>1, <2>1, <2>2, <2>3, <2>4, CommandMoves DEF Types, Over, Drained, Observed
  <1>4. CASE Copy(c) \/ BadPreamble(c) \/ StreamEnds(c) \/ StreamFails(c)
    <2> DEFINE Copied == [rc[c] EXCEPT !.cap = @ + 1]
               Ended(e) == [rc[c] EXCEPT !.go = "inspect", !.err = e]
    <2>1. /\ Copied \in RcType /\ Copied.go = rc[c].go /\ Copied.code = rc[c].code
          /\ Copied.cap = rc[c].cap + 1 /\ Copied.err = rc[c].err
      BY <1>1 DEF RcType
    <2>2. \A e \in BOOLEAN :
            /\ Ended(e) \in RcType /\ Ended(e).go = "inspect" /\ Ended(e).code = rc[c].code
            /\ Ended(e).cap = rc[c].cap /\ Ended(e).err = e
      BY <1>1 DEF RcType, Stages
    <2>. HIDE DEF Copied, Ended
    <2>3. /\ UNCHANGED <<sbxVars, row, tracked, proc, cl>> /\ rc[c].go = "stream"
          /\ \/ rc[c].cap < proc[c].out /\ rc' = [rc EXCEPT ![c] = Publish(Copied, "ok")]
             \/ rc' = [rc EXCEPT ![c] = Publish(Ended(TRUE), "err")]
             \/ Silent(c) /\ rc' = [rc EXCEPT ![c] = Publish(Ended(rc[c].ident = "none"), "err")]
      BY <1>4 DEF Copy, BadPreamble, StreamEnds, StreamFails, Silent, Copied, Ended
    <2>4. /\ rc' \in [Commands -> RcType] /\ \A d \in Commands : d # c => rc'[d] = rc[d]
          /\ rc'[c].code = rc[c].code
          /\ \/ rc'[c].go = "stream" /\ rc'[c].cap = rc[c].cap + 1 /\ rc[c].cap < proc[c].out
                /\ rc'[c].err = rc[c].err
             \/ rc'[c].go = "inspect" /\ rc'[c].cap = rc[c].cap /\ (rc'[c].err \/ Silent(c))
      <3>1. CASE rc[c].cap < proc[c].out /\ rc' = [rc EXCEPT ![c] = Publish(Copied, "ok")]
        <4>1. /\ Publish(Copied, "ok") \in RcType /\ Publish(Copied, "ok").go = "stream"
              /\ Publish(Copied, "ok").code = rc[c].code /\ Publish(Copied, "ok").err = rc[c].err
              /\ Publish(Copied, "ok").cap = rc[c].cap + 1
          BY <2>1, <2>3, Publishing
        <4>. QED
          BY <1>1, <3>1, <4>1 DEF Types
      <3>2. ASSUME NEW e \in BOOLEAN, e \/ Silent(c),
                   rc' = [rc EXCEPT ![c] = Publish(Ended(e), "err")]
            PROVE  /\ rc' \in [Commands -> RcType] /\ \A d \in Commands : d # c => rc'[d] = rc[d]
                   /\ rc'[c].code = rc[c].code
                   /\ rc'[c].go = "inspect" /\ rc'[c].cap = rc[c].cap /\ (rc'[c].err \/ Silent(c))
        <4>1. /\ Publish(Ended(e), "err") \in RcType /\ Publish(Ended(e), "err").go = "inspect"
              /\ Publish(Ended(e), "err").code = rc[c].code /\ Publish(Ended(e), "err").err = e
              /\ Publish(Ended(e), "err").cap = rc[c].cap
          BY <2>2, Publishing
        <4>. QED
          BY <1>1, <3>2, <4>1 DEF Types
      <3>. QED
        BY <2>3, <3>1, <3>2
    <2>5. Observed(c)' /\ Guarded(c)'
      BY <1>1, <2>3, <2>4
      DEF Observed, Guarded, Silent, Drained, Running, Over, Types, RcType, ProcType
    <2>6. /\ Over(c) => Over(c)' /\ proc'[c].out = proc[c].out
          /\ rc[c].go # "none" /\ rc'[c].go # "none"
      BY <2>3, <2>4 DEF Over
    <2>7. Drained(c) => Drained(c)'
      BY <1>1, <2>3, <2>4, <2>6 DEF Drained, RcType, ProcType
    <2>8. /\ UNCHANGED <<sbxVars, cl, gate, runtime>> /\ tracked' = tracked /\ row' = row
          /\ proc' \in [Commands -> ProcType] /\ row' \in [Commands -> Codes \cup {"absent"}]
          /\ \A d \in Commands : proc'[d] = proc[d] /\ row'[d] = row[d]
      BY <1>1, <2>3 DEF Types
    <2>. QED
      BY <2>4, <2>5, <2>6, <2>7, <2>8, CommandMoves
  <1>. QED
    BY <1>2, <1>3, <1>4 DEF Attach

\* ExecCommand, under the lock.
LEMMA ExecInv ==
  ASSUME Inv, UNCHANGED <<gate, runtime>>, runtime = "docker",
         (\E c \in Commands : ExecBegin(c)) \/ ExecProbe \/ ExecCreate \/ ExecSave
  PROVE  Inv'
  <1>1. Types /\ Registration
    BY DEF Inv
  <1>2. CASE \E c \in Commands : ExecBegin(c)
    <2>1. PICK c \in Commands : ExecBegin(c)
      BY <1>2
    <2>2. Types' /\ Registration'
      BY <1>1, <2>1
      DEF ExecBegin, Types, Registration, Registering, LockedFor, Free
    <2>. QED
      BY <2>1, <2>2
      DEF ExecBegin, Inv, Observed, Guarded, Consistent, Silent, Drained, Running, Over
  <1>3. CASE ExecProbe \/ ExecCreate
    <2>1. lock.c \in Commands /\ rc[lock.c] \in RcType /\ rc[lock.c].go = "none"
          /\ owned
      BY <1>1, <1>3 DEF Types, Registration, Registering, ExecProbe, ExecCreate
    <2>2. /\ UNCHANGED <<box, owned, removing, closing, row, tracked, proc, cl>>
          /\ \/ lock' = Free
             \/ lock' = [lock EXCEPT !.for = "create"]
             \/ lock' = [lock EXCEPT !.for = "save"]
          /\ rc' = rc \/ \E w \in BOOLEAN : rc' = [rc EXCEPT ![lock.c].wrapped = w]
      BY <1>3 DEF ExecProbe, ExecCreate
    <2>3. /\ rc' \in [Commands -> RcType]
          /\ \A d \in Commands : /\ rc'[d].go = rc[d].go /\ rc'[d].ident = rc[d].ident
                                 /\ rc'[d].err = rc[d].err /\ rc'[d].code = rc[d].code
                                 /\ rc'[d].cap = rc[d].cap
      <3>1. CASE rc' = rc
        BY <1>1, <3>1 DEF Types
      <3>2. ASSUME NEW w \in BOOLEAN, rc' = [rc EXCEPT ![lock.c].wrapped = w]
            PROVE  /\ rc' \in [Commands -> RcType]
                   /\ \A d \in Commands : /\ rc'[d].go = rc[d].go /\ rc'[d].ident = rc[d].ident
                                          /\ rc'[d].err = rc[d].err /\ rc'[d].code = rc[d].code
                                          /\ rc'[d].cap = rc[d].cap
        BY <1>1, <2>1, <3>2 DEF Types, RcType
      <3>. QED
        BY <2>2, <3>1, <3>2
    <2>4. Types' /\ Registration'
      BY <1>1, <2>1, <2>2, <2>3 DEF Types, Registration, Registering, LockedFor, Free
    <2>. QED
      BY <2>2, <2>3, <2>4
      DEF Inv, Observed, Guarded, Consistent, Silent, Drained, Running, Over
  <1>4. CASE ExecSave
    <2>1. lock.c \in Commands /\ rc[lock.c] \in RcType /\ rc[lock.c].go = "none"
          /\ owned
      BY <1>1, <1>4 DEF Types, Registration, Registering, ExecSave
    <2> DEFINE c == lock.c
    <2>2. CASE rc' = rc /\ tracked' = tracked /\ row' = row
      <3>1. Types' /\ Registration'
        BY <1>1, <1>4, <2>2 DEF ExecSave, Types, Registration, Registering, LockedFor, Free
      <3>. QED
        BY <1>4, <2>2, <3>1
        DEF ExecSave, Inv, Observed, Guarded, Consistent, Silent, Drained, Running, Over
    <2>3. CASE /\ row' = [row EXCEPT ![c] = "none"] /\ tracked' = tracked \cup {c}
               /\ rc' = [rc EXCEPT ![c].go = "attach",
                            ![c].ident = IF @ = "none" /\ ~rc[c].wrapped THEN "err" ELSE @]
      <3>1. /\ rc' \in [Commands -> RcType] /\ \A d \in Commands : d # c => rc'[d] = rc[d]
            /\ rc'[c].go = "attach" /\ rc'[c].code = rc[c].code /\ rc'[c].cap = rc[c].cap
            /\ rc'[c].err = rc[c].err
        BY <1>1, <2>1, <2>3 DEF Types, RcType, Stages
      <3>2. Types' /\ Registration'
        BY <1>1, <1>4, <2>1, <2>3, <3>1
        DEF ExecSave, Types, Registration, Registering, LockedFor, Free, Codes
      <3>3. ASSUME NEW d \in Commands PROVE Observed(d)' /\ Guarded(d)'
        BY <1>1, <1>4, <2>1, <2>3, <3>1, <3>3
        DEF ExecSave, Inv, Types, Observed, Guarded, Silent, Drained, Running, Over
      <3>4. ASSUME NEW k \in Clients PROVE Consistent(cl[k])'
        BY <1>1, <1>4, <2>1, <3>1, <3>4
        DEF ExecSave, Inv, Consistent, Observed, Drained, Running, Over
      <3>. QED
        BY <3>2, <3>3, <3>4 DEF Inv
    <2>. QED
      BY <1>4, <2>2, <2>3 DEF ExecSave
  <1>. QED
    BY <1>2, <1>3, <1>4
-----------------------------------------------------------------------------
(* The sandbox.                                                            *)

LEMMA KilledShape ==
  ASSUME proc \in [Commands -> ProcType]
  PROVE  /\ Killed \in [Commands -> ProcType]
         /\ \A c \in Commands :
              /\ Killed[c].out = proc[c].out /\ Killed[c].mute = proc[c].mute
              /\ Killed[c].st = IF proc[c].st = "none" THEN "none" ELSE "dead"
  BY DEF Killed, ProcType

\* A request whose helper has perished, or that goes on as it was.
Adrift(r, q) ==
  /\ q.op = r.op /\ q.c = r.c /\ q.pc = r.pc /\ q.res = r.res /\ q.code = r.code
  /\ q.got = r.got /\ q.late = r.late
  /\ q.helper \in {r.helper, "failed"}

LEMMA NoHelpersShape ==
  ASSUME cl \in [Clients -> RequestType]
  PROVE  NoHelpers \in [Clients -> RequestType] /\ \A k \in Clients : Adrift(cl[k], NoHelpers[k])
  <1>1. ASSUME NEW r \in RequestType
        PROVE  [r EXCEPT !.helper = "failed"] \in RequestType
               /\ Adrift(r, [r EXCEPT !.helper = "failed"]) /\ Adrift(r, r)
    BY DEF RequestType, Helpers, Adrift
  <1>. QED
    BY <1>1 DEF NoHelpers

\* Stopping, starting and removing the sandbox, and shutting the server down.
LEMMA SandboxInv ==
  ASSUME Inv, UNCHANGED <<gate, runtime>>,
         BoxStops \/ BoxStarts \/ RemoveBegin \/ RemoveNative \/ RemoveDelete \/ Shutdown
  PROVE  Inv'
  <1>1. Types /\ Registration
    BY DEF Inv
  <1>2. CASE BoxStarts \/ RemoveBegin \/ RemoveDelete
    <2>1. Types' /\ Registration'
      <3>1. CASE BoxStarts
        BY <1>1, <3>1 DEF BoxStarts, Types, Registration, Registering
      <3>2. CASE RemoveBegin
        BY <1>1, <3>2 DEF RemoveBegin, Types, Registration, Registering, LockedFor, Free
      <3>3. CASE RemoveDelete
        BY <1>1, <3>3 DEF RemoveDelete, Types, Registration, Registering, LockedFor, Free
      <3>. QED
        BY <1>2, <3>1, <3>2, <3>3
    <2>2. /\ UNCHANGED <<proc, rc, cl, gate, runtime>>
          /\ \A c \in Commands : row'[c] = "exit" => row[c] = "exit"
      BY <1>2 DEF BoxStarts, RemoveBegin, RemoveDelete
    <2>. QED
      BY <2>1, <2>2
      DEF Inv, Observed, Guarded, Consistent, Silent, Drained, Running, Over
  <1>3. CASE BoxStops \/ RemoveNative \/ Shutdown
    <2>1. /\ proc' \in {proc, Killed}
          /\ \/ rc' = rc
             \/ rc' = [c \in Commands |-> IF c \in tracked
                                          THEN [rc[c] EXCEPT !.cancelled = TRUE] ELSE rc[c]]
          /\ UNCHANGED <<row, gate, runtime, owned>> /\ tracked' \in {tracked, {}}
          /\ cl' \in {cl, NoHelpers}
      BY <1>3 DEF BoxStops, RemoveNative, Shutdown
    <2>2. /\ rc' \in [Commands -> RcType]
          /\ \A c \in Commands : /\ rc'[c].go = rc[c].go /\ rc'[c].ident = rc[c].ident
                                 /\ rc'[c].err = rc[c].err /\ rc'[c].code = rc[c].code
                                 /\ rc'[c].cap = rc[c].cap
      <3>1. ASSUME NEW c \in Commands
            PROVE  LET r == [rc[c] EXCEPT !.cancelled = TRUE]
                   IN  /\ r \in RcType /\ r.go = rc[c].go /\ r.ident = rc[c].ident
                       /\ r.err = rc[c].err /\ r.code = rc[c].code /\ r.cap = rc[c].cap
        <4>1. rc[c] \in RcType
          BY <1>1, <3>1 DEF Types
        <4>. QED
          BY <4>1 DEF RcType
      <3>2. CASE rc' = rc
        BY <1>1, <3>2 DEF Types
      <3>3. CASE rc' = [c \in Commands |-> IF c \in tracked
                                         THEN [rc[c] EXCEPT !.cancelled = TRUE] ELSE rc[c]]
        BY <1>1, <3>1, <3>3 DEF Types
      <3>. QED
        BY <2>1, <3>2, <3>3
    <2>3. /\ proc' \in [Commands -> ProcType]
          /\ \A c \in Commands :
               /\ proc'[c].out = proc[c].out /\ proc'[c].mute = proc[c].mute
               /\ \/ proc'[c].st = proc[c].st
                  \/ proc[c].st # "none" /\ proc'[c].st = "dead"
      BY <1>1, <2>1, KilledShape DEF Types
    <2>4. /\ cl' \in [Clients -> RequestType]
          /\ \A k \in Clients : Adrift(cl[k], cl'[k])
      <3>1. CASE cl' = cl
        BY <1>1, <3>1 DEF Types, Adrift
      <3>2. CASE cl' = NoHelpers
        BY <1>1, <3>2, NoHelpersShape DEF Types
      <3>. QED
        BY <2>1, <3>1, <3>2
    <2>5. Types' /\ Registration'
      <3>1. CASE BoxStops
        BY <1>1, <2>2, <2>3, <2>4, <3>1 DEF BoxStops, Types, Registration, Registering
      <3>2. CASE RemoveNative
        <4>1. Types'
          BY <1>1, <2>1, <2>2, <2>3, <2>4, <3>2 DEF RemoveNative, Types, LockedFor, Free
        <4>2. Registration'
          BY <1>1, <3>2 DEF RemoveNative, Types, Registration, Registering, Free
        <4>. QED
          BY <4>1, <4>2
      <3>3. CASE Shutdown
        BY <1>1, <2>2, <2>3, <3>3 DEF Shutdown, Types, Registration, Registering, Free
      <3>. QED
        BY <1>3, <3>1, <3>2, <3>3
    <2>6. ASSUME NEW c \in Commands PROVE Observed(c)' /\ Guarded(c)'
      BY <2>1, <2>2, <2>3, <2>6 DEF Inv, Observed, Guarded, Silent, Drained, Running, Over
    <2>7. ASSUME NEW k \in Clients PROVE Consistent(cl[k])'
      <3>1. Consistent(cl[k]) /\ Adrift(cl[k], cl'[k]) /\ (cl[k].op # "none" => cl[k].c \in Commands)
        BY <2>4, <2>7 DEF Inv, Consistent
      <3>. QED
        BY <2>2, <2>3, <3>1 DEF Consistent, Adrift, Drained, Over
    <2>. QED
      BY <2>5, <2>6, <2>7 DEF Inv
  <1>. QED
    BY <1>2, <1>3

\* The end of the server process; it takes its ends of the gates with it.
LEMMA RestartInv ==
  ASSUME Inv, Restart, UNCHANGED runtime,
         gate' \in [Commands -> {"held", "open", "closed"}],
         \A c \in Commands : gate[c] = "open" => gate'[c] = "open"
  PROVE  Inv'
  <1>1. /\ NoRc \in RcType /\ NoRequest \in RequestType /\ Types
        /\ NoRc.ident = "none" /\ NoRc.code = "none" /\ NoRc.go = "none"
        /\ NoRequest.op = "none" /\ NoRequest.pc = "idle"
        /\ NoRequest.code = "none" /\ ~NoRequest.late
    BY DEF Inv, NoRc, NoRequest, RcType, RequestType, Stages, Codes, ClientPcs, Helpers
  <1>2. /\ [NoRc EXCEPT !.go = "lost"] \in RcType
        /\ [NoRc EXCEPT !.go = "lost"].go = "lost" /\ [NoRc EXCEPT !.go = "lost"].code = "none"
        /\ [NoRc EXCEPT !.go = "lost"].ident = "none"
    BY <1>1 DEF RcType, Stages
  <1>3. /\ rc' \in [Commands -> RcType]
        /\ \A c \in Commands : /\ rc'[c].code = "none" /\ rc'[c].ident = "none"
                               /\ rc'[c].go = IF rc[c].go = "none" THEN "none" ELSE "lost"
    BY <1>1, <1>2 DEF Restart
  <1>4. ASSUME NEW k \in Clients
        PROVE  /\ cl'[k] \in RequestType
               /\ \/ cl'[k] = NoRequest
                  \/ /\ cl'[k].op = cl[k].op /\ cl'[k].c = cl[k].c /\ cl'[k].pc = "idle"
                     /\ cl'[k].res = "none" /\ cl'[k].code = "none"
                     /\ cl'[k].helper = cl[k].helper /\ cl'[k].late = cl[k].late
    <2>1. cl[k] \in RequestType /\ cl'[k] \in {NoRequest, Orphan(cl[k])}
      BY <1>1 DEF Restart, Types
    <2>2. LET q == Orphan(cl[k]) IN
            /\ q \in RequestType /\ q.op = cl[k].op /\ q.c = cl[k].c /\ q.pc = "idle"
            /\ q.res = "none" /\ q.code = "none" /\ q.helper = cl[k].helper
            /\ q.late = cl[k].late
      BY <2>1 DEF Orphan, NoRequest, RequestType, Codes, ClientPcs
    <2>. QED
      BY <1>1, <2>1, <2>2
  <1>5. Types'
    <2>1. cl' \in [Clients -> RequestType]
      BY <1>4 DEF Restart
    <2>. QED
      BY <1>1, <1>3, <2>1 DEF Restart, Types, Free, LockedFor
  <1>6. Registration'
    BY DEF Inv, Restart, Registration, Registering, Free
  <1>7. ASSUME NEW c \in Commands PROVE Observed(c)' /\ Guarded(c)'
    BY <1>3, <1>7 DEF Inv, Restart, Observed, Guarded, Silent, Drained, Running, Over
  <1>8. ASSUME NEW k \in Clients PROVE Consistent(cl[k])'
    <2>1. Consistent(cl[k]) /\ proc' = proc
      BY <1>8 DEF Inv, Restart
    <2>. QED
      BY <1>1, <1>4, <1>8, <2>1 DEF Consistent, Over
  <1>. QED
    BY <1>5, <1>6, <1>7, <1>8 DEF Inv

-----------------------------------------------------------------------------
(* Apple's client.                                                         *)

\* ExecCommand, which keeps the lock until the payload is released or given up.
LEMMA AppleExecInv ==
  ASSUME Inv, runtime = "container", runtime' = runtime,
         (\E c \in Commands : BeginExec(c)) \/ Exec
  PROVE  Inv'
  <1>1. Types /\ Registration
    BY DEF Inv
  <1>2. CASE \E c \in Commands : BeginExec(c)
    <2>1. PICK c \in Commands : BeginExec(c)
      BY <1>2
    <2>2. Types' /\ Registration'
      BY <1>1, <2>1 DEF BeginExec, Types, Registration, Registering, LockedFor, Free
    <2>. QED
      BY <2>1, <2>2
      DEF BeginExec, Inv, Observed, Guarded, Consistent, Silent, Drained, Running, Over
  <1>3. CASE Exec
    <2>1. lock.c \in Commands /\ rc[lock.c] \in RcType
      BY <1>1, <1>3
      DEF Types, Registration, Registering, Exec, SaveRow, StartTool, Release, NotReady,
          HandshakeTimesOut
    <2> DEFINE c == lock.c
    <2>2. /\ UNCHANGED <<box, owned, removing, closing, proc, cl>>
          /\ \/ /\ lock.for = "save" /\ UNCHANGED <<rc, tracked, gate>>
                /\ \/ row' = [row EXCEPT ![c] = "none"] /\ lock' = [lock EXCEPT !.for = "start"]
                   \/ lock' = Free /\ UNCHANGED row
             \/ /\ lock.for = "start" /\ lock' = [lock EXCEPT !.for = "ready"] /\ row' = row
                /\ rc' = [rc EXCEPT ![c].go = "cli"] /\ gate' = [gate EXCEPT ![c] = "held"]
                /\ tracked' = tracked \cup {c}
             \/ /\ lock.for = "start" /\ lock' = Free /\ rc' = [rc EXCEPT ![c].go = "lost"]
                /\ row' \in {row, [row EXCEPT ![c] = "fail"]} /\ UNCHANGED <<tracked, gate>>
             \/ /\ lock.for = "ready" /\ lock' = Free /\ UNCHANGED <<row, tracked>>
                /\ \/ rc' = [rc EXCEPT ![c].ident = "ok"] /\ gate' = [gate EXCEPT ![c] = "open"]
                   \/ rc' \in {rc, [rc EXCEPT ![c].ident = "ok"]}
                      /\ gate' = [gate EXCEPT ![c] = "closed"]
                   \/ rc' = [rc EXCEPT ![c].cancelled = TRUE, ![c].ident = "err"]
                      /\ gate' = [gate EXCEPT ![c] = "closed"]
      BY <1>3 DEF Exec, SaveRow, StartTool, Release, NotReady, HandshakeTimesOut
    <2>3. /\ rc' \in [Commands -> RcType] /\ \A d \in Commands : d # c => rc'[d] = rc[d]
          /\ rc'[c].code = rc[c].code /\ rc'[c].err = rc[c].err /\ rc'[c].cap = rc[c].cap
          /\ \/ rc'[c].go = rc[c].go /\ rc'[c].ident = rc[c].ident
             \/ lock.for = "start" /\ rc'[c].go \in {"cli", "lost"} /\ rc'[c].ident = rc[c].ident
             \/ lock.for = "ready" /\ rc'[c].go = rc[c].go /\ rc'[c].ident = "ok"
             \/ lock.for = "ready" /\ rc'[c].go = rc[c].go /\ gate'[c] = "closed"
      <3>1. CASE lock.for = "save"
        BY <1>1, <2>1, <2>2, <3>1 DEF Types
      <3>2. CASE lock.for = "start"
        <4>1. \/ rc' = [rc EXCEPT ![c].go = "cli"]
              \/ rc' = [rc EXCEPT ![c].go = "lost"]
          BY <2>2, <3>2
        <4>2. CASE rc' = [rc EXCEPT ![c].go = "cli"]
          BY <1>1, <2>1, <3>2, <4>2 DEF Types, RcType, Stages
        <4>3. CASE rc' = [rc EXCEPT ![c].go = "lost"]
          BY <1>1, <2>1, <3>2, <4>3 DEF Types, RcType, Stages
        <4>. QED
          BY <4>1, <4>2, <4>3
      <3>3. CASE lock.for = "ready"
        <4>1. \/ rc' = [rc EXCEPT ![c].ident = "ok"]
              \/ rc' = rc
              \/ rc' = [rc EXCEPT ![c].cancelled = TRUE, ![c].ident = "err"]
                 /\ gate' = [gate EXCEPT ![c] = "closed"]
          BY <2>2, <3>3
        <4>2. CASE rc' = [rc EXCEPT ![c].ident = "ok"]
          BY <1>1, <2>1, <3>3, <4>2 DEF Types, RcType
        <4>3. CASE rc' = rc
          BY <1>1, <2>1, <3>3, <4>3 DEF Types
        <4>4. CASE /\ rc' = [rc EXCEPT ![c].cancelled = TRUE, ![c].ident = "err"]
                   /\ gate' = [gate EXCEPT ![c] = "closed"]
          BY <1>1, <2>1, <3>3, <4>4 DEF Types, RcType
        <4>. QED
          BY <4>1, <4>2, <4>3, <4>4
      <3>. QED
        BY <2>2, <3>1, <3>2, <3>3
    <2>4. Types' /\ Registration'
      <3>0. /\ lock' \in {Free, [lock EXCEPT !.for = "start"], [lock EXCEPT !.for = "ready"]}
            /\ lock' = [lock EXCEPT !.for = "start"] => lock.for = "save"
            /\ lock' = [lock EXCEPT !.for = "ready"] => lock.for = "start"
        BY <1>1, <2>2 DEF Types, Free
      <3>1. /\ lock' \in [for : LockedFor, c : Commands \cup {Nobody}]
            /\ \/ lock'.for = "free"
               \/ lock'.for = "start" /\ lock'.c = c /\ lock.for = "save"
               \/ lock'.for = "ready" /\ lock'.c = c /\ lock.for = "start"
        BY <1>1, <3>0 DEF Types, LockedFor, Registering, Free
      <3>2. /\ row' \in [Commands -> Codes \cup {"absent"}] /\ tracked' \subseteq Commands
            /\ gate' \in [Commands -> {"held", "open", "closed"}]
        BY <1>1, <2>1, <2>2 DEF Types, Codes
      <3>3. Types'
        BY <1>1, <2>2, <2>3, <3>1, <3>2 DEF Types
      <3>4. Registration'
        <4>1. lock.for \in {"save", "start", "ready"}
          BY <2>2
        <4>2. owned' = owned /\ (~owned => lock.for = "ready")
          BY <1>1, <2>2, <4>1 DEF Registration, Registering
        <4>3. lock.for = "save" => rc' = rc
          BY <2>2
        <4>4. lock'.for = "ready" => gate'[c] = "held" /\ rc'[c].go # "none"
          <5>1. ASSUME lock'.for = "ready" PROVE lock.for = "start" /\ lock' # Free
            BY <3>1, <5>1 DEF Free
          <5>. QED
            BY <1>1, <2>1, <2>2, <5>1 DEF Types, RcType
        <4>5. lock.for = "ready" => tracked' = tracked /\ row' = row
          BY <2>2
        <4>. QED
          BY <1>1, <2>1, <3>1, <4>1, <4>2, <4>3, <4>4, <4>5 DEF Registration, Registering
      <3>. QED
        BY <3>3, <3>4
    <2>5. /\ \A d \in Commands : d # c => row'[d] = row[d] /\ gate'[d] = gate[d]
          /\ row'[c] = "exit" => row[c] = "exit"
          /\ \/ gate'[c] = gate[c]
             \/ gate'[c] = "held" /\ lock.for = "start"
             \/ gate'[c] \in {"open", "closed"} /\ lock.for = "ready" /\ gate[c] = "held"
      BY <1>1, <2>1, <2>2 DEF Types, Registration
    <2>6. ASSUME NEW d \in Commands PROVE Observed(d)'
      <3>1. CASE d # c
        BY <2>1, <2>2, <2>3, <2>5, <2>6, <3>1 DEF Inv, Observed, Silent, Drained, Running, Over
      <3>2. CASE d = c
        BY <1>1, <2>1, <2>2, <2>3, <2>5, <2>6, <3>2
        DEF Inv, Registration, Registering, Observed, Guarded, Silent, Drained, Running, Over
      <3>. QED
        BY <3>1, <3>2
    <2>7. ASSUME NEW d \in Commands PROVE Guarded(d)'
      <3>1. CASE d # c
        BY <2>1, <2>2, <2>3, <2>5, <2>7, <3>1 DEF Inv, Guarded, Running
      <3>2. CASE d = c
        <4>1. Observed(c) /\ Guarded(c) /\ proc' = proc /\ runtime' = runtime
          BY <2>1, <2>2 DEF Inv
        <4>2. CASE lock.for \in {"save", "start"}
          BY <1>1, <2>1, <2>3, <2>5, <3>2, <4>1, <4>2 DEF Registration, Registering, Observed, Guarded, Running
        <4>3. CASE lock.for = "ready"
          BY <1>1, <2>1, <2>3, <2>5, <3>2, <4>1, <4>3 DEF Registration, Observed, Guarded, Running
        <4>. QED
          BY <2>2, <4>2, <4>3
      <3>. QED
        BY <3>1, <3>2
    <2>8. ASSUME NEW k \in Clients PROVE Consistent(cl[k])'
      <3>1. proc' = proc /\ cl' = cl
        BY <2>2
      <3>2. \A d \in Commands : rc'[d].cap = rc[d].cap
        BY <2>3
      <3>. QED
        BY <2>8, <3>1, <3>2 DEF Inv, Consistent, Drained, Over
    <2>. QED
      BY <2>4, <2>6, <2>7, <2>8 DEF Inv
  <1>. QED
    BY <1>2, <1>3

\* The tool and the wrapper of a command.
LEMMA ToolInv ==
  ASSUME Inv, runtime = "container", runtime' = runtime, NEW c \in Commands,
         Tool(c) \/ WrapperStarts(c) \/ WrapperEnds(c)
  PROVE  Inv'
  <1>1. /\ Types /\ Observed(c) /\ Guarded(c) /\ rc[c] \in RcType /\ proc[c] \in ProcType
    BY DEF Inv, Types
  <1>2. CASE CopyOutput(c)
    <2>1. /\ UNCHANGED <<sbxVars, row, tracked, proc, cl, gate>>
          /\ rc[c].go = "cli" /\ rc[c].cap < proc[c].out
          /\ rc' = [rc EXCEPT ![c].cap = @ + 1]
      BY <1>2 DEF CopyOutput
    <2>2. /\ rc' \in [Commands -> RcType] /\ \A d \in Commands : d # c => rc'[d] = rc[d]
          /\ rc'[c].go = "cli" /\ rc'[c].code = rc[c].code /\ rc'[c].ident = rc[c].ident
          /\ rc'[c].err = rc[c].err
      BY <1>1, <2>1 DEF Types, RcType
    <2>3. Observed(c)' /\ Guarded(c)' /\ ~Drained(c)
      BY <1>1, <2>1, <2>2
      DEF Observed, Guarded, Silent, Drained, Running, Over, Types, RcType, ProcType
    <2>. QED
      BY <1>1, <2>1, <2>2, <2>3, CommandMoves DEF Types, Over
  <1>3. CASE ToolEnds(c) \/ ToolDies(c)
    <2>1. PICK code \in {"exit", "fail"} :
            /\ Finish(c, code)
            /\ code = "exit" => Drained(c)
      BY <1>3 DEF ToolEnds, ToolDies, Drained
    <2>2. rc[c].go = "cli"
      BY <1>3 DEF ToolEnds, ToolDies
    <2>3. /\ UNCHANGED <<sbxVars, tracked, proc, cl, gate>>
          /\ row' \in [Commands -> Codes \cup {"absent"}] /\ row'[c] \in {row[c], code}
          /\ row[c] = "absent" => row'[c] = "absent"
          /\ \A d \in Commands : d # c => row'[d] = row[d]
      BY <1>1, <2>1 DEF Finish, Types, Codes
    <2>4. /\ rc' \in [Commands -> RcType] /\ \A d \in Commands : d # c => rc'[d] = rc[d]
          /\ rc'[c].go = "close" /\ rc'[c].code = code /\ rc'[c].ident = rc[c].ident
          /\ rc'[c].cap = rc[c].cap
      <3>1. \/ rc' = [rc EXCEPT ![c].go = "close", ![c].code = code]
            \/ rc' = [rc EXCEPT ![c].go = "close", ![c].code = code, ![c].err = TRUE]
        BY <2>1 DEF Finish
      <3>2. CASE rc' = [rc EXCEPT ![c].go = "close", ![c].code = code]
        BY <1>1, <3>2 DEF Types, RcType, Stages, Codes
      <3>3. CASE rc' = [rc EXCEPT ![c].go = "close", ![c].code = code, ![c].err = TRUE]
        BY <1>1, <3>3 DEF Types, RcType, Stages, Codes
      <3>. QED
        BY <3>1, <3>2, <3>3
    <2>5. Observed(c)' /\ Guarded(c)'
      BY <1>1, <2>1, <2>2, <2>3, <2>4
      DEF Observed, Guarded, Silent, Drained, Running, Over, Types
    <2>. QED
      BY <1>1, <2>2, <2>3, <2>4, <2>5, CommandMoves DEF Types, Over, Drained
  <1>4. CASE WrapperStarts(c) \/ WrapperEnds(c)
    <2>1. /\ UNCHANGED <<sbxVars, row, tracked, rc, cl, gate>>
          /\ \/ proc[c].st = "none" /\ rc[c].go = "cli" /\ proc' = [proc EXCEPT ![c].st = "gated"]
             \/ proc[c].st = "gated" /\ proc' = [proc EXCEPT ![c].st = "dead"]
             \/ proc[c].st = "gated" /\ gate[c] = "open" /\ proc' = [proc EXCEPT ![c].st = "running"]
      BY <1>4 DEF WrapperStarts, WrapperEnds, Gated
    <2>2. /\ proc' \in [Commands -> ProcType] /\ \A d \in Commands : d # c => proc'[d] = proc[d]
          /\ proc'[c].out = proc[c].out /\ proc'[c].mute = proc[c].mute
          /\ \/ proc[c].st = "none" /\ rc[c].go = "cli" /\ proc'[c].st = "gated"
             \/ proc[c].st = "gated" /\ proc'[c].st = "dead"
             \/ proc[c].st = "gated" /\ gate[c] = "open" /\ proc'[c].st = "running"
      BY <1>1, <2>1 DEF Types, ProcType
    <2>3. Observed(c)' /\ Guarded(c)' /\ ~Over(c)
      BY <1>1, <2>1, <2>2
      DEF Observed, Guarded, Silent, Drained, Running, Over, Types
    <2>. QED
      BY <1>1, <2>1, <2>2, <2>3, CommandMoves DEF Types, Drained
  <1>. QED
    BY <1>2, <1>3, <1>4 DEF Tool

-----------------------------------------------------------------------------
(* Clients.                                                                *)

\* A request changes itself, and Apple's kill the lock.
LEMMA ClientMoves ==
  ASSUME Inv, NEW k \in Clients, NEW r \in RequestType, Consistent(r),
         cl' = [cl EXCEPT ![k] = r],
         UNCHANGED <<box, owned, removing, closing, row, tracked, rc, proc, gate, runtime>>,
         \/ lock' = lock
         \/ lock'.for = "kill" /\ lock' \in [for : LockedFor, c : Commands \cup {Nobody}]
         \/ lock' = Free
  PROVE  Inv'
  <1>1. Types'
    BY DEF Inv, Types, Free, LockedFor
  <1>2. Registration'
    BY DEF Inv, Types, Registration, Registering, Free
  <1>3. \A c \in Commands : Observed(c)' /\ Guarded(c)'
    BY DEF Inv, Observed, Guarded, Silent, Drained, Running, Over
  <1>4. ASSUME NEW j \in Clients PROVE Consistent(cl[j])'
    <2>1. cl'[j] = r \/ cl'[j] = cl[j]
      BY <1>4 DEF Inv, Types
    <2>. QED
      BY <1>4, <2>1 DEF Inv, Consistent, Drained, Over
  <1>. QED
    BY <1>1, <1>2, <1>3, <1>4 DEF Inv

\* A request that is new, or its answer at once: it has no snapshot.
LEMMA FirstRequest ==
  ASSUME Inv, NEW k \in Clients, NEW op \in {"wait", "kill", "logs"}, NEW c \in Commands,
         NEW pc \in ClientPcs, NEW res \in {"err", "finished", "notfound"},
         op = "logs" => pc = "code",
         \/ Request(k, op, c, pc)
         \/ cl' = [cl EXCEPT ![k] = [NoRequest EXCEPT !.op = op, !.c = c, !.res = res]],
         UNCHANGED <<box, owned, removing, closing, row, tracked, rc, proc, gate, runtime>>,
         lock' = lock \/ lock' = [for |-> "kill", c |-> c]
  PROVE  Inv'
  <1>0. \/ lock' = lock
        \/ lock'.for = "kill" /\ lock' \in [for : LockedFor, c : Commands \cup {Nobody}]
    BY DEF LockedFor
  <1>1. CASE Request(k, op, c, pc)
    <2> DEFINE r == [NoRequest EXCEPT !.op = op, !.c = c, !.pc = pc]
    <2>1. r \in RequestType /\ r.op = op /\ r.c = c /\ r.pc = pc /\ r.res = "none"
        /\ r.code = "none" /\ ~r.late
      BY DEF NoRequest, RequestType, Codes, ClientPcs, Helpers
    <2>2. cl' = [cl EXCEPT ![k] = r]
      BY <1>1 DEF Request
    <2>. HIDE DEF r
    <2>. QED
      BY <1>0, <2>1, <2>2, ClientMoves DEF Consistent
  <1>2. CASE cl' = [cl EXCEPT ![k] = [NoRequest EXCEPT !.op = op, !.c = c, !.res = res]]
    <2> DEFINE r == [NoRequest EXCEPT !.op = op, !.c = c, !.res = res]
    <2>1. r \in RequestType /\ r.op = op /\ r.c = c /\ r.pc = "idle" /\ r.res = res
        /\ r.code = "none" /\ ~r.late
      BY DEF NoRequest, RequestType, Codes, ClientPcs, Helpers
    <2>2. cl' = [cl EXCEPT ![k] = r]
      BY <1>2
    <2>. HIDE DEF r
    <2>. QED
      BY <1>0, <2>1, <2>2, ClientMoves DEF Consistent
  <1>. QED
    BY <1>1, <1>2

\* What a request keeps of its helper.
Kept(k, r) == r.helper = cl[k].helper /\ r.late = cl[k].late

\* An answer of any request that is not a snapshot of logs.
LEMMA AnswerInv ==
  ASSUME Inv, NEW k \in Clients, NEW res \in {"err", "finished"}, Answer(k, res),
         UNCHANGED <<box, owned, removing, closing, row, tracked, rc, proc, gate, runtime>>,
         lock' \in {lock, Free}
  PROVE  Inv'
  <1>1. cl[k] \in RequestType /\ Consistent(cl[k])
    BY DEF Inv, Types
  <1> DEFINE r == [cl[k] EXCEPT !.pc = "idle", !.res = res]
  <1>2. /\ r \in RequestType /\ r.op = cl[k].op /\ r.c = cl[k].c /\ r.pc = "idle"
        /\ r.res = res /\ r.code = cl[k].code /\ Kept(k, r)
    BY <1>1 DEF RequestType, ClientPcs, Kept
  <1>3. cl' = [cl EXCEPT ![k] = r]
    BY DEF Answer
  <1>. HIDE DEF r
  <1>. QED
    BY <1>1, <1>2, <1>3, ClientMoves DEF Consistent, Kept

\* The helper of a signal.  One that starts late finds its process gone, since what
\* is over stays over.
LEMMA HelperInv ==
  ASSUME Inv, UNCHANGED <<gate, runtime>>, NEW k \in Clients, StartHelper(k) \/ Helper(k)
  PROVE  Inv'
  <1>1. cl[k] \in RequestType /\ Consistent(cl[k]) /\ ClientStep
    BY DEF Inv, Types, StartHelper, Helper, HelperChecks, HelperKills, HelperStep
  <1>2. CASE StartHelper(k)
    <2> DEFINE over == Over(cl[k].c)
               r == [cl[k] EXCEPT !.pc = "helper", !.helper = "sent", !.late = over]
    <2>0. over \in BOOLEAN
      BY DEF Over
    <2>1. cl[k].pc = "signal" /\ cl' = [cl EXCEPT ![k] = r]
      BY <1>2 DEF StartHelper, At
    <2>2. /\ r \in RequestType /\ r.op = cl[k].op /\ r.c = cl[k].c /\ r.code = cl[k].code
          /\ r.helper = "sent" /\ r.late = over
      <3>. HIDE DEF over
      <3>. QED
        BY <1>1, <2>0 DEF RequestType, ClientPcs, Helpers
    <2>. HIDE DEF r
    <2>3. Consistent(r)
      BY <1>1, <2>1, <2>2 DEF Consistent
    <2>. QED
      BY <1>1, <2>1, <2>2, <2>3, ClientMoves DEF ClientStep, sbxVars
  <1>3. CASE Helper(k)
    <2>1. PICK st \in {"checked", "own", "other", "failed"} :
            /\ cl' = [cl EXCEPT ![k].helper = st]
            /\ cl[k].late => st = "failed"
      <3>1. CASE HelperChecks(k)
        <4>1. \/ cl' = [cl EXCEPT ![k].helper = "checked"] /\ SameStart(cl[k].c)
              \/ cl' = [cl EXCEPT ![k].helper = "failed"]
          BY <3>1 DEF HelperChecks, HelperStep
        <4>2. SameStart(cl[k].c) => ~Over(cl[k].c)
          BY DEF SameStart, Alive, Over
        <4>3. cl[k].late => Over(cl[k].c)
          BY <1>1 DEF Consistent
        <4>4. CASE cl[k].late
          BY <4>1, <4>2, <4>3, <4>4
        <4>5. CASE ~cl[k].late
          BY <4>1, <4>5
        <4>. QED
          BY <4>4, <4>5
      <3>2. CASE HelperKills(k)
        <4>1. \E st \in {"own", "other", "failed"} : cl' = [cl EXCEPT ![k].helper = st]
          <5> DEFINE st == CASE Alive(cl[k].c) -> "own"
                             [] proc[cl[k].c].st = "reused" -> "other"
                             [] OTHER -> "failed"
          <5>1. st \in {"own", "other", "failed"}
            BY DEF Alive
          <5>2. cl' = [cl EXCEPT ![k].helper = st]
            BY <3>2 DEF HelperKills, HelperStep
          <5>. QED
            BY <5>1, <5>2
        <4>2. ~cl[k].late
          BY <1>1, <3>2 DEF HelperKills, Consistent
        <4>. QED
          BY <4>1, <4>2
      <3>. QED
        BY <1>3, <3>1, <3>2 DEF Helper
    <2> DEFINE r == [cl[k] EXCEPT !.helper = st]
    <2>2. /\ r \in RequestType /\ r.op = cl[k].op /\ r.c = cl[k].c /\ r.code = cl[k].code
          /\ r.pc = cl[k].pc /\ r.res = cl[k].res /\ r.got = cl[k].got
          /\ r.helper = st /\ r.late = cl[k].late
      BY <1>1 DEF RequestType, Helpers
    <2>3. cl' = [cl EXCEPT ![k] = r]
      BY <2>1
    <2>. HIDE DEF r
    <2>4. Consistent(r)
      BY <1>1, <2>1, <2>2 DEF Consistent
    <2>. QED
      BY <1>1, <2>2, <2>3, <2>4, ClientMoves DEF ClientStep, sbxVars
  <1>. QED
    BY <1>2, <1>3

\* Docker's requests.
LEMMA DockerClientInv ==
  ASSUME Inv, UNCHANGED <<gate, runtime>>, NEW k \in Clients,
         \/ \E c \in Commands : WaitCommand(k, c) \/ KillCommand(k, c) \/ GetCommandLogs(k, c)
         \/ Served(k) \/ Helper(k) \/ Expires(k)
  PROVE  Inv'
  <1>1. /\ Types /\ cl[k] \in RequestType /\ Consistent(cl[k])
        /\ \A c \in Commands : rc[c] \in RcType /\ row[c] \in Codes \cup {"absent"} /\ Observed(c)
    BY DEF Inv, Types
  <1>2. ASSUME NEW c \in Commands,
               WaitCommand(k, c) \/ KillCommand(k, c) \/ GetCommandLogs(k, c)
        PROVE  Inv'
    <2>1. PICK op \in {"wait", "kill", "logs"}, pc \in ClientPcs :
            Asks(k, op, c, pc) /\ (op = "logs" => pc = "code")
      BY <1>2 DEF WaitCommand, KillCommand, GetCommandLogs, ClientPcs
    <2>2. PICK res \in {"err", "finished", "notfound"}, q \in ClientPcs :
            /\ \/ Request(k, op, c, q)
               \/ cl' = [cl EXCEPT ![k] = [NoRequest EXCEPT !.op = op, !.c = c, !.res = res]]
            /\ op = "logs" => q = "code"
      BY <2>1 DEF Asks, ClientPcs
    <2>3. /\ UNCHANGED <<box, owned, removing, closing, row, tracked, rc, proc, gate, runtime>>
          /\ lock' = lock
      BY <2>1 DEF Asks, ClientStep, sbxVars
    <2>. QED
      BY <2>2, <2>3, FirstRequest
  <1>3. ASSUME NEW pc \in ClientPcs, Step(k, pc), ClientStep,
               cl[k].op # "logs" /\ cl[k].op # "none"
        PROVE  Inv'
    <2> DEFINE r == [cl[k] EXCEPT !.pc = pc]
    <2>1. /\ r \in RequestType /\ r.op = cl[k].op /\ r.c = cl[k].c /\ r.code = cl[k].code
          /\ Kept(k, r)
      BY <1>1 DEF RequestType, Kept
    <2>2. cl' = [cl EXCEPT ![k] = r]
      BY <1>1, <1>3 DEF Step, Types
    <2>. HIDE DEF r
    <2>. QED
      BY <1>1, <1>3, <2>1, <2>2, ClientMoves DEF Consistent, ClientStep, sbxVars, Kept
  <1>4. ASSUME cl[k].pc \notin {"idle", "code", "bytes"}
        PROVE  cl[k].op # "logs" /\ cl[k].op # "none" /\ cl[k].c \in Commands
    BY <1>1, <1>4 DEF Consistent
  <1>5. ASSUME NEW res \in {"err", "finished"}, Answer(k, res), ClientStep
        PROVE  Inv'
    BY <1>5, AnswerInv DEF ClientStep, sbxVars
  <1>6. CASE WaitDone(k)
    <2>1. \/ Answer(k, "err") /\ ClientStep
          \/ Step(k, "read") /\ ClientStep /\ cl[k].pc = "done"
      BY <1>6 DEF WaitDone, At
    <2>. QED
      BY <1>3, <1>4, <1>5, <2>1 DEF ClientPcs
  <1>7. CASE ReadRow(k)
    <2>1. cl[k].op # "logs" /\ cl[k].op # "none" /\ cl[k].c \in Commands /\ ClientStep
      BY <1>4, <1>7 DEF ReadRow, At
    <2> DEFINE res == IF row[cl[k].c] = "absent" THEN "notfound" ELSE "ok"
               code == IF row[cl[k].c] = "absent" THEN "none" ELSE DetailCode(cl[k].c)
               r == [cl[k] EXCEPT !.pc = "idle", !.res = res, !.code = code]
    <2>2. /\ code \in Codes /\ res \in {"ok", "notfound"}
          /\ code = "exit" => Over(cl[k].c)
      BY <1>1, <2>1 DEF DetailCode, RcType, Codes, Observed
    <2>3. cl' = [cl EXCEPT ![k] = r]
      BY <1>7 DEF ReadRow
    <2>. HIDE DEF res, code
    <2>4. /\ r \in RequestType /\ r.op = cl[k].op /\ r.c = cl[k].c /\ r.code = code
          /\ Kept(k, r)
      BY <1>1, <2>2 DEF RequestType, ClientPcs, Kept
    <2>. HIDE DEF r
    <2>. QED
      BY <1>1, <2>1, <2>2, <2>3, <2>4, ClientMoves DEF Consistent, ClientStep, sbxVars, Kept
  <1>8. CASE LogsCode(k)
    <2> DEFINE c == cl[k].c
               r == [cl[k] EXCEPT !.pc = "bytes", !.code = rc[c].code]
    <2>1. c \in Commands /\ ClientStep /\ cl[k].op # "none" /\ cl[k].pc = "code"
      BY <1>1, <1>8 DEF LogsCode, At, Consistent
    <2>2. CASE rc[c].err
      BY <1>5, <1>8, <2>2 DEF LogsCode
    <2>3. CASE ~rc[c].err
      <3>1. cl' = [cl EXCEPT ![k] = r]
        BY <1>8, <2>3 DEF LogsCode
      <3>2. /\ r \in RequestType /\ r.op = cl[k].op /\ r.c = c /\ r.pc = "bytes"
            /\ r.res = cl[k].res /\ r.code = rc[c].code /\ Kept(k, r)
        BY <1>1, <2>1 DEF RequestType, ClientPcs, RcType, Kept
      <3>3. rc[c].code = "exit" => Drained(c)
        BY <1>1, <2>1, <2>3 DEF Observed
      <3>. HIDE DEF r
      <3>4. Consistent(r)
        BY <1>1, <2>1, <3>2, <3>3 DEF Consistent, Drained, Kept
      <3>. QED
        BY <2>1, <3>1, <3>2, <3>4, ClientMoves DEF ClientStep, sbxVars
    <2>. QED
      BY <2>2, <2>3
  <1>9. CASE LogsBytes(k)
    <2> DEFINE c == cl[k].c
               r == [cl[k] EXCEPT !.pc = "idle", !.res = "ok", !.got = rc[c].cap]
    <2>1. c \in Commands /\ ClientStep /\ cl[k].op # "none" /\ cl[k].pc = "bytes"
      BY <1>1, <1>9 DEF LogsBytes, At, Consistent
    <2>2. cl' = [cl EXCEPT ![k] = r]
      BY <1>9 DEF LogsBytes
    <2>3. /\ r \in RequestType /\ r.op = cl[k].op /\ r.c = c /\ r.pc = "idle"
          /\ r.res = "ok" /\ r.code = cl[k].code /\ r.got = rc[c].cap
          /\ Kept(k, r)
      BY <1>1, <2>1 DEF RequestType, ClientPcs, RcType, Kept
    <2>. HIDE DEF r
    <2>4. Consistent(r)
      BY <1>1, <2>1, <2>3 DEF Consistent, Drained, Kept
    <2>. QED
      BY <2>1, <2>2, <2>3, <2>4, ClientMoves DEF ClientStep, sbxVars
  <1>10. CASE KillRunning(k) \/ KillIdentity(k) \/ KillSettles(k)
    <2>1. \/ \E res \in {"err", "finished"} : Answer(k, res) /\ ClientStep
          \/ /\ \E pc \in ClientPcs : Step(k, pc) /\ ClientStep
             /\ cl[k].pc \in {"running", "identity", "settle"}
      BY <1>10 DEF KillRunning, KillIdentity, KillSettles, Terminal, At, ClientPcs
    <2>. QED
      BY <1>3, <1>4, <1>5, <2>1
  <1>11. CASE KillSignal(k)
    <2>1. /\ cl[k].op # "logs" /\ cl[k].op # "none" /\ ClientStep
          /\ Step(k, "settle") \/ Answer(k, "err")
      BY <1>4, <1>11 DEF KillSignal, At
    <2>. QED
      BY <1>3, <1>5, <2>1 DEF ClientPcs
  <1>12. CASE Expires(k)
    BY <1>5, <1>12 DEF Expires
  <1>13. CASE StartHelper(k) \/ Helper(k)
    BY <1>13, HelperInv
  <1>. QED
    BY <1>2, <1>6, <1>7, <1>8, <1>9, <1>10, <1>11, <1>12, <1>13 DEF Served

\* Apple's requests.
LEMMA AppleClientInv ==
  ASSUME Inv, runtime' = runtime, NEW k \in Clients,
         \/ \E c \in Commands : Waits(k, c) \/ Logs(k, c) \/ Kills(k, c)
         \/ Waited(k) \/ Gets(k) \/ Signals(k) \/ Leaves(k)
  PROVE  Inv'
  <1> DEFINE Still == UNCHANGED <<box, owned, removing, closing, row, tracked, rc, proc, gate,
                                  runtime>>
  <1>1. /\ Types /\ cl[k] \in RequestType /\ Consistent(cl[k])
        /\ \A c \in Commands : rc[c] \in RcType /\ row[c] \in Codes \cup {"absent"} /\ Observed(c)
    BY DEF Inv, Types
  <1>2. ASSUME NEW c \in Commands, Waits(k, c) \/ Logs(k, c) \/ Kills(k, c)
        PROVE  Inv'
    <2>1. PICK op \in {"wait", "kill", "logs"}, pc \in ClientPcs, res \in {"err", "finished"} :
            /\ \/ Request(k, op, c, pc)
               \/ cl' = [cl EXCEPT ![k] = [NoRequest EXCEPT !.op = op, !.c = c, !.res = res]]
            /\ op = "logs" => pc = "code"
      BY <1>2 DEF Waits, Logs, Kills, NewAnswer, ClientPcs
    <2>2. /\ Still
          /\ lock' = lock \/ lock' = [for |-> "kill", c |-> c]
      BY <1>2 DEF Waits, Logs, Kills, ClientStep, sbxVars
    <2>. QED
      BY <2>1, <2>2, FirstRequest
  <1>3. ASSUME cl[k].pc \notin {"idle", "code", "bytes"}
        PROVE  cl[k].op # "logs" /\ cl[k].op # "none" /\ cl[k].c \in Commands
    BY <1>1, <1>3 DEF Consistent
  <1>4. ASSUME Answer(k, "err"), Still, lock' \in {lock, Free}
        PROVE  Inv'
    BY <1>4, AnswerInv
  <1>5. ASSUME NEW code \in Codes, Tells(k, "ok", code), Still, lock' = lock,
               cl[k].op # "logs", cl[k].op # "none", code = "exit" => Over(cl[k].c)
        PROVE  Inv'
    <2> DEFINE r == [cl[k] EXCEPT !.pc = "idle", !.res = "ok", !.code = code]
    <2>1. /\ r \in RequestType /\ r.op = cl[k].op /\ r.c = cl[k].c /\ r.code = code
          /\ Kept(k, r)
      BY <1>1 DEF RequestType, ClientPcs, Kept
    <2>2. cl' = [cl EXCEPT ![k] = r]
      BY <1>5 DEF Tells
    <2>. HIDE DEF r
    <2>. QED
      BY <1>1, <1>5, <2>1, <2>2, ClientMoves DEF Consistent, Kept
  <1>6. CASE Waited(k)
    <2>1. Still /\ lock' = lock /\ cl[k].pc = "done"
      BY <1>6 DEF Waited, ClientStep, sbxVars, At
    <2>2. rc[cl[k].c].code \in Codes /\ (rc[cl[k].c].code = "exit" => Over(cl[k].c))
      BY <1>1, <1>3, <2>1 DEF RcType, Observed
    <2>. QED
      BY <1>3, <1>4, <1>5, <1>6, <2>1, <2>2 DEF Waited
  <1>7. CASE Gets(k)
    <2>1. Still /\ lock' = lock /\ cl[k].pc = "get"
      BY <1>7 DEF Gets, ClientStep, sbxVars, At
    <2> DEFINE c == cl[k].c
               code == IF c \in tracked THEN rc[c].code ELSE row[c]
    <2>2. Known(c) => code \in Codes /\ (code = "exit" => Over(c))
      BY <1>1, <1>3, <2>1 DEF RcType, Known, Observed
    <2>3. (Known(c) /\ Tells(k, "ok", code)) \/ Answer(k, "err")
      BY <1>7 DEF Gets
    <2>. HIDE DEF code
    <2>. QED
      BY <1>3, <1>4, <1>5, <2>1, <2>2, <2>3
  <1>8. CASE Signals(k)
    <2>1. /\ Still /\ lock' = Free /\ cl[k].pc \in {"signal", "helper"}
          /\ Answer(k, "ok") \/ Answer(k, "err")
      BY <1>8 DEF Signals, At
    <2>2. CASE Answer(k, "ok")
      <3> DEFINE r == [cl[k] EXCEPT !.pc = "idle", !.res = "ok"]
      <3>1. /\ r \in RequestType /\ r.op = cl[k].op /\ r.c = cl[k].c /\ r.code = cl[k].code
            /\ Kept(k, r)
        BY <1>1 DEF RequestType, ClientPcs, Kept
      <3>2. cl' = [cl EXCEPT ![k] = r]
        BY <2>2 DEF Answer
      <3>. HIDE DEF r
      <3>. QED
        BY <1>1, <1>3, <2>1, <3>1, <3>2, ClientMoves DEF Consistent, Kept
    <2>. QED
      BY <1>4, <2>1, <2>2
  <1>9. CASE Leaves(k)
    BY <1>4, <1>9 DEF Leaves, ClientStep, sbxVars
  <1>. QED
    BY <1>2, <1>6, <1>7, <1>8, <1>9

-----------------------------------------------------------------------------

LEMMA NextInv == Inv /\ [AppleNext]_appleVars => Inv'
  <1> SUFFICES ASSUME Inv, [AppleNext]_appleVars PROVE Inv'
    OBVIOUS
  <1>1. CASE runtime = "docker" /\ Next /\ UNCHANGED <<gate, runtime>>
    <2>1. \/ (\E c \in Commands : ExecBegin(c)) \/ ExecProbe \/ ExecCreate \/ ExecSave
          \/ BoxStops \/ BoxStarts \/ RemoveBegin \/ RemoveNative \/ RemoveDelete \/ Shutdown
          \/ Restart
          \/ \E c \in Commands :
               \/ Attach(c) \/ Copy(c) \/ BadPreamble(c) \/ StreamEnds(c) \/ StreamFails(c)
               \/ Ends(c) \/ Evict(c) \/ Guest(c)
          \/ \E k \in Clients :
               \/ \E c \in Commands : WaitCommand(k, c) \/ KillCommand(k, c) \/ GetCommandLogs(k, c)
               \/ Served(k) \/ Helper(k) \/ Expires(k)
      BY <1>1 DEF Next, Sandbox
    <2>2. CASE Restart
      BY <1>1, <2>2, RestartInv DEF Inv, Types
    <2>3. ASSUME NEW c \in Commands,
                 \/ Attach(c) \/ Copy(c) \/ BadPreamble(c) \/ StreamEnds(c) \/ StreamFails(c)
                 \/ Ends(c) \/ Evict(c) \/ Guest(c)
          PROVE  Inv'
      BY <1>1, <2>3, StreamInv, GoroutineInv, GuestInv DEF Ends
    <2>. QED
      BY <1>1, <2>1, <2>2, <2>3, ExecInv, SandboxInv, DockerClientInv
  <1>2. CASE runtime = "container" /\ ContainerNext /\ UNCHANGED runtime
    <2>1. CASE (\E c \in Commands : BeginExec(c)) \/ Exec
      BY <1>2, <2>1, AppleExecInv
    <2>2. CASE ServerRestarts
      <3>1. /\ gate' \in [Commands -> {"held", "open", "closed"}]
            /\ \A c \in Commands : gate[c] = "open" => gate'[c] = "open"
        BY <2>2 DEF ServerRestarts, Inv, Types
      <3>. QED
        BY <1>2, <2>2, <3>1, RestartInv DEF ServerRestarts
    <2>3. CASE Shared
      BY <1>2, <2>3, SandboxInv, GoroutineInv, GuestInv, DockerClientInv DEF Shared, Served
    <2>4. CASE \E c \in Commands : Tool(c) \/ WrapperStarts(c) \/ WrapperEnds(c)
      BY <1>2, <2>4, ToolInv
    <2>5. CASE \E k \in Clients :
                 \/ \E c \in Commands : Waits(k, c) \/ Logs(k, c) \/ Kills(k, c)
                 \/ Waited(k) \/ Gets(k) \/ Signals(k) \/ Leaves(k)
      BY <1>2, <2>5, AppleClientInv
    <2>. QED
      BY <1>2, <2>1, <2>2, <2>3, <2>4, <2>5 DEF ContainerNext
  <1>3. CASE UNCHANGED appleVars
    BY <1>3
    DEF appleVars, vars, Inv, Types, Registration, Observed, Guarded, Consistent, Silent,
        Drained, Running, Over
  <1>. QED
    BY <1>1, <1>2, <1>3 DEF AppleNext

LEMMA Invariance == AppleSpec => []Inv
  BY InitInv, NextInv, PTL DEF AppleSpec

-----------------------------------------------------------------------------

\* Logs that come with an exit status are all that the process wrote: the status
\* is stored after the stream was drained, and read before the buffers
\* (docker/commands.go:193-262 and GetCommandLogs, applecontainer/commands.go).
THEOREM FinalLogsEver == AppleSpec => []FinalLogs
  <1>1. Inv => FinalLogs
    BY DEF Inv, Consistent, FinalLogs
  <1>. QED
    BY <1>1, Invariance, PTL

\* With Docker, a status that is not the -1 of a failed attach is of a process that
\* is over, in memory, in the database and in what clients are told; and an
\* observation that closes without an error is its end, unless its attach failed.
\* (ExecInspect, docker/commands.go:226-245, is the only source of such a status.)
THEOREM EndIsConfirmedEver == AppleSpec => []EndIsConfirmed
  <1>1. Inv => EndIsConfirmed
    <2> SUFFICES ASSUME Inv, NEW c \in Commands
                 PROVE  /\ "exit" \in Statuses(c) => Over(c)
                        /\ Done(c) /\ ~rc[c].err => rc[c].code = "fail" \/ Over(c)
      BY DEF EndIsConfirmed
    <2>1. Observed(c) /\ rc[c].code \in Codes
      BY DEF Inv, Types, RcType
    <2>2. \A k \in Clients : cl[k].c = c /\ cl[k].code = "exit" => Over(c)
      BY DEF Inv, Consistent
    <2>. QED
      BY <2>1, <2>2 DEF Statuses, Observed, Done, Codes
  <1>. QED
    BY <1>1, Invariance, PTL

\* A helper that starts when the command's process is over signals nothing: the
\* start time that it checks is never again that of the process with that ID
\* (identitySignalScript, command_identity.go:62-74; applecontainer's signalWrapper).
THEOREM NoLateSignalEver == AppleSpec => []NoLateSignal
  <1>1. Inv => NoLateSignal
    BY DEF Inv, Consistent, NoLateSignal
  <1>. QED
    BY <1>1, Invariance, PTL

\* Ownership and command history go together: no registration that was under way,
\* and no command that just ended, leaves a row or a tracked command of a removed
\* sandbox (RemoveNative before RemoveDelete, under one lock).
THEOREM NoCommandOfRemovedEver == AppleSpec => []NoCommandOfRemoved
  <1>1. Inv => NoCommandOfRemoved
    BY DEF Inv, Registration, NoCommandOfRemoved
  <1>. QED
    BY <1>1, Invariance, PTL

\* A caller of Apple's client who was told that the payload was not released may
\* execute it again: it has not run and has written nothing.
THEOREM NotReleasedEver == AppleSpec => []NotReleased
  <1>1. Inv => NotReleased
    BY DEF Inv, Types, Guarded, Running, NotReleased
  <1>. QED
    BY <1>1, Invariance, PTL
=============================================================================
