-------------------------- MODULE ServerControlProofs --------------------------
(***************************************************************************)
(* Proofs that a server which serves is recorded, that what `opensbx       *)
(* start` and `opensbx stop` report is so, and that a data directory and a *)
(* database have one server, for every number of processes, commands,      *)
(* directories and databases.  The invariant says who holds which lock at  *)
(* each step, and what a number in a record or in a command still names.   *)
(***************************************************************************)
EXTENDS ServerControl, TLAPS

Early == {"boot", "acquire", "clear", "start", "publish"}     \* not yet recorded
Controlling == {"clear", "start", "publish", "serve", "close", "unlock"}
Running == Controlling \cup {"acquire", "release"}
ServerSteps == Running \cup {"boot", "none"}
LockingSteps == {"remove", "unlock"}
CallSteps == LockingSteps \cup {"none", "probe", "read", "free", "taken", "started",
                                "stopped"}

ProcessType == [pc : ServerSteps, dir : Dirs \cup {None}, db : Databases \cup {None}]
CallType == [pc : CallSteps, op : {"none", "start", "stop"}, dir : Dirs \cup {None},
             stage : {"first", "poll", "failed"}, pid : Pids \cup {None},
             seen : Pids \cup {None}]

Types ==
  /\ dblock \in [Databases -> Pids \cup {None}]
  /\ lock \in [Dirs -> Pids \cup Calls \cup {None}]
  /\ record \in [Dirs -> Pids \cup {None}]
  /\ srv \in [Pids -> ProcessType]
  /\ call \in [Calls -> CallType]

\* What a server and a command hold at their step.
ServerHolds(p) ==
  /\ srv[p].pc # "none" => srv[p].dir \in Dirs /\ srv[p].db \in Databases
  /\ srv[p].pc \in Controlling => lock[srv[p].dir] = p
  /\ srv[p].pc \in Running => dblock[srv[p].db] = p
  /\ srv[p].pc = "serve" => record[srv[p].dir] = p

CallHolds(c) ==
  /\ call[c].pc # "none" => call[c].dir \in Dirs
  /\ call[c].pc \in LockingSteps => lock[call[c].dir] = c

\* Number p names the process that was recorded for directory d, or none.
Known(p, d) == srv[p].pc \notin Early /\ (srv[p].pc # "none" => srv[p].dir = d)

RecordKnown(d) == record[d] \in Pids => Known(record[d], d)

\* What a command may rely on: a number it has read was recorded; with the lock
\* in its hands the process that it has signalled is done with the directory.
CallKnows(c) ==
  /\ call[c].seen \in Pids => Known(call[c].seen, call[c].dir)
  /\ call[c].stage # "first" => call[c].pid \in Pids
  /\ call[c].pc = "started" => call[c].pid \in Pids /\ srv[call[c].pid].pc \notin Early
  /\ call[c].pc = "stopped" => call[c].op = "stop" /\ call[c].stage # "first"
  /\ call[c].op = "stop" /\ call[c].stage # "first" =>
       /\ Known(call[c].pid, call[c].dir)
       /\ call[c].pc \in LockingSteps \cup {"free", "stopped"} =>
            srv[call[c].pid].pc \in {"release", "none"}

Inv ==
  /\ Types
  /\ \A p \in Pids : ServerHolds(p)
  /\ \A c \in Calls : CallHolds(c) /\ CallKnows(c)
  /\ \A d \in Dirs : RecordKnown(d)

-----------------------------------------------------------------------------

LEMMA IdleTyped ==
  NoProcess \in ProcessType /\ NoProcess.pc = "none" /\ NoCall \in CallType
  BY DEF NoProcess, NoCall, ProcessType, CallType, ServerSteps, CallSteps

LEMMA InitInv == Init => Inv
  <1> SUFFICES ASSUME Init PROVE Inv
    OBVIOUS
  <1>1. Types
    BY IdleTyped DEF Init, Types
  <1>2. /\ \A p \in Pids : srv[p].pc = "none"
        /\ \A c \in Calls : call[c] = NoCall
        /\ \A d \in Dirs : record[d] = None
    BY DEF Init, NoProcess
  <1>. QED
    BY <1>1, <1>2, ServerControlAssumption
    DEF Inv, ServerHolds, CallHolds, CallKnows, RecordKnown, NoCall, Controlling,
        Running, LockingSteps

-----------------------------------------------------------------------------

\* Process p stays past its record, on its directory, and on its way out.
Onward(p) ==
  /\ srv[p].pc \notin Early => srv'[p].pc \notin Early
  /\ srv[p].pc \in {"release", "none"} => srv'[p].pc \in {"release", "none"}
  /\ srv'[p].pc # "none" => srv[p].pc # "none" /\ srv'[p].dir = srv[p].dir

LEMMA KnownOnward ==
  ASSUME NEW p, NEW d, Known(p, d), Onward(p)
  PROVE  Known(p, d)'
  BY DEF Known, Onward

LEMMA CallKnowsOnward ==
  ASSUME NEW c, CallKnows(c), call' = call, \A p \in Pids : Onward(p)
  PROVE  CallKnows(c)'
  BY DEF CallKnows, Known, Onward

LEMMA RecordKnownOnward ==
  ASSUME NEW d, RecordKnown(d), record'[d] \in {record[d], None},
         \A p \in Pids : Onward(p)
  PROVE  RecordKnown(d)'
  BY ServerControlAssumption DEF RecordKnown, Known, Onward

\* What another holds is not touched.
LEMMA HoldsKept ==
  ASSUME Inv, NEW p \in Pids, srv'[p] = srv[p],
         srv[p].pc \in Controlling => lock'[srv[p].dir] = lock[srv[p].dir],
         srv[p].pc \in Running => dblock'[srv[p].db] = dblock[srv[p].db],
         srv[p].pc = "serve" => record'[srv[p].dir] = record[srv[p].dir]
  PROVE  ServerHolds(p)'
  BY DEF Inv, ServerHolds

\* A server goes on with its own work.
LEMMA ServerStepInv ==
  ASSUME Inv, NEW p \in Pids, ServerStep(p)
  PROVE  Inv'
  <1>1. /\ Types /\ ServerHolds(p) /\ p # None /\ p \notin Calls /\ None \notin Calls
        /\ call' = call
        /\ NoProcess \in ProcessType /\ NoProcess.pc = "none"
    BY ServerControlAssumption, IdleTyped
    DEF Inv, ServerStep, LockDatabase, Acquire, ClearRecord, Start, Publish,
        StopServing, Close, Unlock, Release
  <1>2. /\ srv[p].pc \in Running \cup {"boot"} /\ srv[p].dir \in Dirs /\ srv[p].db \in Databases
    BY <1>1
    DEF ServerStep, LockDatabase, Acquire, ClearRecord, Start, Publish, StopServing,
        Close, Unlock, Release, Server, ServerHolds, Running, Controlling
  <1> DEFINE d == srv[p].dir
             b == srv[p].db
  <1>a. \/ lock' = lock /\ srv'[p].pc # "clear" /\ srv[p].pc # "unlock"
        \/ lock[d] = None /\ lock' = [lock EXCEPT ![d] = p] /\ srv[p].pc = "acquire"
        \/ srv[p].pc = "unlock" /\ lock' = [lock EXCEPT ![d] = None]
    BY <1>1
    DEF ServerStep, LockDatabase, Acquire, ClearRecord, Start, Publish, StopServing,
        Close, Unlock, Release, Server, Advance, disk, Types, ProcessType
  <1>b. \/ dblock' = dblock /\ srv[p].pc \notin {"boot", "release"}
        \/ dblock' = dblock /\ srv[p].pc = "boot" /\ srv'[p].pc = "none"
        \/ dblock[b] = None /\ dblock' = [dblock EXCEPT ![b] = p] /\ srv[p].pc = "boot"
        \/ srv[p].pc = "release" /\ dblock' = [dblock EXCEPT ![b] = None]
    BY <1>1
    DEF ServerStep, LockDatabase, Acquire, ClearRecord, Start, Publish, StopServing,
        Close, Unlock, Release, Server, Advance, disk, Types, ProcessType, NoProcess
  <1>c. \/ record' = record /\ srv'[p].pc # "serve"
        \/ srv[p].pc \in {"clear", "close"} /\ srv'[p].pc # "serve"
           /\ record' \in {record, [record EXCEPT ![d] = None]}
        \/ srv[p].pc = "publish" /\ srv'[p].pc = "serve" /\ record' = [record EXCEPT ![d] = p]
    BY <1>1, <1>2
    DEF ServerStep, LockDatabase, Acquire, ClearRecord, Start, Publish, StopServing,
        Close, Unlock, Release, Server, Advance, disk, Types, ProcessType, NoProcess
  <1>d. \/ srv' = [srv EXCEPT ![p] = NoProcess] /\ srv[p].pc \in {"boot", "release"}
        \/ \E pc \in ServerSteps :
             /\ srv' = [srv EXCEPT ![p].pc = pc]
             /\ <<srv[p].pc, pc>> \in
                  {<<"boot", "acquire">>, <<"acquire", "clear">>, <<"acquire", "release">>,
                   <<"clear", "start">>, <<"start", "publish">>, <<"start", "close">>,
                   <<"publish", "serve">>, <<"publish", "close">>, <<"serve", "close">>,
                   <<"close", "unlock">>, <<"unlock", "release">>}
    BY DEF ServerStep, LockDatabase, Acquire, ClearRecord, Start, Publish, StopServing,
           Close, Unlock, Release, Server, Advance, ServerSteps, Running, Controlling
  <1>3. /\ srv' \in [Pids -> ProcessType]
        /\ \A q \in Pids : q # p => srv'[q] = srv[q]
        /\ srv'[p].pc # "none" => srv'[p].dir = srv[p].dir /\ srv'[p].db = srv[p].db
        /\ Onward(p)
    BY <1>1, <1>2, <1>d DEF Types, ProcessType, Onward, Early
  <1>4. /\ lock' \in [Dirs -> Pids \cup Calls \cup {None}]
        /\ dblock' \in [Databases -> Pids \cup {None}]
        /\ record' \in [Dirs -> Pids \cup {None}]
    BY <1>1, <1>2, <1>a, <1>b, <1>c DEF Types
  <1>5. ServerHolds(p)'
    <2>1. srv'[p].pc \in Controlling => lock'[d] = p
      BY <1>1, <1>2, <1>a, <1>d DEF Types, ProcessType, ServerHolds, Controlling, NoProcess
    <2>2. srv'[p].pc \in Running => dblock'[b] = p
      BY <1>1, <1>2, <1>b, <1>d
      DEF Types, ProcessType, ServerHolds, Running, Controlling, NoProcess
    <2>3. srv'[p].pc = "serve" => record'[d] = p
      BY <1>1, <1>2, <1>c DEF Types
    <2>. QED
      BY <1>2, <1>3, <2>1, <2>2, <2>3
      DEF ServerHolds, Controlling, Running
  <1>6. ASSUME NEW q \in Pids, q # p PROVE ServerHolds(q)'
    <2>1. ServerHolds(q)
      BY DEF Inv
    <2>2. srv[q].pc \in Controlling => lock'[srv[q].dir] = lock[srv[q].dir]
      BY <1>1, <1>2, <1>6, <1>a, <2>1, ServerControlAssumption
      DEF Types, ServerHolds, Controlling
    <2>3. srv[q].pc \in Running => dblock'[srv[q].db] = dblock[srv[q].db]
      BY <1>1, <1>2, <1>6, <1>b, <2>1, ServerControlAssumption
      DEF Types, ServerHolds, Controlling, Running
    <2>4. srv[q].pc = "serve" => record'[srv[q].dir] = record[srv[q].dir]
      BY <1>1, <1>2, <1>6, <1>c, <2>1 DEF Types, ServerHolds, Controlling
    <2>. QED
      BY <1>3, <1>6, <2>2, <2>3, <2>4, HoldsKept
  <1>7. ASSUME NEW c \in Calls PROVE CallHolds(c)' /\ CallKnows(c)'
    <2>1. \A q \in Pids : Onward(q)
      BY <1>3 DEF Onward
    <2>2. CallKnows(c)'
      BY <1>1, <1>7, <2>1, CallKnowsOnward DEF Inv
    <2>3. CallHolds(c)'
      BY <1>1, <1>2, <1>7, <1>a
      DEF Inv, Types, ServerHolds, CallHolds, Controlling, LockingSteps
    <2>. QED
      BY <2>2, <2>3
  <1>8. ASSUME NEW e \in Dirs PROVE RecordKnown(e)'
    <2>1. CASE record'[e] \in {record[e], None}
      BY <1>3, <1>8, <2>1, RecordKnownOnward DEF Inv, Onward
    <2>2. CASE record'[e] \notin {record[e], None}
      <3>1. record'[e] = p /\ e = srv[p].dir /\ srv'[p].pc = "serve"
        BY <1>1, <1>2, <1>8, <1>c, <2>2 DEF Types
      <3>. QED
        BY <1>3, <3>1 DEF RecordKnown, Known, Early
    <2>. QED
      BY <2>1, <2>2
  <1>. QED
    BY <1>1, <1>3, <1>4, <1>5, <1>6, <1>7, <1>8 DEF Inv, Types

\* A new process has a number that nobody remembers.
LEMMA LaunchInv ==
  ASSUME Inv, NEW p \in Pids, NEW d \in Dirs, NEW b \in ExecutionPaths(d),
         FreshPid(p), Launched(p, d, b), UNCHANGED disk
  PROVE  /\ \A q \in Pids : ServerHolds(q)'
         /\ \A e \in Dirs : RecordKnown(e)'
         /\ srv' \in [Pids -> ProcessType]
         /\ srv'[p].pc = "boot"
         /\ \A q \in Pids : q # p => srv'[q] = srv[q]
  <1>1. /\ b \in Databases /\ Types /\ p # None /\ UNCHANGED <<dblock, lock, record>>
    BY ServerControlAssumption DEF Databases, Inv, disk
  <1> DEFINE child == [NoProcess EXCEPT !.pc = "boot", !.dir = d, !.db = b]
  <1>2. child \in ProcessType /\ child.pc = "boot" /\ child.dir = d /\ child.db = b
    BY <1>1, IdleTyped DEF ProcessType, ServerSteps, Running
  <1>. HIDE DEF child
  <1>3. /\ srv' \in [Pids -> ProcessType] /\ srv'[p].pc = "boot"
        /\ srv'[p].dir = d /\ srv'[p].db = b
        /\ \A q \in Pids : q # p => srv'[q] = srv[q]
    BY <1>1, <1>2 DEF Types, Launched, child
  <1>4. ASSUME NEW q \in Pids PROVE ServerHolds(q)'
    <2>1. CASE q = p
      BY <1>1, <1>3, <2>1 DEF ServerHolds, Controlling, Running
    <2>2. CASE q # p
      BY <1>1, <1>3, <1>4, <2>2, HoldsKept
    <2>. QED
      BY <2>1, <2>2
  <1>5. ASSUME NEW e \in Dirs PROVE RecordKnown(e)'
    <2>1. RecordKnown(e) /\ record'[e] = record[e] /\ record[e] # p
      BY <1>1, <1>5 DEF Inv, FreshPid
    <2>. QED
      BY <1>3, <2>1 DEF RecordKnown, Known
  <1>. QED
    BY <1>3, <1>4, <1>5

\* What the other commands know is not about the new process.
LEMMA FreshKept ==
  ASSUME Inv, NEW p \in Pids, NEW c \in Calls, FreshPid(p), call'[c] = call[c],
         \A q \in Pids : q # p => srv'[q] = srv[q]
  PROVE  CallKnows(c)'
  BY DEF Inv, FreshPid, CallKnows, Known

LEMMA ForegroundInv ==
  ASSUME Inv, NEW p \in Pids, NEW d \in Dirs, NEW b \in ExecutionPaths(d),
         Foreground(p, d, b)
  PROVE  Inv'
  <1>1. FreshPid(p) /\ Launched(p, d, b) /\ UNCHANGED disk /\ call' = call
    BY DEF Foreground
  <1>2. \A c \in Calls : CallHolds(c)' /\ CallKnows(c)'
    BY <1>1, LaunchInv, FreshKept DEF Inv, CallHolds, disk
  <1>. QED
    BY <1>1, <1>2, LaunchInv DEF Inv, Types, disk

\* A killed process lets go of its locks.
LEMMA KilledHolds ==
  ASSUME Inv, NEW p \in Pids, Killed(p)
  PROVE  /\ \A q \in Pids : ServerHolds(q)' /\ Onward(q)
         /\ \A d \in Dirs : RecordKnown(d)'
         /\ srv' \in [Pids -> ProcessType]
         /\ lock' \in [Dirs -> Pids \cup Calls \cup {None}]
         /\ dblock' \in [Databases -> Pids \cup {None}]
         /\ record' = record
         /\ \A d \in Dirs : lock[d] # p => lock'[d] = lock[d]
         /\ srv'[p].pc = "none"
  <1>1. Types /\ p # None /\ NoProcess \in ProcessType /\ NoProcess.pc = "none"
    BY IdleTyped, ServerControlAssumption DEF Inv
  <1>2. /\ srv' \in [Pids -> ProcessType] /\ srv'[p].pc = "none"
        /\ \A q \in Pids : q # p => srv'[q] = srv[q]
    BY <1>1 DEF Killed, Types
  <1>3. /\ lock' \in [Dirs -> Pids \cup Calls \cup {None}]
        /\ \A d \in Dirs : lock[d] # p => lock'[d] = lock[d]
    BY <1>1 DEF Killed, Without, Types
  <1>4. /\ dblock' \in [Databases -> Pids \cup {None}]
        /\ \A b \in Databases : dblock[b] # p => dblock'[b] = dblock[b]
    BY <1>1 DEF Killed, Without, Types
  <1>5. ASSUME NEW q \in Pids PROVE ServerHolds(q)' /\ Onward(q)
    <2>1. CASE q = p
      BY <1>2, <2>1 DEF ServerHolds, Onward, Early, Controlling, Running
    <2>2. CASE q # p
      <3>1. ServerHolds(q)
        BY DEF Inv
      <3>2. ServerHolds(q)'
        BY <1>2, <1>3, <1>4, <1>5, <2>2, <3>1
        DEF ServerHolds, Killed, Controlling, Running
      <3>. QED
        BY <1>2, <1>5, <2>2, <3>2 DEF Onward
    <2>. QED
      BY <2>1, <2>2
  <1>6. ASSUME NEW d \in Dirs PROVE RecordKnown(d)'
    BY <1>5, <1>6, RecordKnownOnward DEF Inv, Killed
  <1>. QED
    BY <1>2, <1>3, <1>4, <1>5, <1>6 DEF Killed

LEMMA CrashInv ==
  ASSUME Inv, NEW p \in Pids, Crash(p)
  PROVE  Inv'
  <1>1. Killed(p) /\ call' = call /\ p \notin Calls
    BY ServerControlAssumption DEF Crash
  <1>2. \A c \in Calls : CallHolds(c)' /\ CallKnows(c)'
    BY <1>1, KilledHolds, CallKnowsOnward DEF Inv, CallHolds, LockingSteps
  <1>. QED
    BY <1>1, <1>2, KilledHolds DEF Inv, Types

-----------------------------------------------------------------------------
(* Commands.                                                               *)

\* A command goes on: the servers are left alone, and so is what others hold.
LEMMA CallMoves ==
  ASSUME Inv, NEW c \in Calls, srv' = srv, dblock' = dblock,
         lock' \in [Dirs -> Pids \cup Calls \cup {None}],
         \A d \in Dirs : lock[d] \notin {None, c} => lock'[d] = lock[d],
         record' \in [Dirs -> Pids \cup {None}],
         \A d \in Dirs : record'[d] = record[d] \/ (record'[d] = None /\ lock[d] = c),
         call' \in [Calls -> CallType],
         \A k \in Calls : k # c => call'[k] = call[k],
         CallHolds(c)', CallKnows(c)'
  PROVE  Inv'
  <1>1. Types'
    BY DEF Inv, Types
  <1>2. ASSUME NEW p \in Pids PROVE ServerHolds(p)'
    BY <1>2, ServerControlAssumption DEF Inv, ServerHolds, Controlling, Types
  <1>3. ASSUME NEW k \in Calls PROVE CallHolds(k)' /\ CallKnows(k)'
    <2>1. CASE k # c
      BY <1>3, <2>1, ServerControlAssumption
      DEF Inv, CallHolds, CallKnows, Known, LockingSteps
    <2>. QED
      BY <2>1
  <1>4. ASSUME NEW d \in Dirs PROVE RecordKnown(d)'
    BY <1>4, ServerControlAssumption DEF Inv, RecordKnown, Known
  <1>. QED
    BY <1>1, <1>2, <1>3, <1>4 DEF Inv

LEMMA AskInv ==
  ASSUME Inv, NEW c \in Calls, NEW d \in Dirs, NEW op \in {"start", "stop"}, Ask(c, op, d)
  PROVE  Inv'
  <1> DEFINE asked == [NoCall EXCEPT !.pc = "probe", !.op = op, !.dir = d]
  <1>1. /\ asked \in CallType /\ asked.pc = "probe" /\ asked.stage = "first"
        /\ asked.dir = d /\ asked.seen = None
    BY IdleTyped DEF CallType, CallSteps, NoCall
  <1>2. call' = [call EXCEPT ![c] = asked]
    BY DEF Ask
  <1>. HIDE DEF asked
  <1>3. call' \in [Calls -> CallType] /\ CallHolds(c)' /\ CallKnows(c)'
    BY <1>1, <1>2, ServerControlAssumption
    DEF Inv, Types, CallHolds, CallKnows, LockingSteps
  <1>. QED
    BY <1>2, <1>3, CallMoves DEF Ask, disk, Inv, Types

\* Trying the lock, removing a stale record and giving the lock back.
LEMMA ProbeInv ==
  ASSUME Inv, NEW c \in Calls, TryLock(c) \/ RemoveStale(c) \/ GiveBack(c)
  PROVE  Inv'
  <1>1. /\ Types /\ CallHolds(c) /\ CallKnows(c) /\ c # None /\ call[c] \in CallType
        /\ call[c].dir \in Dirs /\ \A p \in Pids : ServerHolds(p)
    BY ServerControlAssumption
    DEF Inv, Types, CallHolds, TryLock, RemoveStale, GiveBack
  <1> DEFINE d == call[c].dir
  <1>2. /\ lock' \in [Dirs -> Pids \cup Calls \cup {None}]
        /\ \A e \in Dirs : lock[e] \notin {None, c} => lock'[e] = lock[e]
        /\ record' \in [Dirs -> Pids \cup {None}]
        /\ \A e \in Dirs : record'[e] = record[e] \/ (record'[e] = None /\ lock[e] = c)
        /\ srv' = srv /\ dblock' = dblock
    BY <1>1 DEF TryLock, RemoveStale, GiveBack, Types, CallHolds, LockingSteps
  <1>3. PICK pc \in CallSteps :
          /\ call' = [call EXCEPT ![c].pc = pc, ![c].seen = None]
          /\ \/ call[c].pc = "probe" /\ pc = "remove" /\ lock[d] = None /\ lock'[d] = c
             \/ call[c].pc = "probe" /\ pc = "read"
             \/ call[c].pc = "remove" /\ pc = "unlock" /\ lock' = lock
             \/ call[c].pc = "unlock" /\ pc = "free"
    BY <1>1 DEF TryLock, RemoveStale, GiveBack, Update, CallSteps, LockingSteps, Types
  <1>4. /\ call' \in [Calls -> CallType]
        /\ \A k \in Calls : k # c => call'[k] = call[k]
        /\ call'[c] = [call[c] EXCEPT !.pc = pc, !.seen = None]
    BY <1>1, <1>3 DEF Types, CallType
  <1>5. /\ call'[c].pc = pc /\ call'[c].seen = None /\ call'[c].dir = d
        /\ call'[c].op = call[c].op /\ call'[c].stage = call[c].stage
        /\ call'[c].pid = call[c].pid
    BY <1>1, <1>4 DEF CallType
  <1>6. CallHolds(c)'
    BY <1>1, <1>3, <1>5 DEF CallHolds, LockingSteps
  <1>7. CallKnows(c)'
    <2>1. ASSUME pc \in LockingSteps \cup {"free", "stopped"}, call[c].op = "stop",
                 call[c].stage # "first"
          PROVE  srv[call[c].pid].pc \in {"release", "none"}
      <3>1. call[c].pid \in Pids /\ Known(call[c].pid, d)
        BY <1>1, <2>1 DEF CallKnows
      <3>2. CASE call[c].pc = "probe"
        <4>1. lock[d] = None
          BY <1>3, <2>1, <3>2 DEF LockingSteps
        <4>2. srv[call[c].pid].pc \notin Controlling
          BY <1>1, <3>1, <4>1, ServerControlAssumption
          DEF ServerHolds, Known, Controlling
        <4>3. srv[call[c].pid].pc \in ServerSteps
          BY <1>1, <3>1 DEF Types, ProcessType
        <4>. QED
          BY <3>1, <4>2, <4>3 DEF Known, Early, ServerSteps, Running, Controlling
      <3>3. CASE call[c].pc # "probe"
        BY <1>1, <1>3, <2>1, <3>3 DEF CallKnows, LockingSteps
      <3>. QED
        BY <3>2, <3>3
    <2>. QED
      BY <1>1, <1>2, <1>3, <1>5, <2>1, ServerControlAssumption
      DEF CallKnows, Known, LockingSteps
  <1>. QED
    BY <1>2, <1>4, <1>6, <1>7, CallMoves

\* The steps of a command that hold no lock and start no process.
LEMMA QuietCallInv ==
  ASSUME Inv, NEW c \in Calls,
         \/ ReadPid(c) \/ StartRefused(c) \/ Started(c) \/ StopRefused(c)
         \/ Signal(c) \/ Stopped(c) \/ NotStopped(c) \/ Reported(c)
         \/ NotStarted(c) /\ UNCHANGED <<disk, srv>>
  PROVE  Inv'
  <1>1. /\ Types /\ CallHolds(c) /\ CallKnows(c) /\ c # None /\ call[c] \in CallType
        /\ UNCHANGED <<dblock, lock, record, srv>>
    BY ServerControlAssumption
    DEF Inv, Types, ReadPid, StartRefused, Started, StopRefused, Signal, Stopped,
        NotStopped, Reported, disk
  <1>2. ASSUME call' \in [Calls -> CallType], \A k \in Calls : k # c => call'[k] = call[k],
               CallHolds(c)', CallKnows(c)'
        PROVE  Inv'
    BY <1>1, <1>2, CallMoves DEF Types
  <1>3. CASE Return(c)
    <2>1. call' = [call EXCEPT ![c] = NoCall] /\ NoCall \in CallType
      BY <1>3, IdleTyped DEF Return
    <2>2. call'[c] = NoCall /\ call' \in [Calls -> CallType]
          /\ \A k \in Calls : k # c => call'[k] = call[k]
      BY <1>1, <2>1 DEF Types
    <2>3. CallHolds(c)' /\ CallKnows(c)'
      BY <2>2, ServerControlAssumption DEF CallHolds, CallKnows, NoCall, LockingSteps
    <2>. QED
      BY <1>2, <2>2, <2>3
  <1>4. ASSUME NEW pc \in {"started", "stopped", "probe"}, Update(c, pc),
               pc = "started" => call[c].pid \in Pids /\ srv[call[c].pid].pc \notin Early,
               pc = "stopped" => call[c].pc = "free" /\ call[c].op = "stop"
                                   /\ call[c].stage # "first",
               call[c].dir \in Dirs
        PROVE  Inv'
    <2>1. /\ call' \in [Calls -> CallType]
          /\ \A k \in Calls : k # c => call'[k] = call[k]
          /\ call'[c] = [call[c] EXCEPT !.pc = pc, !.seen = None]
      BY <1>1, <1>4 DEF Types, CallType, CallSteps, Update
    <2>2. /\ call'[c].pc = pc /\ call'[c].seen = None /\ call'[c].dir = call[c].dir
          /\ call'[c].op = call[c].op /\ call'[c].stage = call[c].stage
          /\ call'[c].pid = call[c].pid
      BY <1>1, <2>1 DEF CallType
    <2>3. CallHolds(c)'
      BY <1>4, <2>2 DEF CallHolds, LockingSteps
    <2>4. CallKnows(c)'
      BY <1>1, <1>4, <2>2, ServerControlAssumption DEF CallKnows, Known, LockingSteps
    <2>. QED
      BY <1>2, <2>1, <2>3, <2>4
  <1>5. CASE ReadPid(c)
    <2>1. call'[c] = [call[c] EXCEPT !.pc = "taken", !.seen = record[call[c].dir]]
          /\ call[c].dir \in Dirs /\ record[call[c].dir] \in Pids \cup {None}
          /\ RecordKnown(call[c].dir) /\ call[c].pc = "read"
      BY <1>1, <1>5 DEF ReadPid, Inv, Types, CallHolds
    <2>2. call' \in [Calls -> CallType] /\ \A k \in Calls : k # c => call'[k] = call[k]
      BY <1>1, <1>5, <2>1 DEF ReadPid, Types, CallType, CallSteps
    <2>3. /\ call'[c].pc = "taken" /\ call'[c].seen = record[call[c].dir]
          /\ call'[c].dir = call[c].dir
          /\ call'[c].op = call[c].op /\ call'[c].stage = call[c].stage
          /\ call'[c].pid = call[c].pid
      BY <1>1, <2>1 DEF CallType
    <2>4. CallHolds(c)' /\ CallKnows(c)'
      BY <1>1, <2>1, <2>3 DEF CallHolds, CallKnows, Known, RecordKnown, LockingSteps
    <2>. QED
      BY <1>2, <2>2, <2>4
  <1>6. CASE Signal(c)
    <2>1. /\ call'[c] = [call[c] EXCEPT !.pid = call[c].seen, !.seen = None, !.pc = "probe",
                           !.stage = IF srv[call[c].seen] = NoProcess THEN "failed" ELSE "poll"]
          /\ call[c].seen \in Pids /\ call[c].pc = "taken" /\ call[c].op = "stop"
      BY <1>1, <1>6 DEF Signal, At, Types, CallType
    <2>2. call' \in [Calls -> CallType] /\ \A k \in Calls : k # c => call'[k] = call[k]
      BY <1>1, <1>6, <2>1 DEF Signal, Types, CallType, CallSteps
    <2>3. /\ call'[c].pc = "probe" /\ call'[c].seen = None
          /\ call'[c].dir = call[c].dir /\ call'[c].op = call[c].op
          /\ call'[c].pid = call[c].seen
      BY <1>1, <2>1 DEF CallType
    <2>4. CallHolds(c)' /\ CallKnows(c)'
      BY <1>1, <2>1, <2>3, ServerControlAssumption
      DEF CallHolds, CallKnows, Known, LockingSteps
    <2>. QED
      BY <1>2, <2>2, <2>4
  <1>7. CASE Started(c)
    <2>1. /\ call[c].pid \in Pids /\ srv[call[c].pid].pc \notin Early
          /\ call[c].dir \in Dirs /\ Update(c, "started")
      BY <1>1, <1>7 DEF Started, At, IsChild, CallKnows, CallHolds, Known
    <2>. QED
      BY <1>4, <2>1
  <1>8. CASE Stopped(c)
    BY <1>1, <1>4, <1>8 DEF Stopped, At, CallHolds
  <1>9. CASE (NotStarted(c) /\ UNCHANGED <<disk, srv>> /\ Update(c, "probe")) \/ NotStopped(c)
    BY <1>1, <1>3, <1>4, <1>9 DEF NotStarted, NotStopped, At, CallHolds
  <1>10. CASE NotStarted(c) /\ ~Update(c, "probe")
    BY <1>3, <1>10 DEF NotStarted
  <1>. QED
    BY <1>3, <1>5, <1>6, <1>7, <1>8, <1>9, <1>10 DEF StartRefused, StopRefused, Reported

LEMMA SpawnInv ==
  ASSUME Inv, NEW c \in Calls, Spawn(c)
  PROVE  Inv'
  <1>1. /\ Types /\ CallHolds(c) /\ CallKnows(c) /\ call[c] \in CallType
        /\ call[c].pc = "free" /\ call[c].op = "start" /\ call[c].dir \in Dirs
        /\ call[c].stage = "first" /\ UNCHANGED disk
    BY DEF Inv, Types, Spawn, At, CallHolds
  <1>2. PICK p \in Pids, b \in ExecutionPaths(call[c].dir) :
          /\ FreshPid(p) /\ Launched(p, call[c].dir, b)
          /\ call' = [call EXCEPT ![c].pid = p, ![c].stage = "poll", ![c].pc = "probe"]
    BY DEF Spawn
  <1>3. /\ \A q \in Pids : ServerHolds(q)'
        /\ \A e \in Dirs : RecordKnown(e)'
        /\ srv' \in [Pids -> ProcessType]
        /\ \A q \in Pids : q # p => srv'[q] = srv[q]
    BY <1>1, <1>2, LaunchInv
  <1>4. /\ call' \in [Calls -> CallType] /\ \A k \in Calls : k # c => call'[k] = call[k]
        /\ call'[c] = [call[c] EXCEPT !.pid = p, !.stage = "poll", !.pc = "probe"]
    BY <1>1, <1>2 DEF Types, CallType, CallSteps
  <1>5. /\ call'[c].pc = "probe" /\ call'[c].seen = call[c].seen /\ call'[c].dir = call[c].dir
        /\ call'[c].op = "start" /\ call'[c].pid = p
    BY <1>1, <1>4 DEF CallType
  <1>6. ASSUME NEW k \in Calls PROVE CallHolds(k)' /\ CallKnows(k)'
    <2>1. CASE k = c
      <3>1. call[c].seen # p
        BY <1>2 DEF FreshPid
      <3>. QED
        BY <1>1, <1>3, <1>5, <2>1, <3>1 DEF CallHolds, CallKnows, Known, LockingSteps
    <2>2. CASE k # c
      BY <1>1, <1>2, <1>3, <1>4, <1>6, <2>2, FreshKept DEF Inv, CallHolds, disk
    <2>. QED
      BY <2>1, <2>2
  <1>. QED
    BY <1>1, <1>3, <1>4, <1>6 DEF Inv, Types, disk

\* The child is killed when the time is up.
LEMMA GiveUpInv ==
  ASSUME Inv, NEW c \in Calls, NotStarted(c), Killed(call[c].pid), Return(c)
  PROVE  Inv'
  <1>1. /\ call[c].pid \in Pids /\ call[c].pid \notin Calls /\ Types
    BY ServerControlAssumption DEF Inv, NotStarted, At, CallKnows
  <1>2. /\ call' \in [Calls -> CallType] /\ call'[c] = NoCall
        /\ \A k \in Calls : k # c => call'[k] = call[k]
    BY <1>1, IdleTyped DEF Return, Types
  <1>3. ASSUME NEW k \in Calls PROVE CallHolds(k)' /\ CallKnows(k)'
    <2>1. CASE k = c
      BY <1>2, <2>1, ServerControlAssumption DEF CallHolds, CallKnows, NoCall, LockingSteps
    <2>2. CASE k # c
      <3>1. \A q \in Pids : Onward(q)
        BY <1>1, KilledHolds
      <3>2. CallKnows(k)'
        BY <1>2, <1>3, <2>2, <3>1 DEF Inv, CallKnows, Known, Onward
      <3>3. CallHolds(k)'
        BY <1>1, <1>2, <1>3, <2>2, KilledHolds DEF Inv, CallHolds, LockingSteps
      <3>. QED
        BY <3>2, <3>3
    <2>. QED
      BY <2>1, <2>2
  <1>. QED
    BY <1>1, <1>2, <1>3, KilledHolds DEF Inv, Types

LEMMA InterruptedInv ==
  ASSUME Inv, NEW c \in Calls, Interrupted(c)
  PROVE  Inv'
  <1>1. Types /\ c # None
    BY ServerControlAssumption DEF Inv
  <1>2. /\ call' \in [Calls -> CallType] /\ call'[c] = NoCall
        /\ \A k \in Calls : k # c => call'[k] = call[k]
    BY <1>1, IdleTyped DEF Interrupted, Return, Types
  <1>3. /\ lock' \in [Dirs -> Pids \cup Calls \cup {None}]
        /\ \A d \in Dirs : lock[d] \notin {None, c} => lock'[d] = lock[d]
    BY <1>1 DEF Interrupted, Without, Types
  <1>4. CallHolds(c)' /\ CallKnows(c)'
    BY <1>2, ServerControlAssumption DEF CallHolds, CallKnows, NoCall, LockingSteps
  <1>. QED
    BY <1>1, <1>2, <1>3, <1>4, CallMoves DEF Interrupted, Types

LEMMA NextInv ==
  ASSUME Inv, [Next]_vars
  PROVE  Inv'
  <1>1. ASSUME NEW c \in Calls, CallStep(c) PROVE Inv'
    BY <1>1, ProbeInv, QuietCallInv, SpawnInv, GiveUpInv DEF CallStep, NotStarted
  <1>2. CASE UNCHANGED vars
    BY <1>2
    DEF vars, Inv, Types, ServerHolds, CallHolds, CallKnows, RecordKnown, Known
  <1>. QED
    BY <1>1, <1>2, ServerStepInv, CrashInv, ForegroundInv, AskInv, InterruptedInv DEF Next

LEMMA Invariance == Spec => []Inv
  BY InitInv, NextInv, PTL DEF Spec

-----------------------------------------------------------------------------

\* Whatever probes, starts, stops and kills come between, a server that serves is
\* the one in its directory's record, so `opensbx stop` reaches it (Acquire, Publish,
\* Close and Running, processctl/server.go:28-130): whoever removes a record holds
\* the directory's lock, and so does a server from before it publishes.
THEOREM ServingIsRecordedEver == Spec => []ServingIsRecorded
  <1>1. Inv => ServingIsRecorded
    BY DEF Inv, ServerHolds, ServingIsRecorded, Server
  <1>. QED
    BY <1>1, Invariance, PTL

\* A command reports only what is so: "started" of a process that has published
\* its record (cmd/api/cli.go:107-126), "stopped" of one that has let go of the
\* directory (Stop, processctl/server.go:133-164).  The number that a command has
\* read stays that of a recorded process of its directory, or of none.
THEOREM ReportsAreTrueEver == Spec => []ReportsAreTrue
  <1>1. Inv => ReportsAreTrue
    BY DEF Inv, CallKnows, ReportsAreTrue, Early, LockingSteps
  <1>. QED
    BY <1>1, Invariance, PTL

\* One server per data directory and per database: two processes never have the
\* same directory between Acquire and the unlock of Close, nor the same database
\* from its lock to the end of the process.
OneServer ==
  \A p, q \in Pids : p # q =>
    /\ {srv[p].pc, srv[q].pc} \subseteq Controlling => srv[p].dir # srv[q].dir
    /\ {srv[p].pc, srv[q].pc} \subseteq Running => srv[p].db # srv[q].db

\* It follows from the locks alone, with any number of processes that are started,
\* killed and probed at the same time (processctl/server.go:28-99, cmd/api/main.go:78-95).
THEOREM OneServerEver == Spec => []OneServer
  <1>1. Inv => OneServer
    BY DEF Inv, ServerHolds, OneServer
  <1>. QED
    BY <1>1, Invariance, PTL
=============================================================================
