----------------------------- MODULE RouteAdmission ----------------------------
(***************************************************************************)
(* Routing of a request to the host port of a sandbox: the live lookup of  *)
(* the proxy (internal/proxy, internal/service Route), its two admission   *)
(* checks against the database and the native snapshot between them, which *)
(* concurrent requests share.  Meanwhile the sandbox is stopped, restarted *)
(* and removed, and another one takes its name.  One name is modelled.     *)
(***************************************************************************)
EXTENDS FiniteSets

CONSTANTS
  Owners,         \* identities of a row: public ID, native ID, runtime, token
  PublicId,       \* the public ID of each
  Ports,          \* host ports
  Callers,        \* concurrent requests
  None

ASSUME RouteAssumption == None \notin Owners \cup Ports

VARIABLES
  row,            \* the owner whose row has the name
  used,           \* the owners there have been
  work,           \* the owners with a pending operation
  due,            \* the deadline of the row has passed
  port,           \* where each owner's container is published; None: not running
  flights,        \* the native reads under way, at most one by key
  call            \* each request

world == <<row, used, work, due, port>>
vars == <<world, flights, call>>

NoCall == [pc |-> "idle", row |-> None, res |-> None]

-----------------------------------------------------------------------------
(* The sandbox lifecycle, as far as a route can tell (Lifecycle has all).  *)

\* BeginCreate, and CommitCreation of the row beside its intent.
Create(o) ==
  /\ o \notin used /\ o \notin work
  /\ work' = work \cup {o} /\ used' = used \cup {o}
  /\ UNCHANGED <<row, due, port, flights, call>>

CommitCreation(o) ==
  /\ o \in work /\ row = None
  /\ row' = o /\ due' = FALSE
  /\ UNCHANGED <<used, work, port, flights, call>>

BeginOperation(o) ==
  /\ row = o /\ o \notin work
  /\ work' = work \cup {o}
  /\ UNCHANGED <<row, used, due, port, flights, call>>

\* What the operation does: the container stops, or starts at some free port.
Native(o) ==
  /\ o \in work
  /\ \E p \in {None} \cup (Ports \ {port[u] : u \in Owners}) : port' = [port EXCEPT ![o] = p]
  /\ UNCHANGED <<row, used, work, due, flights, call>>

CompleteOperation(o) ==
  /\ row = o /\ o \in work
  /\ work' = work \ {o} /\ due' = FALSE
  /\ UNCHANGED <<row, used, port, flights, call>>

\* Of a removal, or of a creation that failed.
DeleteOperation(o) ==
  /\ o \in work /\ port[o] = None
  /\ work' = work \ {o} /\ row' = IF row = o THEN None ELSE row
  /\ UNCHANGED <<used, due, port, flights, call>>

\* The container ends by itself; its deadline passes, or is renewed.
World ==
  /\ \/ \E o \in Owners : port' = [port EXCEPT ![o] = None] /\ UNCHANGED due
     \/ row # None /\ due' = ~due /\ UNCHANGED port
  /\ UNCHANGED <<row, used, work, flights, call>>

-----------------------------------------------------------------------------
(* Route.                                                                  *)

\* FindRoutingState: an operation belongs to a row by public or native ID.
Pending(o) == \E w \in work : PublicId[w] = PublicId[o]

\* routeOwner.
Admitted(o) == row = o /\ ~Pending(o) /\ ~due

Become(c, f) == call' = [call EXCEPT ![c] = f]
Fails(c) == Become(c, NoCall)

\* Ask for the row; what the database refuses is answered with an error.
Ask(c) ==
  /\ call[c].pc = "idle"
  /\ \E o \in Owners : Admitted(o) /\ Become(c, [NoCall EXCEPT !.pc = "join", !.row = o])
  /\ UNCHANGED <<world, flights>>

\* Defect: the public ID alone.
KeyById(o) == PublicId[o]

\* The key of the shared read: public ID, native ID, runtime and token.
Key(o) == o

\* DoChan: join the read under way, or start one.
Join(c) ==
  /\ call[c].pc = "join"
  /\ flights' = IF \E f \in flights : f.key = Key(call[c].row) THEN flights
                ELSE flights \cup {[key |-> Key(call[c].row), o |-> call[c].row, step |-> "row", port |-> None]}
  /\ Become(c, [call[c] EXCEPT !.pc = "wait"])
  /\ UNCHANGED world

\* The request's context ends; the read goes on without it.
Cancel(c) ==
  /\ call[c].pc = "wait"
  /\ Fails(c)
  /\ UNCHANGED <<world, flights>>

Move(f, g) == flights' = (flights \ {f}) \cup {g}

\* The result goes to whoever waits for the key, and is forgotten.
Deliver(f, res) ==
  /\ flights' = flights \ {f}
  /\ call' = [c \in Callers |->
       IF call[c].pc # "wait" \/ Key(call[c].row) # f.key THEN call[c]
       ELSE IF res = None THEN NoCall
       ELSE [call[c] EXCEPT !.pc = "recheck", !.res = res]]

\* Adapter.native: the row by its public ID, whoever has it now.
FindRow(f) ==
  /\ f \in flights /\ f.step = "row"
  /\ IF row # None /\ PublicId[row] = PublicId[f.o]
     THEN Move(f, [f EXCEPT !.step = "inspect", !.o = row]) /\ UNCHANGED call
     ELSE Deliver(f, None)
  /\ UNCHANGED world

\* Engine.Routing: the row once more, and one inspection of its container.
Inspect(f) ==
  /\ f \in flights /\ f.step = "inspect"
  /\ IF row = f.o THEN Move(f, [f EXCEPT !.step = "return", !.port = port[f.o]]) /\ UNCHANGED call
                  ELSE Deliver(f, None)
  /\ UNCHANGED world

Return(f) ==
  /\ f \in flights /\ f.step = "return"
  /\ Deliver(f, [of |-> f.o, port |-> f.port])
  /\ UNCHANGED world

\* Defect: the read waits for as long as the native runtime likes.
NeverTimesOut(f) == FALSE /\ FindRow(f)

\* The native runtime fails, or ten seconds have passed.
TimesOut(f) ==
  /\ f \in flights
  /\ Deliver(f, None)
  /\ UNCHANGED world

\* Defect: the snapshot alone decides.
NotRechecked(c) ==
  /\ call[c].pc = "recheck"
  /\ IF call[c].res.port # None THEN Become(c, [call[c] EXCEPT !.pc = "proxy"]) ELSE Fails(c)
  /\ UNCHANGED <<world, flights>>

\* The same row, without work and in time; then what the snapshot said.
Recheck(c) ==
  /\ call[c].pc = "recheck"
  /\ IF Admitted(call[c].row) /\ call[c].res.port # None
     THEN Become(c, [call[c] EXCEPT !.pc = "proxy"]) ELSE Fails(c)
  /\ UNCHANGED <<world, flights>>

\* The request is proxied to the port.
Proxied(c) ==
  /\ call[c].pc = "proxy"
  /\ Become(c, NoCall)
  /\ UNCHANGED <<world, flights>>

-----------------------------------------------------------------------------

Init ==
  /\ row = None /\ used = {} /\ work = {} /\ due = FALSE
  /\ port = [o \in Owners |-> None]
  /\ flights = {}
  /\ call = [c \in Callers |-> NoCall]

Lifecycle ==
  \/ World
  \/ \E o \in Owners :
       \/ Create(o) \/ CommitCreation(o) \/ BeginOperation(o) \/ Native(o)
       \/ CompleteOperation(o) \/ DeleteOperation(o)

Request(c) == Ask(c) \/ Join(c) \/ Cancel(c) \/ Recheck(c) \/ Proxied(c)

Next ==
  \/ Lifecycle
  \/ \E c \in Callers : Request(c)
  \/ \E f \in flights : FindRow(f) \/ Inspect(f) \/ Return(f) \/ TimesOut(f)

Spec == Init /\ [][Next]_vars

\* The timer of each shared read fires; the native runtime may never answer.
Fairness == \A k \in {Key(o) : o \in Owners} : WF_vars(\E f \in flights : f.key = k /\ TimesOut(f))

FairSpec == Spec /\ Fairness

-----------------------------------------------------------------------------
(* Properties.                                                             *)

\* A request is only ever proxied for the sandbox that has the name then, with
\* no work pending on it and in time, and to a port that was read from that very
\* sandbox's container: a shared read is never that of an earlier owner.
RouteIsAdmitted ==
  [][\A c \in Callers :
       call[c].pc = "recheck" /\ call'[c].pc = "proxy"
         => Admitted(call[c].row) /\ call[c].res.of = row]_vars

\* Whoever shares a read is answered, also when the native runtime hangs and
\* when the request that started the read is gone.
WaitersAnswered == \A c \in Callers : (call[c].pc = "wait") ~> (call[c].pc # "wait")
=============================================================================
