-------------------------- MODULE RouteAdmissionProofs -------------------------
(***************************************************************************)
(* Proofs about routing, for any owners of the name, any public IDs among  *)
(* them and any number of requests: a shared snapshot that was taken of a  *)
(* later owner never passes the second admission check of a request for an *)
(* earlier one, because an owner that lost the name never has it again.    *)
(***************************************************************************)
EXTENDS RouteAdmission, TLAPS

Steps == {"row", "inspect", "return"}

Flights == [key : Owners, o : Owners, step : Steps, port : Ports \cup {None}]

Snapshots == [of : Owners, port : Ports \cup {None}]

Pcs == {"idle", "join", "wait", "recheck", "proxy"}

Requests == [pc : Pcs, row : Owners \cup {None}, res : Snapshots \cup {None}]

Kinds ==
  /\ row \in Owners \cup {None} /\ work \subseteq used
  /\ row # None => row \in used
  /\ port \in [Owners -> Ports \cup {None}]
  /\ flights \subseteq Flights
  /\ call \in [Callers -> Requests]

\* Owner o has had the name: it has it now, or it is gone for good.
Had(o) == o \in used /\ (row = o \/ o \notin work)

Gone(o) == Had(o) /\ row # o

\* A shared read is for an owner that had the name; where it went on with another
\* one, which then had the name, its own is gone.
Reads ==
  \A f \in flights : Had(f.key) /\ (f.o # f.key => Gone(f.key))

\* A request is for an owner it was admitted for, and holds a snapshot of that
\* one, unless it is gone.
Asks ==
  \A c \in Callers :
    /\ call[c].pc \in {"join", "wait", "recheck", "proxy"} => call[c].row \in Owners /\ Had(call[c].row)
    /\ call[c].pc = "recheck" => call[c].res.of = call[c].row \/ Gone(call[c].row)

Inv == Kinds /\ Reads /\ Asks

-----------------------------------------------------------------------------
(* The sandbox lifecycle.                                                  *)

\* No step brings an owner back that lost the name.
LEMMA Lasting ==
  ASSUME Kinds, [Next]_vars, NEW o \in Owners
  PROVE  (Had(o) => Had(o)') /\ (Gone(o) => Gone(o)')
  <1>1. CASE UNCHANGED world
    BY <1>1 DEF world, Had, Gone
  <1>2. CASE Lifecycle
    BY <1>2, RouteAssumption DEF Lifecycle, World, Create, CommitCreation, BeginOperation, Native,
       CompleteOperation, DeleteOperation, Had, Gone
  <1>. QED
    BY <1>1, <1>2 DEF Next, vars, Request, Ask, Join, Cancel, Recheck, Proxied, FindRow, Inspect,
       Return, TimesOut

LEMMA LifecycleInv ==
  ASSUME Inv, Lifecycle
  PROVE  Inv'
  <1>1. UNCHANGED <<flights, call>> /\ [Next]_vars
    BY DEF Lifecycle, World, Create, CommitCreation, BeginOperation, Native, CompleteOperation,
       DeleteOperation, Next
  <1>2. Kinds'
    <2>1. row' \in Owners \cup {None} /\ work' \subseteq used' /\ (row' # None => row' \in used')
      BY RouteAssumption DEF Inv, Kinds, Lifecycle, World, Create, CommitCreation, BeginOperation, Native,
         CompleteOperation, DeleteOperation
    <2>2. port' \in [Owners -> Ports \cup {None}]
      BY DEF Inv, Kinds, Lifecycle, World, Create, CommitCreation, BeginOperation, Native,
         CompleteOperation, DeleteOperation
    <2>. QED
      BY <1>1, <2>1, <2>2 DEF Inv, Kinds
  <1>3. Reads'
    BY <1>1, Lasting DEF Inv, Kinds, Reads, Flights
  <1>4. Asks'
    BY <1>1, Lasting DEF Inv, Asks
  <1>. QED
    BY <1>2, <1>3, <1>4 DEF Inv

-----------------------------------------------------------------------------
(* Requests and the reads they share: the world stands still.              *)

LEMMA Still ==
  ASSUME UNCHANGED world
  PROVE  \A o : (Had(o)' <=> Had(o)) /\ (Gone(o)' <=> Gone(o))
  BY DEF world, Had, Gone

\* What is true of one request.
Asking(q) ==
  /\ q.pc \in {"join", "wait", "recheck", "proxy"} => q.row \in Owners /\ Had(q.row)
  /\ q.pc = "recheck" => q.res.of = q.row \/ Gone(q.row)

LEMMA NoCallAsks == NoCall \in Requests /\ Asking(NoCall)
  BY DEF NoCall, Requests, Pcs, Asking

\* One request goes on.
LEMMA OneGoesOn ==
  ASSUME Inv, NEW c \in Callers, NEW q \in Requests, Become(c, q), Asking(q), UNCHANGED world,
         flights' \subseteq Flights, Reads'
  PROVE  Inv'
  <1>1. call' \in [Callers -> Requests] /\ call'[c] = q /\ \A d \in Callers \ {c} : call'[d] = call[d]
    BY DEF Become, Inv, Kinds
  <1>2. Kinds'
    BY <1>1 DEF Inv, Kinds, world
  <1>3. Asks'
    BY <1>1, Still DEF Inv, Asks, Asking
  <1>. QED
    BY <1>2, <1>3 DEF Inv

LEMMA RequestInv ==
  ASSUME Inv, NEW c \in Callers, Request(c)
  PROVE  Inv'
  <1>1. UNCHANGED world
    BY DEF Request, Ask, Join, Cancel, Recheck, Proxied
  <1>2. flights' = flights => flights' \subseteq Flights /\ Reads'
    BY <1>1, Still DEF Inv, Kinds, Reads
  <1>3. call[c] \in Requests
    BY DEF Inv, Kinds
  <1>4. ASSUME Fails(c), flights' = flights
        PROVE  Inv'
    BY <1>1, <1>2, <1>4, NoCallAsks, OneGoesOn DEF Fails
  <1>5. CASE Ask(c)
    <2>1. PICK o \in Owners : Admitted(o) /\ Become(c, [NoCall EXCEPT !.pc = "join", !.row = o])
      BY <1>5 DEF Ask
    <2>. DEFINE q == [NoCall EXCEPT !.pc = "join", !.row = o]
    <2>2. q \in Requests /\ q.pc = "join" /\ q.row = o
      BY DEF NoCall, Requests, Pcs
    <2>3. Had(o)
      BY <2>1, RouteAssumption DEF Admitted, Had, Inv, Kinds
    <2>. HIDE DEF q
    <2>4. Asking(q)
      BY <2>2, <2>3 DEF Asking
    <2>. QED
      BY <1>1, <1>2, <1>5, <2>1, <2>2, <2>4, OneGoesOn DEF Ask, q
  <1>6. CASE Join(c)
    <2>. DEFINE f == [key |-> call[c].row, o |-> call[c].row, step |-> "row", port |-> None]
                q == [call[c] EXCEPT !.pc = "wait"]
    <2>1. flights' = flights \/ flights' = flights \cup {f}
      BY <1>6 DEF Join, Key
    <2>2. call[c].row \in Owners /\ Had(call[c].row)
      BY <1>6 DEF Join, Inv, Asks
    <2>3. f \in Flights /\ f.key = call[c].row /\ f.o = f.key
      BY <2>2 DEF Flights, Steps
    <2>4. q \in Requests /\ q.pc = "wait" /\ q.row = call[c].row
      BY <1>3 DEF Requests, Pcs
    <2>5. Become(c, q)
      BY <1>6 DEF Join
    <2>. HIDE DEF f, q
    <2>6. flights' \subseteq Flights /\ Reads'
      BY <1>1, <1>2, <2>1, <2>2, <2>3, Still DEF Inv, Kinds, Reads
    <2>7. Asking(q)
      BY <2>2, <2>4 DEF Asking
    <2>. QED
      BY <1>1, <2>4, <2>5, <2>6, <2>7, OneGoesOn
  <1>7. CASE Recheck(c)
    <2>. DEFINE q == [call[c] EXCEPT !.pc = "proxy"]
    <2>1. Fails(c) \/ Become(c, q)
      BY <1>7 DEF Recheck
    <2>2. q \in Requests /\ q.pc = "proxy" /\ q.row = call[c].row
      BY <1>3 DEF Requests, Pcs
    <2>3. call[c].row \in Owners /\ Had(call[c].row)
      BY <1>7 DEF Recheck, Inv, Asks
    <2>. HIDE DEF q
    <2>4. Asking(q)
      BY <2>2, <2>3 DEF Asking
    <2>. QED
      BY <1>1, <1>2, <1>4, <1>7, <2>1, <2>2, <2>4, OneGoesOn DEF Recheck
  <1>. QED
    BY <1>4, <1>5, <1>6, <1>7 DEF Request, Cancel, Proxied, Fails

\* A read that ends answers who waits for its key, and only them.
LEMMA DeliverInv ==
  ASSUME Inv, NEW f \in flights, NEW res \in Snapshots \cup {None}, Deliver(f, res), UNCHANGED world,
         res # None => res.of = f.o
  PROVE  Inv'
  <1>1. flights' \subseteq flights
    BY DEF Deliver
  <1>2. f.key \in Owners /\ Had(f.key) /\ (f.o # f.key => Gone(f.key))
    BY DEF Inv, Kinds, Reads, Flights
  <1>3. ASSUME NEW c \in Callers
        PROVE  call'[c] \in Requests /\ Asking(call'[c])
    <2>. DEFINE q == [call[c] EXCEPT !.pc = "recheck", !.res = res]
    <2>1. call[c] \in Requests /\ Asking(call[c])
      BY DEF Inv, Kinds, Asks, Asking
    <2>2. /\ DOMAIN call' = Callers
          /\ \/ call'[c] = call[c]
             \/ call'[c] = NoCall
             \/ call[c].pc = "wait" /\ call[c].row = f.key /\ res # None /\ call'[c] = q
      BY DEF Deliver, Key
    <2>3. q \in Requests /\ q.pc = "recheck" /\ q.row = call[c].row /\ q.res = res
      BY <2>1 DEF Requests, Pcs
    <2>. HIDE DEF q
    <2>4. ASSUME res # None, call[c].row = f.key
          PROVE  Asking(q)
      BY <1>2, <2>3, <2>4 DEF Asking
    <2>. QED
      BY <2>1, <2>2, <2>3, <2>4, NoCallAsks
  <1>4. call' \in [Callers -> Requests]
    BY <1>3 DEF Deliver
  <1>5. Kinds'
    BY <1>1, <1>4 DEF Inv, Kinds, world
  <1>6. Reads'
    BY <1>1, Still DEF Inv, Reads
  <1>7. Asks'
    BY <1>3, Still DEF Asks, Asking
  <1>. QED
    BY <1>5, <1>6, <1>7 DEF Inv

\* A read goes on, of its own owner or of who has the name after it.
LEMMA MoveInv ==
  ASSUME Inv, NEW f \in flights, NEW g \in Flights, Move(f, g), UNCHANGED <<world, call>>,
         g.key = f.key, g.o # g.key => Gone(g.key)
  PROVE  Inv'
  <1>1. Kinds'
    BY DEF Inv, Kinds, Move, world
  <1>2. Reads'
    BY Still DEF Inv, Reads, Move
  <1>3. Asks'
    BY Still DEF Inv, Asks
  <1>. QED
    BY <1>1, <1>2, <1>3 DEF Inv

LEMMA ReadInv ==
  ASSUME Inv, NEW f \in flights, FindRow(f) \/ Inspect(f) \/ Return(f) \/ TimesOut(f)
  PROVE  Inv'
  <1>1. f \in Flights /\ Had(f.key) /\ (f.o # f.key => Gone(f.key)) /\ UNCHANGED world
    BY DEF Inv, Kinds, Reads, FindRow, Inspect, Return, TimesOut
  <1>2. CASE Deliver(f, None)
    BY <1>1, <1>2, DeliverInv
  <1>3. CASE Return(f)
    <2>. DEFINE res == [of |-> f.o, port |-> f.port]
    <2>1. res \in Snapshots /\ res.of = f.o
      BY <1>1 DEF Flights, Snapshots
    <2>2. Deliver(f, res)
      BY <1>3 DEF Return
    <2>. HIDE DEF res
    <2>. QED
      BY <1>1, <2>1, <2>2, DeliverInv
  <1>4. CASE FindRow(f) /\ ~Deliver(f, None)
    <2>. DEFINE g == [f EXCEPT !.step = "inspect", !.o = row]
    <2>1. Move(f, g) /\ UNCHANGED call /\ row # None
      BY <1>4 DEF FindRow
    <2>2. g \in Flights /\ g.key = f.key /\ g.o = row
      BY <1>1, <2>1 DEF Flights, Steps, Inv, Kinds
    <2>. HIDE DEF g
    <2>. QED
      BY <1>1, <2>1, <2>2, MoveInv DEF Gone
  <1>5. CASE Inspect(f) /\ ~Deliver(f, None)
    <2>. DEFINE g == [f EXCEPT !.step = "return", !.port = port[f.o]]
    <2>1. Move(f, g) /\ UNCHANGED call
      BY <1>5 DEF Inspect
    <2>2. g \in Flights /\ g.key = f.key /\ g.o = f.o
      BY <1>1 DEF Flights, Steps, Inv, Kinds
    <2>. HIDE DEF g
    <2>. QED
      BY <1>1, <2>1, <2>2, MoveInv
  <1>. QED
    BY <1>2, <1>3, <1>4, <1>5 DEF TimesOut

-----------------------------------------------------------------------------
(* Theorems.                                                               *)

LEMMA InitInv == Init => Inv
  BY NoCallAsks DEF Init, Inv, Kinds, Reads, Asks, Asking

LEMMA NextInv == Inv /\ [Next]_vars => Inv'
  <1>1. SUFFICES ASSUME Inv, [Next]_vars PROVE Inv'
    OBVIOUS
  <1>2. CASE UNCHANGED vars
    BY <1>1, <1>2 DEF vars, world, Inv, Kinds, Reads, Asks, Had, Gone
  <1>. QED
    BY <1>1, <1>2, LifecycleInv, RequestInv, ReadInv DEF Next

\* A request is only ever proxied for the sandbox that has the name then, with no
\* work pending and in time, to a port that was read from that sandbox's own
\* container: service.Route shares snapshots by the whole identity of a row and
\* looks at the row again after them.
THEOREM RouteIsAdmittedEver == Spec => RouteIsAdmitted
  <1>1. Init => Inv
    BY InitInv
  <1>2. Inv /\ [Next]_vars => Inv'
    BY NextInv
  <1>3. Inv /\ [Next]_vars =>
          [\A c \in Callers :
             call[c].pc = "recheck" /\ call'[c].pc = "proxy"
               => Admitted(call[c].row) /\ call[c].res.of = row]_vars
    <2>1. SUFFICES ASSUME Inv, [Next]_vars, NEW c \in Callers,
                          call[c].pc = "recheck", call'[c].pc = "proxy"
                   PROVE  Admitted(call[c].row) /\ call[c].res.of = row
      OBVIOUS
    <2>2. call[c] \in Requests /\ call'[c] # call[c]
      BY <2>1 DEF Inv, Kinds
    <2>3. NoCall.pc = "idle" /\ \A q \in Requests : [q EXCEPT !.pc = "wait"].pc = "wait"
      BY DEF NoCall, Requests
    <2>4. Recheck(c)
      <3>1. ASSUME NEW f \in flights, NEW res, Deliver(f, res)
            PROVE  FALSE
        BY <2>1, <2>2, <2>3, <3>1 DEF Deliver
      <3>2. ASSUME NEW d \in Callers, Request(d), d # c
            PROVE  FALSE
        <4>1. \E q : Become(d, q)
          BY <3>2 DEF Request, Ask, Join, Cancel, Recheck, Proxied, Fails
        <4>2. DOMAIN call = Callers
          BY <2>1 DEF Inv, Kinds
        <4>. QED
          BY <2>2, <3>2, <4>1, <4>2 DEF Become
      <3>3. ~Lifecycle /\ ~UNCHANGED vars
        BY <2>2 DEF Lifecycle, World, Create, CommitCreation, BeginOperation, Native, CompleteOperation,
           DeleteOperation, vars
      <3>4. ~\E f \in flights : FindRow(f) \/ Inspect(f) \/ Return(f) \/ TimesOut(f)
        BY <2>2, <3>1 DEF FindRow, Inspect, Return, TimesOut
      <3>5. Request(c)
        BY <2>1, <3>2, <3>3, <3>4 DEF Next
      <3>. QED
        BY <2>1, <3>5 DEF Request, Ask, Join, Cancel, Proxied
    <2>5. Admitted(call[c].row)
      <3>1. Fails(c) => call'[c].pc = "idle"
        BY <2>1, <2>3 DEF Fails, Become, Inv, Kinds
      <3>. QED
        BY <2>1, <2>4, <3>1 DEF Recheck
    <2>. QED
      BY <2>1, <2>5 DEF Inv, Asks, Gone, Admitted
  <1>. QED
    BY <1>1, <1>2, <1>3, PTL DEF Spec, RouteIsAdmitted
=============================================================================
