------------------------------- MODULE LogRing -------------------------------
(***************************************************************************)
(* The ring buffer behind the output of a command                          *)
(* (internal/docker/ringbuffer.go), the goroutine that copies the output   *)
(* into it and closes it (commands.go), and the readers that follow it for *)
(* the streaming log handler (internal/api/handler.go).  The buffer's      *)
(* mutex makes every method an action, except that Read gives it up in     *)
(* cond.Wait.  The i-th byte of the output is written i; 0 is a byte that  *)
(* was never written.  A reader attached late is one whose first Read      *)
(* comes late.                                                             *)
(***************************************************************************)
EXTENDS Integers, Sequences

CONSTANTS
  Readers,        \* the readers, each with a consumer of its own
  Size,           \* capacity of the ring
  MaxWritten,     \* bound: length of the output
  MaxRead         \* bound: length of a consumer's buffer

ASSUME LogRingAssumption ==
  /\ Size \in Nat \ {0}
  /\ MaxWritten \in Nat
  /\ MaxRead \in Nat \ {0}

VARIABLES
  buf,            \* ringBuffer.buf
  written,        \* ringBuffer.written
  closed,         \* ringBuffer.closed
  readErr,        \* ringBuffer.readErr: "none" or "failed"
  writer,         \* the copying goroutine: "copying", "broken" or "ended"
  pos,            \* ringReader.pos
  left,           \* the readers with ringReader.closed
  waiting,        \* the readers inside cond.Wait
  got,            \* what the consumer of each reader has received
  res             \* how its reading ended: "open" while it goes on

ringVars == <<buf, written, closed, readErr>>
readVars == <<pos, got, res>>
vars == <<ringVars, writer, left, waiting, readVars>>

Slots == 0 .. (Size - 1)
Least(m, n) == IF m < n THEN m ELSE n

\* copy(b[at:], ...): n bytes of the output, from the one called first on.
Copied(b, at, first, n) ==
  [i \in Slots |-> IF at <= i /\ i < at + n THEN first + (i - at) ELSE b[i]]

\* Defect: cond.Signal in its place.
SignalOne ==
  IF waiting = {} THEN UNCHANGED waiting ELSE \E r \in waiting : waiting' = waiting \ {r}

\* cond.Broadcast.
Broadcast == waiting' = {}

-----------------------------------------------------------------------------
(* The writer.                                                             *)

\* Defect: the tail is put at index 0.
WriteLongAtZero(n) == buf' = Copied(buf, 0, written + n - Size + 1, Size)

\* Data that fills the ring: its last Size bytes stay, aligned with written.
WriteLong(n) ==
  LET start == (written + n) % Size
      tail == written + n - Size + 1
  IN buf' = Copied(Copied(buf, start, tail, Size - start), 0, tail + Size - start, start)

WriteShort(n) ==
  LET start == written % Size
      first == Size - start
  IN buf' = IF start + n <= Size
            THEN Copied(buf, start, written + 1, n)
            ELSE Copied(Copied(buf, start, written + 1, first), 0,
                        written + 1 + first, n - first)

Write(n) ==
  /\ writer = "copying"
  /\ IF n >= Size THEN WriteLong(n) ELSE WriteShort(n)
  /\ written' = written + n
  /\ Broadcast
  /\ UNCHANGED <<closed, readErr, writer, left, readVars>>

\* The first error stays.
CloseWithError(err) ==
  /\ closed' = TRUE
  /\ readErr' = IF readErr = "none" THEN err ELSE readErr
  /\ Broadcast
  /\ UNCHANGED <<buf, written, left, readVars>>

\* The stream from Docker breaks: close at once, before the exit code is known.
StreamBreaks ==
  /\ writer = "copying"
  /\ writer' = "broken"
  /\ CloseWithError("failed")

\* The deferred close: with the stream's error, without one, or because the
\* command's termination was not confirmed.
CommandEnds ==
  /\ writer \in {"copying", "broken"}
  /\ writer' = "ended"
  /\ \E err \in IF writer = "broken" THEN {"failed"} ELSE {"none", "failed"} :
       CloseWithError(err)

-----------------------------------------------------------------------------
(* The readers.                                                            *)

\* Defect: off by one where the next byte has just been overwritten.
OverrunLate(r) == written > Size /\ pos[r] < written - Size - 1

Overrun(r) == written > Size /\ pos[r] < written - Size

\* Defect: the consumer's buffer is always filled.
CountUnclamped(r, len) == len

Count(r, len) == Least(written - pos[r], len)

\* n bytes from slot pos % Size on, around the end of the ring.
Retained(r, n) ==
  LET start == pos[r] % Size
      first == Size - start
  IN [i \in 1 .. n |-> IF i <= first THEN buf[start + i - 1] ELSE buf[i - first - 1]]

ReturnError(r, err) ==
  res' = [res EXCEPT ![r] = err] /\ UNCHANGED <<pos, got, waiting>>

ReturnBytes(r, n) ==
  /\ got' = [got EXCEPT ![r] = @ \o Retained(r, n)]
  /\ pos' = [pos EXCEPT ![r] = @ + n]
  /\ UNCHANGED <<res, waiting>>

\* One turn of Read's loop, from taking the mutex to returning or waiting.
Read(r, len) ==
  /\ res[r] = "open" /\ r \notin waiting
  /\ \/ r \in left /\ ReturnError(r, "eof")
     \/ r \notin left /\ Overrun(r) /\ ReturnError(r, "truncated")
     \/ /\ r \notin left /\ ~Overrun(r) /\ written > pos[r]
        /\ ReturnBytes(r, Count(r, len))
     \/ /\ r \notin left /\ ~Overrun(r) /\ written <= pos[r]
        /\ IF closed THEN ReturnError(r, IF readErr = "none" THEN "eof" ELSE readErr)
                     ELSE waiting' = waiting \cup {r} /\ UNCHANGED readVars
  /\ UNCHANGED <<ringVars, writer, left>>

\* Defect: the reader's own Read is not woken.
CloseReaderQuietly(r) ==
  /\ r \notin left
  /\ left' = left \cup {r}
  /\ UNCHANGED <<ringVars, writer, waiting, readVars>>

\* ringReader.Close, when the client of the handler goes away.
CloseReader(r) ==
  /\ r \notin left
  /\ left' = left \cup {r}
  /\ Broadcast
  /\ UNCHANGED <<ringVars, writer, readVars>>

-----------------------------------------------------------------------------

Init ==
  /\ buf = [i \in Slots |-> 0]
  /\ written = 0
  /\ closed = FALSE
  /\ readErr = "none"
  /\ writer = "copying"
  /\ pos = [r \in Readers |-> 0]
  /\ left = {}
  /\ waiting = {}
  /\ got = [r \in Readers |-> <<>>]
  /\ res = [r \in Readers |-> "open"]

Next ==
  \/ \E n \in 1 .. (MaxWritten - written) : Write(n)
  \/ StreamBreaks \/ CommandEnds
  \/ \E r \in Readers : CloseReader(r) \/ \E len \in 1 .. MaxRead : Read(r, len)

Spec == Init /\ [][Next]_vars

-----------------------------------------------------------------------------
(* Properties.                                                             *)

TypeOK ==
  /\ buf \in [Slots -> 0 .. MaxWritten]
  /\ written \in 0 .. MaxWritten
  /\ closed \in BOOLEAN
  /\ readErr \in {"none", "failed"}
  /\ writer \in {"copying", "broken", "ended"}
  /\ pos \in [Readers -> 0 .. MaxWritten]
  /\ left \subseteq Readers
  /\ waiting \subseteq Readers
  /\ \A r \in Readers : got[r] \in Seq(0 .. MaxWritten)
  /\ res \in [Readers -> {"open", "eof", "truncated", "failed"}]

\* ringBuffer.Bytes.
Bytes ==
  LET start == written % Size IN
  IF written <= Size
  THEN [i \in 1 .. written |-> buf[i - 1]]
  ELSE [i \in 1 .. Size |-> IF i <= Size - start THEN buf[start + i - 1]
                                                ELSE buf[i - (Size - start) - 1]]

\* A snapshot (GetCommandLogs) is exactly the tail of the output, wherever
\* the writes have left the ring's origin.
SnapshotIsTail ==
  Bytes = [i \in 1 .. Least(written, Size) |-> written - Least(written, Size) + i]

\* The ring is a log: no reader gets a byte twice, out of place or after a gap,
\* none is told of the end before it has everything, and none is told of a loss
\* while its next byte is still in the ring.
PlainLog == INSTANCE Log WITH
  outcome <- IF ~closed THEN "open" ELSE IF readErr = "none" THEN "complete" ELSE "failed"

IsLog == PlainLog!Spec

\* No wake-up is lost: a byte that was written reaches each reader, unless its
\* reading has ended.
OutputArrives ==
  \A r \in Readers, k \in 1 .. MaxWritten :
    (written >= k) ~> (pos[r] >= k \/ res[r] # "open")

\* A reader whose buffer or whose own side is closed comes to an end, so that
\* the handler that waits for it returns.
ReadersEnd ==
  \A r \in Readers : (closed \/ r \in left) ~> (res[r] # "open")
=============================================================================
