-------------------------------- MODULE LogTail --------------------------------
(***************************************************************************)
(* The output of a command under either runtime.  The Docker client keeps  *)
(* it in the ring of LogRing; the Apple client has a boundedBuffer         *)
(* (internal/applecontainer/runner.go), which moves its bytes instead of   *)
(* its origin, and readers that poll it (logReader, commands.go).  Both    *)
(* owe their readers the same Log.                                         *)
(***************************************************************************)
EXTENDS LogRing

VARIABLES
  runtime,        \* the runtime that the server was started with
  data            \* boundedBuffer.data; total is written, and done is closed

tailVars == <<vars, runtime, data>>

-----------------------------------------------------------------------------
(* The buffer.                                                             *)

Piece(n) == [i \in 1 .. n |-> written + i]

\* Defect: the bytes are cut off, but not moved down before.
KeptFirst(n) == IF Len(data) + n > Size THEN SubSeq(data, 1, Size - n) ELSE data

\* The bytes that stay before n new ones, moved down when they do not all fit.
Kept(n) ==
  IF Len(data) + n > Size THEN SubSeq(data, Len(data) + n - Size + 1, Len(data)) ELSE data

TailWrite(n) ==
  /\ writer = "copying"
  /\ data' = IF n >= Size THEN SubSeq(Piece(n), n - Size + 1, n) ELSE Kept(n) \o Piece(n)
  /\ written' = written + n
  /\ UNCHANGED <<buf, closed, readErr, writer, left, waiting, readVars>>

\* Wait has returned, so the tool's output is all copied: close(done).
TailDone ==
  /\ writer = "copying"
  /\ writer' = "ended" /\ closed' = TRUE
  /\ UNCHANGED <<buf, written, readErr, left, waiting, readVars, data>>

-----------------------------------------------------------------------------
(* The readers.  One that found nothing is in "waiting", at its select.    *)

First == written - Len(data)

TailOverrun(r) == pos[r] < First

TailBytes(r, n) ==
  /\ got' = [got EXCEPT ![r] = @ \o SubSeq(data, pos[r] - First + 1, pos[r] - First + n)]
  /\ pos' = [pos EXCEPT ![r] = @ + n]
  /\ UNCHANGED <<res, waiting>>

\* The loop's first half.  A Close between its look at closed and the mutex
\* might as well have come after it.
TailRead(r, len) ==
  /\ res[r] = "open" /\ r \notin waiting
  /\ \/ r \in left /\ ReturnError(r, "eof")
     \/ r \notin left /\ TailOverrun(r) /\ ReturnError(r, "truncated")
     \/ /\ r \notin left /\ ~TailOverrun(r) /\ written > pos[r]
        /\ TailBytes(r, Count(r, len))
     \/ /\ r \notin left /\ ~TailOverrun(r) /\ written <= pos[r]
        /\ waiting' = waiting \cup {r} /\ UNCHANGED readVars
  /\ UNCHANGED <<ringVars, writer, left, data>>

\* Defect: done is the end, though bytes may have come since the look at them.
EndsAtDone(r) == r \in left \/ closed

Ends(r) == r \in left \/ (closed /\ pos[r] = written)

PollEnds(r) ==
  /\ r \in waiting /\ Ends(r)
  /\ waiting' = waiting \ {r}
  /\ res' = [res EXCEPT ![r] = "eof"]
  /\ UNCHANGED <<ringVars, writer, left, pos, got, data>>

\* The timer, or done with something remaining.
PollAgain(r) ==
  /\ r \in waiting
  /\ waiting' = waiting \ {r}
  /\ UNCHANGED <<ringVars, writer, left, readVars, data>>

TailClose(r) ==
  /\ r \notin left
  /\ left' = left \cup {r}
  /\ UNCHANGED <<ringVars, writer, waiting, readVars, data>>

-----------------------------------------------------------------------------

TailInit == Init /\ runtime \in {"docker", "container"} /\ data = <<>>

TailNext ==
  \/ \E n \in 1 .. (MaxWritten - written) : TailWrite(n)
  \/ TailDone
  \/ \E r \in Readers :
       \/ PollEnds(r) \/ PollAgain(r) \/ TailClose(r)
       \/ \E len \in 1 .. MaxRead : TailRead(r, len)

LogNext ==
  /\ \/ runtime = "docker" /\ Next /\ UNCHANGED data
     \/ runtime = "container" /\ TailNext
  /\ UNCHANGED runtime

LogSpec == TailInit /\ [][LogNext]_tailVars

\* A consumer whose client takes what it sends reads until it gets an error;
\* nothing is asked of the command.  A select that finds done closed returns
\* rather than waits for its timer.
LogFairness ==
  \A r \in Readers :
    /\ WF_tailVars(/\ runtime = "docker" /\ UNCHANGED <<runtime, data>>
                   /\ \E len \in 1 .. MaxRead : Read(r, len))
    /\ WF_tailVars(/\ runtime = "container" /\ UNCHANGED runtime
                   /\ PollAgain(r) \/ \E len \in 1 .. MaxRead : TailRead(r, len))
    /\ SF_tailVars(runtime = "container" /\ UNCHANGED runtime /\ PollEnds(r))

FairLogSpec == LogSpec /\ LogFairness

-----------------------------------------------------------------------------
(* Properties, beside IsLog, OutputArrives and ReadersEnd of LogRing.      *)

\* ringBuffer.Bytes, or boundedBuffer.snapshot.
Snapshot == IF runtime = "docker" THEN Bytes ELSE data

\* Under either runtime a snapshot (GetCommandLogs) is exactly the tail of the
\* output, whatever the lengths of its writes.
SnapshotsAreTails ==
  Snapshot = [i \in 1 .. Least(written, Size) |-> written - Least(written, Size) + i]
=============================================================================
