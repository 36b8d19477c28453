--------------------------------- MODULE Log ---------------------------------
(***************************************************************************)
(* What the readers of a command's output are promised: a log of which a   *)
(* consumer receives the bytes from the first on, without a gap, until its *)
(* end, its failure, the loss of its next byte, or its own departure.  The *)
(* i-th byte of the output is written i.                                   *)
(***************************************************************************)
EXTENDS Integers, Sequences

CONSTANTS
  Readers,        \* the consumers of the log
  Size            \* how many of the last bytes are retained

VARIABLES
  written,        \* how many bytes the command has written
  outcome,        \* "open", "complete" or "failed"
  left,           \* the consumers that went away
  got,            \* what each consumer has received
  res             \* how its reading ended: "open" while it goes on

logVars == <<written, outcome, left, got, res>>

Lost(r) == written - Len(got[r]) > Size

Init ==
  /\ written = 0
  /\ outcome = "open"
  /\ left = {}
  /\ got = [r \in Readers |-> <<>>]
  /\ res = [r \in Readers |-> "open"]

Output ==
  /\ outcome = "open"
  /\ written' \in Nat /\ written' > written
  /\ UNCHANGED <<outcome, left, got, res>>

End(how) ==
  /\ outcome = "open"
  /\ outcome' = how
  /\ UNCHANGED <<written, left, got, res>>

Leave(r) ==
  /\ left' = left \cup {r}
  /\ UNCHANGED <<written, outcome, got, res>>

\* The next bytes, and nothing else.
Deliver(r) ==
  /\ res[r] = "open" /\ r \notin left /\ ~Lost(r)
  /\ \E n \in (Len(got[r]) + 1) .. written :
       got' = [got EXCEPT ![r] = [i \in 1 .. n |-> i]]
  /\ UNCHANGED <<written, outcome, left, res>>

\* The end is announced to who has everything, the loss to who missed bytes.
Finish(r) ==
  /\ res[r] = "open"
  /\ \/ r \in left /\ res' = [res EXCEPT ![r] = "eof"]
     \/ Lost(r) /\ res' = [res EXCEPT ![r] = "truncated"]
     \/ /\ Len(got[r]) = written
        /\ \/ outcome = "complete" /\ res' = [res EXCEPT ![r] = "eof"]
           \/ outcome = "failed" /\ res' = [res EXCEPT ![r] = "failed"]
  /\ UNCHANGED <<written, outcome, left, got>>

Next ==
  \/ Output
  \/ \E how \in {"complete", "failed"} : End(how)
  \/ \E r \in Readers : Leave(r) \/ Deliver(r) \/ Finish(r)

Spec == Init /\ [][Next]_logVars
=============================================================================
