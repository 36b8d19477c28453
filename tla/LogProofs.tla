------------------------------- MODULE LogProofs -------------------------------
(***************************************************************************)
(* Proofs about the captured output of a command for every capacity,       *)
(* length of output, and set of readers.  First LogRing: the index         *)
(* arithmetic of ringbuffer.go keeps the tail of the output, a snapshot is *)
(* that tail, and the ring implements Log.  Then LogTail: the same under   *)
(* either runtime.                                                         *)
(***************************************************************************)
EXTENDS LogTail, SequenceTheorems, TLAPS

-----------------------------------------------------------------------------
(* Remainders.                                                             *)

LEMMA DivMod ==
  ASSUME NEW a \in Nat, NEW n \in Nat \ {0}
  PROVE  a = n * (a \div n) + (a % n) /\ a \div n \in Int /\ a % n \in 0 .. (n - 1)
  BY SMT

LEMMA RemainderUnique ==
  ASSUME NEW n \in Nat \ {0}, NEW q1 \in Int, NEW q2 \in Int,
         NEW r1 \in 0 .. (n - 1), NEW r2 \in 0 .. (n - 1),
         n * q1 + r1 = n * q2 + r2
  PROVE  r1 = r2
  <1>1. CASE q1 = q2
    BY <1>1, SMT
  <1>2. CASE q1 > q2
    <2>1. n * (q1 - q2) >= n
      BY <1>2, SMT
    <2>. QED
      BY <2>1, SMT
  <1>3. CASE q2 > q1
    <2>1. n * (q2 - q1) >= n
      BY <1>3, SMT
    <2>. QED
      BY <2>1, SMT
  <1>. QED
    BY <1>1, <1>2, <1>3

\* d slots further on, around the end of the ring at most once.
LEMMA SlotAhead ==
  ASSUME NEW a \in Nat, NEW n \in Nat \ {0}, NEW d \in 0 .. n
  PROVE  (a + d) % n = IF (a % n) + d < n THEN (a % n) + d ELSE (a % n) + d - n
  <1>. DEFINE q == a \div n
              r == a % n
              p == (a + d) \div n
  <1>1. a = n * q + r /\ q \in Int /\ r \in 0 .. (n - 1)
    BY DivMod
  <1>2. a + d = n * p + ((a + d) % n) /\ p \in Int /\ (a + d) % n \in 0 .. (n - 1)
    BY DivMod, a + d \in Nat
  <1>. HIDE DEF q, r, p
  <1>3. CASE r + d < n
    <2>1. n * q + (r + d) = n * p + ((a + d) % n) /\ r + d \in 0 .. (n - 1)
      BY <1>1, <1>2, <1>3
    <2>2. r + d = (a + d) % n
      BY <1>1, <1>2, <2>1, RemainderUnique
    <2>. QED
      BY <1>3, <2>2 DEF r
  <1>4. CASE ~(r + d < n)
    <2>1. n * (q + 1) = n * q + n
      BY <1>1
    <2>2. n * (q + 1) + (r + d - n) = n * p + ((a + d) % n)
      BY <1>1, <1>2, <2>1
    <2>3. r + d - n \in 0 .. (n - 1) /\ q + 1 \in Int
      BY <1>1, <1>4
    <2>4. r + d - n = (a + d) % n
      BY <1>2, <2>2, <2>3, RemainderUnique
    <2>. QED
      BY <2>4 DEF r
  <1>. QED
    BY <1>3, <1>4

LEMMA SlotSmall ==
  ASSUME NEW n \in Nat \ {0}, NEW a \in 0 .. (n - 1)
  PROVE  a % n = a
  <1>1. a = n * (a \div n) + (a % n) /\ a \div n \in Int /\ a % n \in 0 .. (n - 1)
    BY DivMod
  <1>2. n * 0 + a = n * (a \div n) + (a % n)
    BY <1>1
  <1>. QED
    BY <1>1, <1>2, RemainderUnique

-----------------------------------------------------------------------------
(* The inductive invariant.                                                *)

\* The ring b holds the last Size of w bytes, each in the slot of its number.
Slot(k) == (k - 1) % Size

Holds(b, w) == \A k \in 1 .. w : k > w - Size => b[Slot(k)] = k

Prefix(n) == [i \in 1 .. n |-> i]
Prefixes == {Prefix(n) : n \in Nat}

CloseInv ==
  /\ closed <=> writer # "copying"
  /\ ~closed => readErr = "none"
  /\ writer = "broken" => readErr = "failed"

ReaderInv ==
  \A r \in Readers : pos[r] <= written /\ got[r] = Prefix(pos[r])

Types ==
  /\ buf \in [Slots -> 0 .. MaxWritten]
  /\ written \in 0 .. MaxWritten
  /\ closed \in BOOLEAN
  /\ readErr \in {"none", "failed"}
  /\ writer \in {"copying", "broken", "ended"}
  /\ pos \in [Readers -> 0 .. MaxWritten]
  /\ left \subseteq Readers
  /\ waiting \subseteq Readers
  /\ got \in [Readers -> Prefixes]
  /\ res \in [Readers -> {"open", "eof", "truncated", "failed"}]

Inv == Types /\ Holds(buf, written) /\ CloseInv /\ ReaderInv

-----------------------------------------------------------------------------
(* The writer.                                                             *)

LEMMA CopiedTyped ==
  ASSUME NEW b \in [Slots -> 0 .. MaxWritten], NEW at \in Int, NEW n \in Int,
         NEW first \in Nat, first + n <= MaxWritten + 1
  PROVE  Copied(b, at, first, n) \in [Slots -> 0 .. MaxWritten]
  BY LogRingAssumption DEF Copied, Slots

LEMMA SlotShift ==
  ASSUME NEW k \in Nat \ {0}, NEW d \in 0 .. Size
  PROVE  /\ Slot(k) \in Slots
         /\ Slot(k + d) = IF Slot(k) + d < Size THEN Slot(k) + d ELSE Slot(k) + d - Size
  <1>1. Size \in Nat \ {0} /\ k - 1 \in Nat /\ k + d - 1 = (k - 1) + d
    BY LogRingAssumption
  <1>2. (k - 1) % Size \in 0 .. (Size - 1)
    BY <1>1, DivMod
  <1>3. ((k - 1) + d) % Size = IF ((k - 1) % Size) + d < Size THEN ((k - 1) % Size) + d
                                                      ELSE ((k - 1) % Size) + d - Size
    BY <1>1, SlotAhead
  <1>. QED
    BY <1>1, <1>2, <1>3 DEF Slot, Slots

LEMMA SlotTyped ==
  ASSUME NEW k \in Nat \ {0}
  PROVE  Slot(k) \in Slots
  <1>1. 0 \in 0 .. Size
    BY LogRingAssumption
  <1>. QED
    BY <1>1, SlotShift

LEMMA ShortHolds ==
  ASSUME NEW w \in Nat, NEW n \in 1 .. (Size - 1), Holds(buf, w), w = written,
         WriteShort(n)
  PROVE  Holds(buf', w + n)
  <1>. DEFINE start == Slot(w + 1)
  <1>1. Size \in Nat \ {0}
    BY LogRingAssumption
  <1>2. start \in Slots
    BY SlotTyped, <1>1
  <1>3. \A i \in Slots :
          buf'[i] = IF start <= i /\ i < start + n THEN w + 1 + (i - start)
                    ELSE IF i < start + n - Size THEN w + 1 + (Size - start) + i
                    ELSE buf[i]
    <2>1. written % Size = start
      BY DEF Slot
    <2>. HIDE DEF start
    <2>2. buf' = IF start + n <= Size
                 THEN Copied(buf, start, w + 1, n)
                 ELSE Copied(Copied(buf, start, w + 1, Size - start), 0,
                             w + 1 + (Size - start), n - (Size - start))
      BY <2>1 DEF WriteShort
    <2>. QED
      BY <1>1, <1>2, <2>2 DEF Copied, Slots
  <1>. HIDE DEF start
  <1>4. \A k \in 1 .. (w + n) : k > (w + n) - Size => buf'[Slot(k)] = k
    <2>. SUFFICES ASSUME NEW k \in 1 .. (w + n), k > (w + n) - Size
                  PROVE  buf'[Slot(k)] = k
      OBVIOUS
    <2>1. Slot(k) \in Slots
      BY SlotTyped, <1>1
    <2>2. CASE k > w
      <3>1. k - (w + 1) \in 0 .. Size /\ (w + 1) + (k - (w + 1)) = k /\ w + 1 \in Nat \ {0}
        BY <1>1, <2>2
      <3>2. Slot(k) = IF start + (k - (w + 1)) < Size THEN start + (k - (w + 1))
                                                ELSE start + (k - (w + 1)) - Size
        BY <3>1, SlotShift DEF start
      <3>. QED
        BY <1>1, <1>2, <1>3, <2>1, <2>2, <3>1, <3>2 DEF Slots
    <2>3. CASE k <= w
      <3>1. w + 1 - k \in 0 .. Size /\ k + (w + 1 - k) = w + 1 /\ k \in Nat \ {0}
        BY <1>1, <2>3
      <3>2. start = IF Slot(k) + (w + 1 - k) < Size THEN Slot(k) + (w + 1 - k)
                                              ELSE Slot(k) + (w + 1 - k) - Size
        BY <3>1, SlotShift DEF start
      <3>3. buf[Slot(k)] = k
        BY <1>1, <2>3 DEF Holds
      <3>. QED
        BY <1>1, <1>2, <1>3, <2>1, <2>3, <3>1, <3>2, <3>3 DEF Slots
    <2>. QED
      BY <2>2, <2>3
  <1>. QED
    BY <1>4 DEF Holds

LEMMA LongHolds ==
  ASSUME NEW w \in Nat, NEW n \in Nat, n >= Size, w = written, WriteLong(n)
  PROVE  Holds(buf', w + n)
  <1>. DEFINE start == Slot(w + n + 1)
  <1>1. Size \in Nat \ {0}
    BY LogRingAssumption
  <1>2. start \in Slots
    BY SlotTyped, <1>1
  <1>3. \A i \in Slots :
          buf'[i] = IF i < start THEN w + n + 1 - start + i
                                 ELSE w + n - Size + 1 + (i - start)
    <2>1. (written + n) % Size = start
      BY DEF Slot
    <2>. HIDE DEF start
    <2>2. buf' = Copied(Copied(buf, start, w + n - Size + 1, Size - start), 0,
                        w + n - Size + 1 + Size - start, start)
      BY <2>1 DEF WriteLong
    <2>. QED
      BY <1>1, <1>2, <2>2 DEF Copied, Slots
  <1>. HIDE DEF start
  <1>4. \A k \in 1 .. (w + n) : k > (w + n) - Size => buf'[Slot(k)] = k
    <2>. SUFFICES ASSUME NEW k \in 1 .. (w + n), k > (w + n) - Size
                  PROVE  buf'[Slot(k)] = k
      OBVIOUS
    <2>1. Slot(k) \in Slots
      BY SlotTyped, <1>1
    <2>2. w + n + 1 - k \in 1 .. Size /\ k + (w + n + 1 - k) = w + n + 1
            /\ k \in Nat \ {0} /\ w + n + 1 - k \in 0 .. Size
      BY <1>1
    <2>3. start = IF Slot(k) + (w + n + 1 - k) < Size THEN Slot(k) + (w + n + 1 - k)
                                            ELSE Slot(k) + (w + n + 1 - k) - Size
      BY <2>2, SlotShift DEF start
    <2>. QED
      BY <1>1, <1>2, <1>3, <2>1, <2>2, <2>3 DEF Slots
  <1>. QED
    BY <1>4 DEF Holds

-----------------------------------------------------------------------------
(* The readers.                                                            *)

\* Around the end of the ring, n retained bytes from p on are p + 1 .. p + n.
LEMMA Around ==
  ASSUME NEW p \in Nat, NEW w \in Nat, p >= w - Size, p <= w, Holds(buf, w),
         NEW i \in 1 .. (w - p)
  PROVE  /\ p % Size \in Slots
         /\ i <= Size - (p % Size) => buf[(p % Size) + i - 1] = p + i
         /\ i > Size - (p % Size) => buf[i - (Size - (p % Size)) - 1] = p + i
  <1>. DEFINE start == Slot(p + 1)
  <1>1. p % Size = start /\ Size \in Nat \ {0} /\ p + 1 \in Nat \ {0}
    BY LogRingAssumption DEF Slot
  <1>2. start \in Slots
    BY <1>1, SlotTyped
  <1>3. i - 1 \in 0 .. Size /\ (p + 1) + (i - 1) = p + i
    BY <1>1
  <1>4. Slot(p + i) = IF start + (i - 1) < Size THEN start + (i - 1)
                                               ELSE start + (i - 1) - Size
    BY <1>1, <1>3, SlotShift
  <1>5. buf[Slot(p + i)] = p + i
    <2>1. p + i \in 1 .. w /\ p + i > w - Size
      BY <1>1
    <2>. QED
      BY <2>1 DEF Holds
  <1>. HIDE DEF start
  <1>6. i <= Size - start => start + i - 1 = Slot(p + i)
    BY <1>1, <1>2, <1>4 DEF Slots
  <1>7. i > Size - start => i - (Size - start) - 1 = Slot(p + i)
    BY <1>1, <1>2, <1>4 DEF Slots
  <1>. QED
    BY <1>1, <1>2, <1>5, <1>6, <1>7

LEMMA RetainedIsNext ==
  ASSUME Inv, NEW r \in Readers, ~Overrun(r), NEW n \in 1 .. (written - pos[r])
  PROVE  Retained(r, n) = [i \in 1 .. n |-> pos[r] + i]
  <1>1. pos[r] \in Nat /\ written \in Nat /\ pos[r] <= written /\ Size \in Nat \ {0}
    BY LogRingAssumption DEF Inv, Types, ReaderInv
  <1>2. pos[r] >= written - Size
    BY <1>1 DEF Overrun
  <1>3. ASSUME NEW i \in 1 .. n
        PROVE  (IF i <= Size - (pos[r] % Size) THEN buf[(pos[r] % Size) + i - 1]
                ELSE buf[i - (Size - (pos[r] % Size)) - 1]) = pos[r] + i
    <2>1. i \in 1 .. (written - pos[r])
      BY <1>1
    <2>2. Holds(buf, written)
      BY DEF Inv
    <2>3. /\ pos[r] % Size \in Slots
          /\ i <= Size - (pos[r] % Size) => buf[(pos[r] % Size) + i - 1] = pos[r] + i
          /\ i > Size - (pos[r] % Size) => buf[i - (Size - (pos[r] % Size)) - 1] = pos[r] + i
      BY <1>1, <1>2, <2>1, <2>2, Around
    <2>. QED
      BY <1>1, <2>3 DEF Slots
  <1>. QED
    BY <1>3 DEF Retained

LEMMA PrefixGrows ==
  ASSUME NEW p \in Nat, NEW n \in Nat
  PROVE  Prefix(p) \o [i \in 1 .. n |-> p + i] = Prefix(p + n)
  BY DEF Prefix

\* A snapshot is the tail.
LEMMA InvSnapshot ==
  ASSUME Inv
  PROVE  SnapshotIsTail
  <1>1. written \in Nat /\ Size \in Nat \ {0} /\ Holds(buf, written)
    BY LogRingAssumption DEF Inv, Types
  <1>2. CASE written <= Size
    <2>1. ASSUME NEW i \in 1 .. written
          PROVE  buf[i - 1] = i
      <3>1. (i - 1) % Size = i - 1
        BY <1>1, <1>2, SlotSmall
      <3>2. buf[Slot(i)] = i
        BY <1>1, <1>2 DEF Holds
      <3>. QED
        BY <3>1, <3>2 DEF Slot
    <2>2. Least(written, Size) = written
      BY <1>1, <1>2 DEF Least
    <2>3. Bytes = [i \in 1 .. written |-> buf[i - 1]]
      BY <1>2 DEF Bytes
    <2>. QED
      BY <1>1, <2>1, <2>2, <2>3 DEF SnapshotIsTail
  <1>3. CASE ~(written <= Size)
    <2>. DEFINE p == written - Size
    <2>1. p \in Nat /\ p + Size = written
      BY <1>1, <1>3
    <2>2. p % Size = written % Size
      <3>1. p % Size \in 0 .. (Size - 1) /\ Size \in 0 .. Size
        BY <1>1, <2>1, DivMod
      <3>2. (p + Size) % Size = IF (p % Size) + Size < Size THEN (p % Size) + Size
                                                          ELSE (p % Size) + Size - Size
        BY <1>1, <2>1, <3>1, SlotAhead
      <3>. QED
        BY <1>1, <2>1, <3>1, <3>2
    <2>3. ASSUME NEW i \in 1 .. Size
          PROVE  (IF i <= Size - (written % Size) THEN buf[(written % Size) + i - 1]
                  ELSE buf[i - (Size - (written % Size)) - 1]) = p + i
      <3>1. i \in 1 .. (written - p) /\ p >= written - Size /\ p <= written
        BY <1>1, <1>3
      <3>2. /\ p % Size \in Slots
            /\ i <= Size - (p % Size) => buf[(p % Size) + i - 1] = p + i
            /\ i > Size - (p % Size) => buf[i - (Size - (p % Size)) - 1] = p + i
        BY <1>1, <2>1, <3>1, Around
      <3>. QED
        BY <1>1, <2>2, <3>2 DEF Slots
    <2>4. Least(written, Size) = Size
      BY <1>1, <1>3 DEF Least
    <2>5. Bytes = [i \in 1 .. Size |->
                     IF i <= Size - (written % Size) THEN buf[(written % Size) + i - 1]
                     ELSE buf[i - (Size - (written % Size)) - 1]]
      BY <1>3 DEF Bytes
    <2>. QED
      BY <1>1, <2>3, <2>4, <2>5 DEF SnapshotIsTail
  <1>. QED
    BY <1>2, <1>3

-----------------------------------------------------------------------------
(* The invariant holds.                                                    *)

LEMMA InitInv ==
  ASSUME Init
  PROVE  Inv
  <1>0. got = [r \in Readers |-> Prefix(0)] /\ Prefix(0) \in Prefixes
    <2>1. Prefix(0) = <<>>
      BY DEF Prefix
    <2>2. got = [r \in Readers |-> Prefix(0)]
      BY <2>1, Zenon DEF Init
    <2>. QED
      BY <2>2 DEF Prefixes
  <1>1. Types
    <2>1. got \in [Readers -> Prefixes]
      BY <1>0
    <2>2. /\ buf = [i \in Slots |-> 0] /\ written = 0 /\ closed = FALSE
          /\ readErr = "none" /\ writer = "copying" /\ left = {} /\ waiting = {}
          /\ pos = [r \in Readers |-> 0] /\ res = [r \in Readers |-> "open"]
      BY Zenon DEF Init
    <2>3. /\ closed \in BOOLEAN /\ left \subseteq Readers /\ waiting \subseteq Readers
          /\ readErr \in {"none", "failed"} /\ writer \in {"copying", "broken", "ended"}
      BY <2>2, Zenon
    <2>4. /\ buf \in [Slots -> 0 .. MaxWritten] /\ written \in 0 .. MaxWritten
          /\ pos \in [Readers -> 0 .. MaxWritten]
          /\ res \in [Readers -> {"open", "eof", "truncated", "failed"}]
      BY <2>2, LogRingAssumption
    <2>. QED
      BY <2>1, <2>3, <2>4, Zenon DEF Types
  <1>2. Holds(buf, written)
    BY DEF Init, Holds
  <1>3. CloseInv
    BY DEF Init, CloseInv
  <1>4. ReaderInv
    <2>1. pos = [r \in Readers |-> 0] /\ written = 0
      BY Zenon DEF Init
    <2>2. ASSUME NEW r \in Readers
          PROVE  pos[r] <= written /\ got[r] = Prefix(pos[r])
      <3>1. pos[r] = 0 /\ pos[r] <= written
        BY <2>1
      <3>2. got[r] = Prefix(0)
        BY <1>0, Zenon
      <3>. QED
        BY <3>1, <3>2, Zenon
    <2>. QED
      BY <2>2 DEF ReaderInv
  <1>. QED
    BY <1>1, <1>2, <1>3, <1>4 DEF Inv

LEMMA WriteInv ==
  ASSUME Inv, NEW n \in 1 .. (MaxWritten - written), Write(n)
  PROVE  Inv'
  <1>1. written \in Nat /\ n \in Nat /\ written + n \in 0 .. MaxWritten
          /\ Size \in Nat \ {0} /\ MaxWritten \in Nat /\ n >= 1
    BY LogRingAssumption DEF Inv, Types
  <1>2. buf' \in [Slots -> 0 .. MaxWritten]
    <2>. DEFINE start == written % Size
                far == (written + n) % Size
    <2>1. start \in 0 .. (Size - 1) /\ far \in 0 .. (Size - 1)
      BY <1>1, DivMod
    <2>2. buf \in [Slots -> 0 .. MaxWritten]
      BY DEF Inv, Types
    <2>3. CASE n >= Size
      <3>. DEFINE tail == written + n - Size + 1
                  b == Copied(buf, far, tail, Size - far)
      <3>1. buf' = Copied(b, 0, tail + Size - far, far)
        BY <2>3 DEF Write, WriteLong
      <3>. HIDE DEF far
      <3>2. b \in [Slots -> 0 .. MaxWritten]
        BY <1>1, <2>1, <2>2, <2>3, CopiedTyped
      <3>3. tail + Size - far \in Nat /\ tail + Size - far + far <= MaxWritten + 1
        BY <1>1, <2>1, <2>3
      <3>. HIDE DEF b, tail
      <3>. QED
        BY <1>1, <2>1, <3>1, <3>2, <3>3, CopiedTyped
    <2>4. CASE ~(n >= Size)
      <3>. DEFINE first == Size - start
                  b == Copied(buf, start, written + 1, first)
      <3>1. buf' = IF start + n <= Size THEN Copied(buf, start, written + 1, n)
                   ELSE Copied(b, 0, written + 1 + first, n - first)
        BY <2>4 DEF Write, WriteShort
      <3>. HIDE DEF start
      <3>2. CASE start + n <= Size
        BY <1>1, <2>1, <2>2, <3>1, <3>2, CopiedTyped
      <3>3. CASE ~(start + n <= Size)
        <4>1. b \in [Slots -> 0 .. MaxWritten]
          BY <1>1, <2>1, <2>2, <3>3, CopiedTyped
        <4>2. /\ written + 1 + first \in Nat /\ n - first \in Int
              /\ written + 1 + first + (n - first) <= MaxWritten + 1
          BY <1>1, <2>1
        <4>. HIDE DEF b, first
        <4>. QED
          BY <3>1, <3>3, <4>1, <4>2, CopiedTyped
      <3>. QED
        BY <3>2, <3>3
    <2>. QED
      BY <2>3, <2>4
  <1>3. Types'
    BY <1>1, <1>2 DEF Inv, Types, Write, Broadcast, readVars
  <1>4. Holds(buf', written')
    <2>1. Holds(buf, written) /\ written' = written + n
      BY DEF Inv, Write
    <2>2. CASE n >= Size
      BY <1>1, <2>1, <2>2, LongHolds DEF Write
    <2>3. CASE ~(n >= Size)
      BY <1>1, <2>1, <2>3, ShortHolds DEF Write
    <2>. QED
      BY <2>2, <2>3
  <1>5. CloseInv'
    BY DEF Inv, CloseInv, Write
  <1>6. ReaderInv'
    BY <1>1 DEF Inv, Types, ReaderInv, Write, readVars
  <1>. QED
    BY <1>3, <1>4, <1>5, <1>6 DEF Inv, Holds, Slot

LEMMA CloseKeepsInv ==
  ASSUME Inv, StreamBreaks \/ CommandEnds
  PROVE  Inv'
  <1>1. UNCHANGED <<buf, written, left, pos, got, res>> /\ closed' = TRUE /\ waiting' = {}
    BY DEF StreamBreaks, CommandEnds, CloseWithError, Broadcast, readVars
  <1>2. /\ writer' \in {"broken", "ended"}
        /\ readErr' \in {"none", "failed"}
        /\ writer' = "broken" => readErr' = "failed"
    <2>1. readErr \in {"none", "failed"}
      BY DEF Inv, Types
    <2>2. CASE StreamBreaks
      BY <2>1, <2>2 DEF StreamBreaks, CloseWithError
    <2>3. CASE CommandEnds
      BY <2>1, <2>3 DEF CommandEnds, CloseWithError
    <2>. QED
      BY <2>2, <2>3
  <1>3. Types'
    BY <1>1, <1>2 DEF Inv, Types
  <1>4. CloseInv'
    BY <1>1, <1>2 DEF CloseInv
  <1>. QED
    BY <1>1, <1>3, <1>4 DEF Inv, Holds, ReaderInv, Slot

\* What a turn of Read does.
LEMMA ReadCases ==
  ASSUME Inv, NEW r \in Readers, NEW len \in 1 .. MaxRead, Read(r, len)
  PROVE  /\ res[r] = "open"
         /\ \/ /\ r \notin left /\ ~Overrun(r)
               /\ \E n \in 1 .. (written - pos[r]) :
                    /\ pos' = [pos EXCEPT ![r] = pos[r] + n]
                    /\ got' = [got EXCEPT ![r] = Prefix(pos[r] + n)]
               /\ UNCHANGED <<res, waiting>>
            \/ /\ UNCHANGED <<pos, got, waiting>>
               /\ \/ r \in left /\ res' = [res EXCEPT ![r] = "eof"]
                  \/ Overrun(r) /\ res' = [res EXCEPT ![r] = "truncated"]
                  \/ /\ written = pos[r] /\ closed
                     /\ res' = [res EXCEPT ![r] = IF readErr = "none" THEN "eof"
                                                                     ELSE readErr]
            \/ waiting' = waiting \cup {r} /\ UNCHANGED <<pos, got, res>>
  <1>1. pos[r] \in Nat /\ written \in Nat /\ pos[r] <= written /\ len \in Nat
          /\ len >= 1 /\ got[r] = Prefix(pos[r])
    BY LogRingAssumption DEF Inv, Types, ReaderInv
  <1>2. res[r] = "open"
    BY DEF Read
  <1>3. CASE r \in left
    BY <1>2, <1>3 DEF Read, ReturnError
  <1>4. CASE r \notin left /\ Overrun(r)
    BY <1>2, <1>4 DEF Read, ReturnError
  <1>5. CASE r \notin left /\ ~Overrun(r) /\ written > pos[r]
    <2>. DEFINE n == Count(r, len)
    <2>1. n \in 1 .. (written - pos[r])
      BY <1>1, <1>5 DEF Count, Least
    <2>2. /\ got' = [got EXCEPT ![r] = got[r] \o Retained(r, n)]
          /\ pos' = [pos EXCEPT ![r] = pos[r] + n]
          /\ UNCHANGED <<res, waiting>>
      <3>1. ReturnBytes(r, n)
        BY <1>1, <1>5 DEF Read
      <3>. QED
        BY <3>1, Zenon DEF ReturnBytes
    <2>. HIDE DEF n
    <2>3. Retained(r, n) = [i \in 1 .. n |-> pos[r] + i]
      BY <1>5, <2>1, RetainedIsNext
    <2>4. got[r] \o Retained(r, n) = Prefix(pos[r] + n)
      <3>1. n \in Nat
        BY <1>1, <2>1
      <3>2. Prefix(pos[r]) \o [i \in 1 .. n |-> pos[r] + i] = Prefix(pos[r] + n)
        BY <1>1, <3>1, PrefixGrows
      <3>. QED
        BY <1>1, <2>3, <3>2, Zenon
    <2>. QED
      BY <1>2, <1>5, <2>1, <2>2, <2>4
  <1>6. CASE r \notin left /\ ~Overrun(r) /\ ~(written > pos[r]) /\ closed
    BY <1>1, <1>2, <1>6 DEF Read, ReturnError
  <1>7. CASE r \notin left /\ ~Overrun(r) /\ ~(written > pos[r]) /\ ~closed
    BY <1>1, <1>2, <1>7 DEF Read, readVars
  <1>. QED
    BY <1>3, <1>4, <1>5, <1>6, <1>7

LEMMA ReadInv ==
  ASSUME Inv, NEW r \in Readers, NEW len \in 1 .. MaxRead, Read(r, len)
  PROVE  Inv'
  <1>1. UNCHANGED <<buf, written, closed, readErr, writer, left>>
    BY DEF Read, ringVars
  <1>2. /\ waiting' \subseteq Readers
        /\ res' \in [Readers -> {"open", "eof", "truncated", "failed"}]
    BY ReadCases DEF Inv, Types
  <1>3. /\ pos' \in [Readers -> 0 .. MaxWritten]
        /\ got' \in [Readers -> Prefixes]
        /\ \A q \in Readers : pos'[q] <= written /\ got'[q] = Prefix(pos'[q])
    <2>1. CASE UNCHANGED <<pos, got>>
      BY <2>1 DEF Inv, Types, ReaderInv
    <2>2. CASE \E n \in 1 .. (written - pos[r]) :
                 /\ pos' = [pos EXCEPT ![r] = pos[r] + n]
                 /\ got' = [got EXCEPT ![r] = Prefix(pos[r] + n)]
      <3>1. PICK n \in 1 .. (written - pos[r]) :
                 /\ pos' = [pos EXCEPT ![r] = pos[r] + n]
                 /\ got' = [got EXCEPT ![r] = Prefix(pos[r] + n)]
        BY <2>2
      <3>2. pos \in [Readers -> 0 .. MaxWritten] /\ written \in 0 .. MaxWritten
              /\ MaxWritten \in Nat /\ ReaderInv
              /\ got \in [Readers -> Prefixes]
        BY LogRingAssumption DEF Inv, Types
      <3>3. /\ pos[r] + n \in 0 .. MaxWritten /\ pos[r] + n <= written
            /\ Prefix(pos[r] + n) \in Prefixes
        BY <3>1, <3>2 DEF Prefixes
      <3>. QED
        BY <3>1, <3>2, <3>3 DEF ReaderInv
    <2>. QED
      BY <2>1, <2>2, ReadCases
  <1>4. Types'
    BY <1>1, <1>2, <1>3 DEF Inv, Types
  <1>5. ReaderInv'
    BY <1>1, <1>3 DEF ReaderInv
  <1>. QED
    BY <1>1, <1>4, <1>5 DEF Inv, Holds, CloseInv, Slot

LEMMA NextInv ==
  ASSUME Inv, [Next]_vars
  PROVE  Inv'
  <1>1. ASSUME NEW n \in 1 .. (MaxWritten - written), Write(n)
        PROVE  Inv'
    BY <1>1, WriteInv
  <1>2. CASE StreamBreaks \/ CommandEnds
    BY <1>2, CloseKeepsInv
  <1>3. ASSUME NEW r \in Readers, CloseReader(r)
        PROVE  Inv'
    BY <1>3 DEF CloseReader, Broadcast, ringVars, readVars, Inv, Types, Holds, Slot,
                CloseInv, ReaderInv
  <1>4. ASSUME NEW r \in Readers, NEW len \in 1 .. MaxRead, Read(r, len)
        PROVE  Inv'
    BY <1>4, ReadInv
  <1>5. CASE UNCHANGED vars
    BY <1>5 DEF vars, ringVars, readVars, Inv, Types, Holds, Slot, CloseInv, ReaderInv
  <1>. QED
    BY <1>1, <1>2, <1>3, <1>4, <1>5 DEF Next

\* Each slot of the ring always holds the byte it should.
THEOREM Invariance == Spec => []Inv
  BY InitInv, NextInv, PTL DEF Spec

-----------------------------------------------------------------------------
(* Theorems.                                                               *)

\* The state of the ring, of its writer and of every reader stays well typed,
\* for every capacity and every set of readers.
THEOREM TypeCorrect == Spec => []TypeOK
  <1>1. Inv => TypeOK
    <2>1. ASSUME Inv, NEW r \in Readers
          PROVE  got[r] \in Seq(0 .. MaxWritten)
      <3>1. pos[r] \in 0 .. MaxWritten /\ MaxWritten \in Nat /\ got[r] = Prefix(pos[r])
        BY <2>1, LogRingAssumption DEF Inv, Types, ReaderInv
      <3>2. \A i \in 1 .. pos[r] : i \in 0 .. MaxWritten
        BY <3>1
      <3>. QED
        BY <3>1, <3>2 DEF Prefix
    <2>. QED
      BY <2>1 DEF Inv, Types, TypeOK
  <1>. QED
    BY <1>1, Invariance, PTL

\* GetCommandLogs always shows exactly the last bytes of the output, whatever
\* the lengths of the writes and the capacity.
THEOREM SnapshotIsTailEver == Spec => []SnapshotIsTail
  BY Invariance, InvSnapshot, PTL

-----------------------------------------------------------------------------
(* Refinement.                                                             *)

LEMMA ReadIsLogStep ==
  ASSUME Inv, NEW r \in Readers, NEW len \in 1 .. MaxRead, Read(r, len)
  PROVE  PlainLog!Next \/ UNCHANGED PlainLog!logVars
  <1>1. UNCHANGED <<written, closed, readErr, left>> /\ res[r] = "open"
    BY ReadCases DEF Read, ringVars
  <1>2. pos[r] \in Nat /\ written \in Nat /\ Size \in Nat \ {0} /\ pos[r] <= written
          /\ got[r] = Prefix(pos[r])
    BY LogRingAssumption DEF Inv, Types, ReaderInv
  <1>3. Len(got[r]) = pos[r]
    BY <1>2 DEF Prefix
  <1>4. PlainLog!Lost(r) <=> Overrun(r)
    BY <1>2, <1>3 DEF PlainLog!Lost, Overrun
  <1>5. CASE /\ r \notin left /\ ~Overrun(r)
             /\ \E n \in 1 .. (written - pos[r]) :
                  got' = [got EXCEPT ![r] = Prefix(pos[r] + n)]
             /\ UNCHANGED res
    <2>1. PICK n \in 1 .. (written - pos[r]) : got' = [got EXCEPT ![r] = Prefix(pos[r] + n)]
      BY <1>5
    <2>2. pos[r] + n \in (Len(got[r]) + 1) .. written
      BY <1>2, <1>3
    <2>3. PlainLog!Deliver(r)
      BY <1>1, <1>4, <1>5, <2>1, <2>2 DEF PlainLog!Deliver, Prefix
    <2>. QED
      BY <2>3 DEF PlainLog!Next
  <1>6. CASE /\ UNCHANGED got
             /\ \/ r \in left /\ res' = [res EXCEPT ![r] = "eof"]
                \/ Overrun(r) /\ res' = [res EXCEPT ![r] = "truncated"]
                \/ /\ written = pos[r] /\ closed
                   /\ res' = [res EXCEPT ![r] = IF readErr = "none" THEN "eof" ELSE readErr]
    <2>1. readErr \in {"none", "failed"}
      BY DEF Inv, Types
    <2>2. PlainLog!Finish(r)
      BY <1>1, <1>3, <1>4, <1>6, <2>1 DEF PlainLog!Finish
    <2>. QED
      BY <2>2 DEF PlainLog!Next
  <1>7. CASE UNCHANGED <<got, res>>
    BY <1>1, <1>7 DEF PlainLog!logVars
  <1>. QED
    BY <1>5, <1>6, <1>7, ReadCases

\* A step of the ring is one of the log, or changes nothing of it.
LEMMA StepIsLogStep ==
  ASSUME Inv, [Next]_vars
  PROVE  PlainLog!Next \/ UNCHANGED PlainLog!logVars
  <1>1. ASSUME NEW n \in 1 .. (MaxWritten - written), Write(n)
        PROVE  PlainLog!Next
    <2>1. written \in Nat /\ n \in Nat \ {0} /\ written' = written + n
      BY <1>1, LogRingAssumption DEF Inv, Types, Write
    <2>2. ~closed
      BY <1>1 DEF Inv, CloseInv, Write
    <2>3. PlainLog!Output
      BY <1>1, <2>1, <2>2 DEF PlainLog!Output, Write, readVars
    <2>. QED
      BY <2>3 DEF PlainLog!Next
  <1>2. CASE StreamBreaks \/ CommandEnds
    <2>1. UNCHANGED <<written, left, got, res>> /\ closed' = TRUE
      BY <1>2 DEF StreamBreaks, CommandEnds, CloseWithError, readVars
    <2>2. CASE closed
      <3>1. writer = "broken" /\ readErr = "failed"
        BY <1>2, <2>2 DEF Inv, CloseInv, StreamBreaks, CommandEnds
      <3>2. readErr' = "failed"
        BY <1>2, <3>1 DEF StreamBreaks, CommandEnds, CloseWithError
      <3>. QED
        BY <2>1, <2>2, <3>1, <3>2 DEF PlainLog!logVars
    <2>3. CASE ~closed
      <3>1. readErr' \in {"none", "failed"}
        BY <1>2 DEF StreamBreaks, CommandEnds, CloseWithError, Inv, Types
      <3>2. \E how \in {"complete", "failed"} : PlainLog!End(how)
        BY <2>1, <2>3, <3>1 DEF PlainLog!End
      <3>. QED
        BY <3>2 DEF PlainLog!Next
    <2>. QED
      BY <2>2, <2>3
  <1>3. ASSUME NEW r \in Readers, CloseReader(r)
        PROVE  PlainLog!Next
    <2>1. PlainLog!Leave(r)
      BY <1>3 DEF CloseReader, ringVars, readVars, PlainLog!Leave
    <2>. QED
      BY <2>1 DEF PlainLog!Next
  <1>4. ASSUME NEW r \in Readers, NEW len \in 1 .. MaxRead, Read(r, len)
        PROVE  PlainLog!Next \/ UNCHANGED PlainLog!logVars
    BY <1>4, ReadIsLogStep
  <1>5. CASE UNCHANGED vars
    BY <1>5 DEF vars, ringVars, readVars, PlainLog!logVars
  <1>. QED
    BY <1>1, <1>2, <1>3, <1>4, <1>5 DEF Next

\* The ring buffer implements a plain log: what a reader has received is always
\* the output from its first byte on, without a gap; the end is announced only
\* to a reader that has everything, and a loss only to one whose next byte is
\* gone.
THEOREM RingIsLog == Spec => IsLog
  <1>1. Init => PlainLog!Init
    BY DEF Init, PlainLog!Init
  <1>2. Inv /\ [Next]_vars => [PlainLog!Next]_(PlainLog!logVars)
    BY StepIsLogStep
  <1>. QED
    BY <1>1, <1>2, Invariance, PTL DEF Spec, IsLog, PlainLog!Spec

-----------------------------------------------------------------------------
(* Either runtime.                                                         *)

\* The n bytes after the f-th.
Stretch(f, n) == [i \in 1 .. n |-> f + i]

\* The last bytes of an output of w.
LastOf(w) == Stretch(w - Least(w, Size), Least(w, Size))

TailTypes ==
  /\ written \in 0 .. MaxWritten
  /\ closed \in BOOLEAN
  /\ writer \in {"copying", "ended"}
  /\ pos \in [Readers -> 0 .. MaxWritten]
  /\ left \subseteq Readers
  /\ waiting \subseteq Readers
  /\ got \in [Readers -> Prefixes]
  /\ res \in [Readers -> {"open", "eof", "truncated", "failed"}]

DoneInv == (closed <=> writer = "ended") /\ readErr = "none"

\* A reader at its select has not returned.
SelectInv == \A r \in waiting : res[r] = "open"

TailInv == TailTypes /\ data = LastOf(written) /\ DoneInv /\ SelectInv /\ ReaderInv

BothInv ==
  /\ runtime \in {"docker", "container"}
  /\ runtime = "docker" => Inv
  /\ runtime = "container" => TailInv

-----------------------------------------------------------------------------
(* Stretches.                                                              *)

LEMMA StretchTyped ==
  ASSUME NEW f \in Nat, NEW n \in Nat
  PROVE  Stretch(f, n) \in Seq(Nat) /\ Len(Stretch(f, n)) = n
  <1>1. \A i \in 1 .. n : f + i \in Nat
    OBVIOUS
  <1>. QED
    BY <1>1 DEF Stretch

\* A part of a stretch, and two that follow each other, are stretches.
LEMMA StretchPart ==
  ASSUME NEW f \in Nat, NEW n \in Nat, NEW m \in Nat, NEW k \in Nat, m + k <= n
  PROVE  SubSeq(Stretch(f, n), m + 1, m + k) = Stretch(f + m, k)
  <1>. DEFINE s == Stretch(f, n)
              t == Stretch(f + m, k)
  <1>1. /\ m + 1 \in 1 .. (n + 1) /\ m + k \in 0 .. n /\ m + k - (m + 1) + 1 = k
        /\ f + m \in Nat /\ (m + 1 <= m + k <=> k # 0)
    OBVIOUS
  <1>2. \A i \in (m + 1) .. (m + k) : s[i] \in Nat /\ s[i] = f + i
    BY DEF Stretch
  <1>3. \A i \in 1 .. k : t[i] = s[m + 1 + i - 1]
    BY <1>2 DEF Stretch
  <1>4. t \in Seq(Nat) /\ Len(t) = k
    BY <1>1, StretchTyped
  <1>. HIDE DEF s, t
  <1>5. /\ SubSeq(s, m + 1, m + k) \in Seq(Nat)
        /\ Len(SubSeq(s, m + 1, m + k)) = k
        /\ \A i \in 1 .. k : SubSeq(s, m + 1, m + k)[i] = s[m + 1 + i - 1]
    BY <1>1, <1>2, SubSeqProperties
  <1>6. SubSeq(s, m + 1, m + k) = t
    BY <1>3, <1>4, <1>5, SeqEqual
  <1>. QED
    BY <1>6 DEF s, t

LEMMA StretchJoin ==
  ASSUME NEW f \in Nat, NEW n \in Nat, NEW k \in Nat
  PROVE  Stretch(f, n) \o Stretch(f + n, k) = Stretch(f, n + k)
  <1>. DEFINE s == Stretch(f, n)
              t == Stretch(f + n, k)
              u == Stretch(f, n + k)
  <1>1. /\ s \in Seq(Nat) /\ Len(s) = n
        /\ t \in Seq(Nat) /\ Len(t) = k
        /\ u \in Seq(Nat) /\ Len(u) = n + k
    BY StretchTyped, f + n \in Nat, n + k \in Nat
  <1>2. \A i \in 1 .. (n + k) : u[i] = IF i <= n THEN s[i] ELSE t[i - n]
    BY DEF Stretch
  <1>. HIDE DEF s, t, u
  <1>3. /\ s \o t \in Seq(Nat)
        /\ Len(s \o t) = n + k
        /\ \A i \in 1 .. (n + k) : (s \o t)[i] = IF i <= n THEN s[i] ELSE t[i - n]
    BY <1>1, ConcatProperties
  <1>4. s \o t = u
    BY <1>1, <1>2, <1>3, SeqEqual
  <1>. QED
    BY <1>4 DEF s, t, u

-----------------------------------------------------------------------------
(* The buffer.                                                             *)

LEMMA LeastTyped ==
  ASSUME NEW w \in Nat
  PROVE  /\ Size \in Nat \ {0}
         /\ Least(w, Size) \in Nat /\ Least(w, Size) <= w /\ Least(w, Size) <= Size
         /\ Least(w, Size) = w \/ Least(w, Size) = Size
         /\ w - Least(w, Size) \in Nat
  BY LogRingAssumption DEF Least

LEMMA LastOfTyped ==
  ASSUME NEW w \in Nat
  PROVE  LastOf(w) \in Seq(Nat) /\ Len(LastOf(w)) = Least(w, Size)
  BY LeastTyped, StretchTyped DEF LastOf

\* Write keeps the last bytes, whichever of its branches it takes.
LEMMA WriteKeepsLast ==
  ASSUME NEW n \in Nat, n # 0, written \in Nat, data = LastOf(written)
  PROVE  (IF n >= Size THEN SubSeq(Piece(n), n - Size + 1, n) ELSE Kept(n) \o Piece(n))
           = LastOf(written + n)
  <1>. DEFINE L == Least(written, Size)
  <1>1. /\ Size \in Nat \ {0} /\ L \in Nat /\ L <= written /\ L <= Size
        /\ L = written \/ L = Size
        /\ data = Stretch(written - L, L) /\ written - L \in Nat /\ Len(data) = L
    BY LeastTyped, StretchTyped DEF LastOf
  <1>2. Piece(n) = Stretch(written, n)
    BY DEF Piece, Stretch
  <1>. HIDE DEF L
  <1>3. CASE n >= Size
    <2>. DEFINE m == n - Size
    <2>1. /\ m \in Nat /\ Size \in Nat /\ written \in Nat /\ n \in Nat
          /\ m + 1 = n - Size + 1 /\ m + Size = n /\ m + Size <= n
      BY <1>1, <1>3
    <2>2. Least(written + n, Size) = Size /\ (written + n) - Size = written + m
      BY <1>1, <1>3 DEF Least
    <2>. HIDE DEF m
    <2>3. SubSeq(Stretch(written, n), m + 1, m + Size) = Stretch(written + m, Size)
      <3>1. written \in Nat /\ n \in Nat /\ m \in Nat /\ Size \in Nat /\ m + Size <= n
        BY <2>1
      <3>. QED
        BY ONLY <3>1, StretchPart, ZenonT(40)
    <2>. QED
      BY <1>2, <1>3, <2>1, <2>2, <2>3 DEF LastOf
  <1>4. CASE ~(n >= Size) /\ L + n > Size
    <2>. DEFINE m == L + n - Size
                h == Size - n
                from == written - L
    <2>1. /\ m \in Nat /\ h \in Nat /\ from \in Nat /\ L \in Nat /\ from + m \in Nat
          /\ m + 1 = L + n - Size + 1 /\ m + h = L /\ m + h <= L
          /\ from + m + h = written /\ h + n = Size
      BY <1>1, <1>4
    <2>2. Least(written + n, Size) = Size /\ (written + n) - Size = from + m
      BY <1>1, <1>4 DEF Least
    <2>3. Kept(n) = SubSeq(data, m + 1, L) /\ data = Stretch(from, L)
      BY <1>1, <1>4, <2>1 DEF Kept
    <2>. HIDE DEF m, h, from
    <2>4. SubSeq(Stretch(from, L), m + 1, m + h) = Stretch(from + m, h)
      <3>1. from \in Nat /\ L \in Nat
        BY <2>1
      <3>2. \A p, q \in Nat :
              p + q <= L => SubSeq(Stretch(from, L), p + 1, p + q) = Stretch(from + p, q)
        BY ONLY <3>1, StretchPart, Zenon
      <3>. QED
        BY <2>1, <3>2, Zenon
    <2>5. Stretch(from + m, h) \o Stretch(from + m + h, n) = Stretch(from + m, h + n)
      <3>1. from + m \in Nat /\ h \in Nat /\ n \in Nat
        BY <2>1
      <3>. QED
        BY ONLY <3>1, StretchJoin, ZenonT(40)
    <2>6. Kept(n) \o Piece(n) = Stretch(from + m, Size)
      BY <1>2, <2>1, <2>3, <2>4, <2>5
    <2>. QED
      BY <1>4, <2>2, <2>6 DEF LastOf
  <1>5. CASE ~(n >= Size) /\ ~(L + n > Size)
    <2>1. L = written /\ written - L = 0 /\ written + n - (written + n) = 0
          /\ 0 + written = written
          /\ 0 \in Nat /\ written \in Nat /\ n \in Nat
      BY <1>1, <1>5
    <2>2. Least(written + n, Size) = written + n
      BY <1>1, <1>5, <2>1 DEF Least
    <2>3. Kept(n) = Stretch(0, written)
      BY <1>1, <1>5, <2>1 DEF Kept
    <2>4. Stretch(0, written) \o Stretch(0 + written, n) = Stretch(0, written + n)
      BY <2>1, StretchJoin, Zenon
    <2>. QED
      BY <1>2, <1>5, <2>1, <2>2, <2>3, <2>4 DEF LastOf
  <1>. QED
    BY <1>3, <1>4, <1>5

-----------------------------------------------------------------------------
(* The invariant.                                                          *)

LEMMA BothInit ==
  ASSUME TailInit
  PROVE  BothInv
  <1>1. Inv
    BY InitInv DEF TailInit
  <1>2. /\ written = 0 /\ data = <<>> /\ closed = FALSE /\ readErr = "none"
        /\ writer = "copying" /\ waiting = {} /\ runtime \in {"docker", "container"}
    BY Zenon DEF TailInit, Init
  <1>3. TailTypes /\ ReaderInv
    BY <1>1, <1>2 DEF Inv, Types, TailTypes
  <1>4. data = LastOf(written)
    BY <1>2, LeastTyped DEF LastOf, Stretch
  <1>. QED
    BY <1>1, <1>2, <1>3, <1>4 DEF BothInv, TailInv, DoneInv, SelectInv

LEMMA TailWriteInv ==
  ASSUME TailInv, NEW n \in 1 .. (MaxWritten - written), TailWrite(n)
  PROVE  TailInv'
  <1>1. /\ written \in Nat /\ n \in Nat /\ n # 0 /\ written + n \in 0 .. MaxWritten
        /\ written' = written + n
    BY LogRingAssumption DEF TailInv, TailTypes, TailWrite
  <1>2. UNCHANGED <<closed, readErr, writer, left, waiting, pos, got, res>>
    BY DEF TailWrite, readVars
  <1>3. data' = LastOf(written + n)
    BY <1>1, WriteKeepsLast DEF TailInv, TailWrite
  <1>4. data' = LastOf(written)'
    BY <1>1, <1>3 DEF LastOf, Stretch, Least
  <1>5. TailTypes'
    BY <1>1, <1>2 DEF TailInv, TailTypes
  <1>6. ReaderInv'
    BY <1>1, <1>2 DEF TailInv, TailTypes, ReaderInv
  <1>. QED
    BY <1>2, <1>4, <1>5, <1>6 DEF TailInv, DoneInv, SelectInv

\* What the first half of a reader's loop does.
LEMMA TailReadCases ==
  ASSUME TailInv, NEW r \in Readers, NEW len \in 1 .. MaxRead, TailRead(r, len)
  PROVE  /\ res[r] = "open" /\ r \notin waiting
         /\ \/ /\ r \notin left /\ ~TailOverrun(r)
               /\ \E n \in 1 .. (written - pos[r]) :
                    /\ pos' = [pos EXCEPT ![r] = pos[r] + n]
                    /\ got' = [got EXCEPT ![r] = Prefix(pos[r] + n)]
               /\ UNCHANGED <<res, waiting>>
            \/ /\ UNCHANGED <<pos, got, waiting>>
               /\ \/ r \in left /\ res' = [res EXCEPT ![r] = "eof"]
                  \/ TailOverrun(r) /\ res' = [res EXCEPT ![r] = "truncated"]
            \/ waiting' = waiting \cup {r} /\ UNCHANGED <<pos, got, res>>
  <1>1. /\ pos[r] \in Nat /\ written \in Nat /\ pos[r] <= written /\ len \in Nat
        /\ len >= 1 /\ got[r] = Prefix(pos[r])
    BY LogRingAssumption DEF TailInv, TailTypes, ReaderInv
  <1>2. res[r] = "open" /\ r \notin waiting
    BY DEF TailRead
  <1>3. CASE r \in left
    BY <1>2, <1>3 DEF TailRead, ReturnError
  <1>4. CASE r \notin left /\ TailOverrun(r)
    BY <1>2, <1>4 DEF TailRead, ReturnError
  <1>5. CASE r \notin left /\ ~TailOverrun(r) /\ written > pos[r]
    <2>. DEFINE n == Count(r, len)
    <2>1. n \in 1 .. (written - pos[r])
      BY <1>1, <1>5 DEF Count, Least
    <2>2. TailBytes(r, n)
      BY <1>1, <1>5 DEF TailRead
    <2>. HIDE DEF n
    <2>3. SubSeq(data, pos[r] - First + 1, pos[r] - First + n) = Stretch(pos[r], n)
      <3>. DEFINE L == Least(written, Size)
                  from == written - L
                  m == pos[r] - from
      <3>1. /\ L \in Nat /\ from \in Nat /\ data = Stretch(from, L) /\ First = from
        BY <1>1, LeastTyped, StretchTyped DEF TailInv, LastOf, First
      <3>2. /\ m \in Nat /\ n \in Nat /\ m + n <= L /\ from + m = pos[r]
        BY <1>1, <1>5, <2>1, <3>1 DEF TailOverrun
      <3>3. pos[r] - First = m
        BY <3>1
      <3>. HIDE DEF L, from, m
      <3>4. \A p, q \in Nat :
              p + q <= L => SubSeq(Stretch(from, L), p + 1, p + q) = Stretch(from + p, q)
        BY ONLY <3>1, StretchPart, Zenon
      <3>5. SubSeq(Stretch(from, L), m + 1, m + n) = Stretch(from + m, n)
        BY <3>2, <3>4, Zenon
      <3>. QED
        BY <3>1, <3>2, <3>3, <3>5, Zenon
    <2>4. Prefix(pos[r]) \o Stretch(pos[r], n) = Prefix(pos[r] + n)
      <3>1. n \in Nat
        BY <1>1, <2>1
      <3>2. Prefix(pos[r]) \o [i \in 1 .. n |-> pos[r] + i] = Prefix(pos[r] + n)
        BY <1>1, <3>1, PrefixGrows
      <3>. QED
        BY <3>2, Zenon DEF Stretch
    <2>5. got' = [got EXCEPT ![r] = Prefix(pos[r] + n)]
      <3>1. got' = [got EXCEPT ![r] =
                      got[r] \o SubSeq(data, pos[r] - First + 1, pos[r] - First + n)]
        BY <2>2, Zenon DEF TailBytes
      <3>2. got[r] \o Stretch(pos[r], n) = Prefix(pos[r] + n)
        BY <1>1, <2>4, Zenon
      <3>. QED
        BY <2>3, <3>1, <3>2, Zenon
    <2>. QED
      BY <1>2, <1>5, <2>1, <2>2, <2>5 DEF TailBytes
  <1>6. CASE r \notin left /\ ~TailOverrun(r) /\ ~(written > pos[r])
    BY <1>1, <1>2, <1>6 DEF TailRead, readVars
  <1>. QED
    BY <1>3, <1>4, <1>5, <1>6

LEMMA TailReadInv ==
  ASSUME TailInv, NEW r \in Readers, NEW len \in 1 .. MaxRead, TailRead(r, len)
  PROVE  TailInv'
  <1>1. UNCHANGED <<written, closed, readErr, writer, left, data>>
    BY DEF TailRead, ringVars
  <1>2. /\ waiting' \subseteq Readers
        /\ res' \in [Readers -> {"open", "eof", "truncated", "failed"}]
        /\ \A q \in waiting' : res'[q] = "open"
    BY TailReadCases DEF TailInv, TailTypes, SelectInv
  <1>3. /\ pos' \in [Readers -> 0 .. MaxWritten]
        /\ got' \in [Readers -> Prefixes]
        /\ \A q \in Readers : pos'[q] <= written /\ got'[q] = Prefix(pos'[q])
    <2>1. CASE UNCHANGED <<pos, got>>
      BY <2>1 DEF TailInv, TailTypes, ReaderInv
    <2>2. CASE \E n \in 1 .. (written - pos[r]) :
                 /\ pos' = [pos EXCEPT ![r] = pos[r] + n]
                 /\ got' = [got EXCEPT ![r] = Prefix(pos[r] + n)]
      <3>1. PICK n \in 1 .. (written - pos[r]) :
                 /\ pos' = [pos EXCEPT ![r] = pos[r] + n]
                 /\ got' = [got EXCEPT ![r] = Prefix(pos[r] + n)]
        BY <2>2
      <3>2. pos \in [Readers -> 0 .. MaxWritten] /\ written \in 0 .. MaxWritten
              /\ MaxWritten \in Nat /\ ReaderInv
              /\ got \in [Readers -> Prefixes]
        BY LogRingAssumption DEF TailInv, TailTypes
      <3>3. /\ pos[r] + n \in 0 .. MaxWritten /\ pos[r] + n <= written
            /\ Prefix(pos[r] + n) \in Prefixes
        BY <3>1, <3>2 DEF Prefixes
      <3>. QED
        BY <3>1, <3>2, <3>3 DEF ReaderInv
    <2>. QED
      BY <2>1, <2>2, TailReadCases
  <1>4. TailTypes'
    BY <1>1, <1>2, <1>3 DEF TailInv, TailTypes
  <1>5. ReaderInv'
    BY <1>1, <1>3 DEF ReaderInv
  <1>6. data' = LastOf(written)'
    BY <1>1 DEF TailInv, LastOf, Stretch, Least
  <1>. QED
    BY <1>1, <1>2, <1>4, <1>5, <1>6 DEF TailInv, DoneInv, SelectInv

LEMMA TailNextInv ==
  ASSUME TailInv, [TailNext]_<<vars, data>>
  PROVE  TailInv'
  <1>1. ASSUME NEW n \in 1 .. (MaxWritten - written), TailWrite(n)
        PROVE  TailInv'
    BY <1>1, TailWriteInv
  <1>2. CASE TailDone
    BY <1>2 DEF TailDone, readVars, TailInv, TailTypes, DoneInv, SelectInv, ReaderInv,
                LastOf, Stretch, Least
  <1>3. ASSUME NEW r \in Readers, PollEnds(r) \/ PollAgain(r) \/ TailClose(r)
        PROVE  TailInv'
    BY <1>3 DEF PollEnds, PollAgain, TailClose, ringVars, readVars, TailInv, TailTypes,
                DoneInv, SelectInv, ReaderInv, LastOf, Stretch, Least
  <1>4. ASSUME NEW r \in Readers, NEW len \in 1 .. MaxRead, TailRead(r, len)
        PROVE  TailInv'
    BY <1>4, TailReadInv
  <1>5. CASE UNCHANGED <<vars, data>>
    BY <1>5 DEF vars, ringVars, readVars, TailInv, TailTypes, DoneInv, SelectInv,
                ReaderInv, LastOf, Stretch, Least
  <1>. QED
    BY <1>1, <1>2, <1>3, <1>4, <1>5 DEF TailNext

LEMMA BothNext ==
  ASSUME BothInv, [LogNext]_tailVars
  PROVE  BothInv'
  <1>1. runtime' = runtime
    BY DEF LogNext, tailVars
  <1>2. CASE runtime = "docker"
    <2>1. [Next]_vars
      BY <1>2 DEF LogNext, tailVars
    <2>. QED
      BY <1>1, <1>2, <2>1, NextInv DEF BothInv
  <1>3. CASE runtime = "container"
    <2>1. [TailNext]_<<vars, data>>
      BY <1>3 DEF LogNext, tailVars
    <2>. QED
      BY <1>1, <1>3, <2>1, TailNextInv DEF BothInv
  <1>. QED
    BY <1>2, <1>3 DEF BothInv

\* So does the buffer of either runtime, with the readers that poll it.
THEOREM BothInvariance == LogSpec => []BothInv
  BY BothInit, BothNext, PTL DEF LogSpec

-----------------------------------------------------------------------------
(* Theorems.                                                               *)

\* GetCommandLogs shows exactly the last bytes of the output under either
\* runtime, whatever the lengths of the writes and the capacity.
THEOREM SnapshotsAreTailsEver == LogSpec => []SnapshotsAreTails
  <1>1. BothInv => SnapshotsAreTails
    <2>1. CASE BothInv /\ runtime = "docker"
      BY <2>1, InvSnapshot DEF BothInv, SnapshotIsTail, SnapshotsAreTails, Snapshot
    <2>2. CASE BothInv /\ runtime = "container"
      BY <2>2 DEF BothInv, TailInv, LastOf, Stretch, SnapshotsAreTails, Snapshot
    <2>. QED
      BY <2>1, <2>2 DEF BothInv
  <1>. QED
    BY <1>1, BothInvariance, PTL

\* A step of the Apple client's buffer is one of the log.
LEMMA TailStepIsLogStep ==
  ASSUME TailInv, [TailNext]_<<vars, data>>
  PROVE  PlainLog!Next \/ UNCHANGED PlainLog!logVars
  <1>1. /\ written \in Nat /\ Size \in Nat \ {0} /\ readErr = "none"
        /\ \A r \in Readers :
             pos[r] \in Nat /\ pos[r] <= written /\ got[r] = Prefix(pos[r])
    BY LogRingAssumption DEF TailInv, TailTypes, DoneInv, ReaderInv
  <1>2. ASSUME NEW r \in Readers
        PROVE  Len(got[r]) = pos[r] /\ (PlainLog!Lost(r) <=> TailOverrun(r))
    <2>1. Len(got[r]) = pos[r]
      <3>1. pos[r] \in Nat /\ got[r] = Prefix(pos[r])
        BY <1>1
      <3>. QED
        BY <3>1 DEF Prefix
    <2>2. First = written - Least(written, Size)
      BY <1>1, LastOfTyped DEF TailInv, First
    <2>. QED
      BY <1>1, <2>1, <2>2 DEF PlainLog!Lost, TailOverrun, Least
  <1>3. ASSUME NEW n \in 1 .. (MaxWritten - written), TailWrite(n)
        PROVE  PlainLog!Next
    <2>1. n \in Nat \ {0} /\ written' = written + n /\ ~closed
      BY <1>3, LogRingAssumption DEF TailInv, TailTypes, DoneInv, TailWrite
    <2>2. PlainLog!Output
      BY <1>1, <1>3, <2>1 DEF PlainLog!Output, TailWrite, readVars
    <2>. QED
      BY <2>2 DEF PlainLog!Next
  <1>4. CASE TailDone
    <2>1. ~closed
      BY <1>4 DEF TailDone, TailInv, DoneInv
    <2>2. PlainLog!End("complete")
      BY <1>1, <1>4, <2>1 DEF TailDone, readVars, PlainLog!End
    <2>. QED
      BY <2>2 DEF PlainLog!Next
  <1>5. ASSUME NEW r \in Readers, PollEnds(r)
        PROVE  PlainLog!Next
    <2>1. res[r] = "open"
      BY <1>5 DEF PollEnds, TailInv, SelectInv
    <2>2. PlainLog!Finish(r)
      BY <1>1, <1>2, <1>5, <2>1 DEF PollEnds, Ends, ringVars, PlainLog!Finish
    <2>. QED
      BY <2>2 DEF PlainLog!Next
  <1>6. ASSUME NEW r \in Readers, PollAgain(r)
        PROVE  UNCHANGED PlainLog!logVars
    BY <1>6 DEF PollAgain, ringVars, readVars, PlainLog!logVars
  <1>7. ASSUME NEW r \in Readers, TailClose(r)
        PROVE  PlainLog!Next
    <2>1. PlainLog!Leave(r)
      BY <1>7 DEF TailClose, ringVars, readVars, PlainLog!Leave
    <2>. QED
      BY <2>1 DEF PlainLog!Next
  <1>8. ASSUME NEW r \in Readers, NEW len \in 1 .. MaxRead, TailRead(r, len)
        PROVE  PlainLog!Next \/ UNCHANGED PlainLog!logVars
    <2>1. UNCHANGED <<written, closed, readErr, left>> /\ res[r] = "open"
      BY <1>8, TailReadCases DEF TailRead, ringVars
    <2>2. CASE /\ r \notin left /\ ~TailOverrun(r)
               /\ \E n \in 1 .. (written - pos[r]) :
                    got' = [got EXCEPT ![r] = Prefix(pos[r] + n)]
               /\ UNCHANGED res
      <3>1. PICK n \in 1 .. (written - pos[r]) : got' = [got EXCEPT ![r] = Prefix(pos[r] + n)]
        BY <2>2
      <3>2. pos[r] + n \in (Len(got[r]) + 1) .. written
        BY <1>1, <1>2
      <3>3. PlainLog!Deliver(r)
        BY <1>2, <2>1, <2>2, <3>1, <3>2 DEF PlainLog!Deliver, Prefix
      <3>. QED
        BY <3>3 DEF PlainLog!Next
    <2>3. CASE /\ UNCHANGED got
               /\ \/ r \in left /\ res' = [res EXCEPT ![r] = "eof"]
                  \/ TailOverrun(r) /\ res' = [res EXCEPT ![r] = "truncated"]
      <3>1. PlainLog!Finish(r)
        BY <1>2, <2>1, <2>3 DEF PlainLog!Finish
      <3>. QED
        BY <3>1 DEF PlainLog!Next
    <2>4. CASE UNCHANGED <<got, res>>
      BY <2>1, <2>4 DEF PlainLog!logVars
    <2>. QED
      BY <1>8, <2>2, <2>3, <2>4, TailReadCases
  <1>9. CASE UNCHANGED <<vars, data>>
    BY <1>9 DEF vars, ringVars, readVars, PlainLog!logVars
  <1>. QED
    BY <1>3, <1>4, <1>5, <1>6, <1>7, <1>8, <1>9 DEF TailNext

\* The ring of the Docker client and the sliding buffer of the Apple client,
\* with its polling readers, implement the same log: nothing is repeated,
\* reordered or skipped, the end is announced only to a reader that has
\* everything, and a loss only to one whose next byte is gone.
THEOREM EitherIsLog == LogSpec => IsLog
  <1>1. TailInit => PlainLog!Init
    BY DEF TailInit, Init, PlainLog!Init
  <1>2. BothInv /\ [LogNext]_tailVars => [PlainLog!Next]_(PlainLog!logVars)
    <2>. SUFFICES ASSUME BothInv, [LogNext]_tailVars
                  PROVE  PlainLog!Next \/ UNCHANGED PlainLog!logVars
      OBVIOUS
    <2>1. CASE runtime = "docker"
      <3>1. [Next]_vars
        BY <2>1 DEF LogNext, tailVars
      <3>. QED
        BY <2>1, <3>1, StepIsLogStep DEF BothInv
    <2>2. CASE runtime = "container"
      <3>1. [TailNext]_<<vars, data>>
        BY <2>2 DEF LogNext, tailVars
      <3>. QED
        BY <2>2, <3>1, TailStepIsLogStep DEF BothInv
    <2>. QED
      BY <2>1, <2>2 DEF BothInv
  <1>. QED
    BY <1>1, <1>2, BothInvariance, PTL DEF LogSpec, IsLog, PlainLog!Spec
=============================================================================
