-------------------------- MODULE EventStreamProofs --------------------------
(***************************************************************************)
(* Type correctness, exact in-order delivery and the budget rule of        *)
(* EventStream, for every budget and every length of the log.              *)
(***************************************************************************)
EXTENDS EventStream, TLAPS

\* How the budget charged relates to the reconnects since the last event: they
\* agree except between an event and the end of its connection.
BudgetInv ==
    /\ pc = "pump" /\ delivered => barren = 0
    /\ pc \in {"open", "wait"} \/ (pc = "pump" /\ ~delivered) \/ result = "lost" => barren = fails
    /\ pc # "done" => fails <= Budget
    /\ result = "lost" => fails = Budget + 1

\* What a connection has read beyond the cursor has been yielded.
AheadInv == pc = "pump" => \A k \in cursor + 1 .. pos : k \in seen

StreamInv == TypeOK /\ InOrder /\ CursorExact /\ AheadInv /\ BudgetInv

\* The steps of one connection up to the end of a block; those left of the one at hand.
AttemptSteps == 5
AttemptLeft ==
    CASE pc = "wait" -> AttemptSteps
      [] pc = "open" -> 4
      [] pc = "pump" -> 3 - lines
      [] pc = "done" -> 0

\* The reconnects charged if the connection ended now, and the steps left before the
\* feed moves past one more event or is given up.
Charged    == IF pc = "pump" /\ delivered THEN 0 ELSE fails
EventSteps == (Budget + 1) * AttemptSteps
EventLeft  == (Budget - Charged) * AttemptSteps + AttemptLeft

\* What is left of the iteration if the server appends no more.
Unread    == Len(log) - (IF pc = "pump" THEN pos ELSE cursor)
StepsLeft == IF pc = "done" THEN 0 ELSE Unread * EventSteps + EventLeft

\* Every step of the iteration brings its end nearer, except the end of a connection
\* whose last events have no id and will be sent again; the caller's context does not
\* put it off, and an event the server appends by one event's worth of steps.
FeedNearsEnd ==
    [][/\ (Open \/ Read \/ StreamEnds \/ StreamWait) /\ ~Repeats => StepsLeft' < StepsLeft
       /\ Cancel => StepsLeft' = StepsLeft
       /\ (\E kind \in Kinds : ServerAppend(kind)) /\ pc # "done" =>
            StepsLeft' = StepsLeft + EventSteps]_vars

\* Per event after the caller's Last-Event-ID the feed is opened at most Budget + 1
\* times, once more for what comes after the last.
FeedBounded == StepsLeft \in 0 .. (Len(log) - start + 1) * EventSteps

USE StreamAssumption

\* A fresh feed has yielded nothing and its cursor is the caller's.
LEMMA StreamInitInv == Init => StreamInv
<1> SUFFICES ASSUME Init PROVE StreamInv
  OBVIOUS
<1>1. log \in Seq(Kinds) /\ Len(log) = 1
  <2>1. log = <<"event">> \/ log = <<"malformed">>
    BY DEF Init
  <2>2. CASE log = <<"event">>
    BY <2>2 DEF Kinds
  <2>3. CASE log = <<"malformed">>
    BY <2>3 DEF Kinds
  <2> QED
    BY <2>1, <2>2, <2>3
<1>2. TypeOK
  <2>1. out \in Seq(Nat) /\ start \in 0 .. 1
    BY DEF Init
  <2>2. delivered \in BOOLEAN /\ cancelled \in BOOLEAN
    BY Zenon DEF Init
  <2> QED
    BY <1>1, <2>1, <2>2 DEF Init, TypeOK, Results
<1>3. InOrder /\ CursorExact /\ AheadInv
  BY <1>1 DEF Init, InOrder, CursorExact, AheadInv
<1>4. BudgetInv
  BY DEF Init, BudgetInv
<1> QED
  BY <1>2, <1>3, <1>4 DEF StreamInv

\* An appended event changes no earlier one.
LEMMA AppendInv ==
  ASSUME StreamInv, NEW kind \in Kinds, ServerAppend(kind) PROVE StreamInv'
<1> USE DEF StreamInv
<1>1. /\ log' \in Seq(Kinds) /\ Len(log') = Len(log) + 1 /\ Len(log) \in Nat
      /\ \A k \in 1 .. Len(log) : log'[k] = log[k]
  BY DEF TypeOK, ServerAppend
<1>2. TypeOK'
  <2>1. pc = "pump" => \A k \in cursor + 1 .. pos : log'[k] = log[k]
    BY <1>1 DEF TypeOK
  <2> QED
    BY <1>1, <2>1 DEF TypeOK, ServerAppend, conn
<1>3. InOrder'
  BY DEF InOrder, ServerAppend, conn
<1>4. \A k \in start + 1 .. cursor : k \in 1 .. Len(log)
  BY <1>1 DEF TypeOK
<1>5. CursorExact' /\ AheadInv'
  BY <1>1, <1>4 DEF CursorExact, Numbered, AheadInv, ServerAppend, conn
<1>6. BudgetInv'
  BY DEF BudgetInv, ServerAppend, conn
<1> QED
  BY <1>2, <1>3, <1>5, <1>6

\* Steps that leave the log, the cursor and what was yielded alone keep delivery exact.
LEMMA QuietDelivery ==
  ASSUME InOrder, CursorExact, UNCHANGED <<log, start, cursor, out, seen>>
  PROVE  InOrder' /\ CursorExact'
BY DEF InOrder, CursorExact, Numbered

\* Cancelling, opening, a line, the end of a connection and a backoff.
LEMMA ConnectionInv ==
  ASSUME StreamInv,
         Cancel \/ OpenOK \/ OpenFault \/ OpenRefused \/ ReadLine \/ StreamEnds \/ StreamWait
  PROVE  StreamInv'
<1> USE DEF StreamInv
<1>1. InOrder' /\ CursorExact'
  BY QuietDelivery DEF Cancel, OpenOK, OpenFault, OpenRefused, ReadLine, StreamEnds, StreamWait
<1>a. AheadInv'
  BY DEF Cancel, OpenOK, OpenFault, OpenRefused, ReadLine, StreamEnds, StreamWait, StreamRetry,
     Return, AheadInv, TypeOK, conn
<1>2. CASE Cancel
  BY <1>1, <1>a, <1>2 DEF Cancel, TypeOK, BudgetInv, conn
<1>3. CASE OpenOK
  <2>0. delivered' \in BOOLEAN
    BY <1>3, Zenon DEF OpenOK
  <2>1. TypeOK'
    BY <1>3, <2>0 DEF OpenOK, TypeOK
  <2>2. BudgetInv'
    BY <1>3 DEF OpenOK, TypeOK, BudgetInv, conn
  <2> QED
    BY <1>1, <1>a, <2>1, <2>2
<1>4. CASE OpenFault
  <2>1. TypeOK'
    BY <1>4 DEF OpenFault, StreamRetry, Return, TypeOK, BudgetInv, Results, conn
  <2>2. BudgetInv'
    BY <1>4 DEF OpenFault, StreamRetry, Return, TypeOK, BudgetInv, conn
  <2> QED
    BY <1>1, <1>a, <2>1, <2>2
<1>5. CASE OpenRefused
  BY <1>1, <1>a, <1>5 DEF OpenRefused, Return, TypeOK, BudgetInv, Results, conn
<1>6. CASE ReadLine
  BY <1>1, <1>a, <1>6 DEF ReadLine, TypeOK, BudgetInv
<1>7. CASE StreamEnds
  BY <1>1, <1>a, <1>7 DEF StreamEnds, StreamRetry, Return, TypeOK, BudgetInv, Results, conn
<1>8. CASE StreamWait
  BY <1>1, <1>a, <1>8 DEF StreamWait, Return, TypeOK, BudgetInv, Results, conn
<1> QED
  BY <1>2, <1>3, <1>4, <1>5, <1>6, <1>7, <1>8

\* A skipped block moves the cursor past something that was never to be yielded.
LEMMA SkipInv == ASSUME StreamInv, SkipBlock PROVE StreamInv'
<1> USE DEF StreamInv
<1>1. TypeOK'
  BY DEF SkipBlock, EndBlock, Block, TypeOK
<1>2. InOrder'
  BY DEF SkipBlock, EndBlock, InOrder
<1>3. /\ pc = "pump" /\ cursor' = pos + 1 /\ pos' = pos + 1 /\ log[pos + 1] = "malformed"
      /\ cursor \in Int /\ pos \in Int /\ start \in Int /\ start <= cursor /\ cursor <= pos
      /\ UNCHANGED <<log, start, out, seen>>
  BY DEF SkipBlock, EndBlock, Block, TypeOK
<1>4. \A k \in cursor + 1 .. pos : log[k] = "bare" /\ k \in seen
  BY <1>3 DEF TypeOK, AheadInv
<1>5. CursorExact'
  <2>1. { k \in start + 1 .. pos + 1 : Numbered(k) } = { k \in start + 1 .. cursor : Numbered(k) }
    BY <1>3, <1>4 DEF Numbered
  <2>2. \A k \in start + 1 .. pos + 1 : log[k] = "bare" => k \in seen
    BY <1>3, <1>4 DEF CursorExact
  <2> QED
    BY <1>3, <2>1, <2>2 DEF CursorExact, Numbered
<1>6. AheadInv'
  BY <1>3 DEF AheadInv
<1>7. BudgetInv'
  BY DEF SkipBlock, EndBlock, BudgetInv
<1> QED
  BY <1>1, <1>2, <1>5, <1>6, <1>7

\* A yielded block is the next one: it follows everything yielded before, and of the
\* events without an id only those after the cursor can come again.
LEMMA YieldInv == ASSUME StreamInv, YieldBlock PROVE StreamInv'
<1> USE DEF StreamInv
<1>2. /\ pc = "pump" /\ pos' = pos + 1 /\ log[pos + 1] # "malformed"
      /\ log' = log /\ start' = start /\ pos + 1 \in 1 .. Len(log) /\ pos + 1 \in start + 1 .. Len(log)
      /\ cursor \in Int /\ pos \in Int /\ start \in Int /\ start <= cursor /\ cursor <= pos
      /\ Len(log) \in Nat /\ pos + 1 \in Nat /\ out \in Seq(Nat)
      /\ seen \subseteq start + 1 .. Len(log)
  BY DEF YieldBlock, EndBlock, Block, TypeOK
<1>3. \A k \in cursor + 1 .. pos : log[k] = "bare" /\ k \in seen
  BY <1>2 DEF TypeOK, AheadInv
<1>4. \/ /\ log[pos + 1] = "bare" /\ cursor' = cursor
         /\ out' = out /\ seen' = seen \cup {pos + 1}
      \/ /\ log[pos + 1] # "bare" /\ cursor' = pos + 1
         /\ out' = Append(out, pos + 1) /\ seen' = seen
  BY DEF YieldBlock, EndBlock, Block
<1>1. TypeOK'
  <2>0. delivered' \in BOOLEAN
    BY Zenon DEF YieldBlock
  <2>1. out' \in Seq(Nat) /\ barren' \in 0 .. Budget + 1
    <3>1. Append(out, pos + 1) \in Seq(Nat)
      BY <1>2
    <3> QED
      BY <1>2, <1>4, <3>1 DEF YieldBlock
  <2>2. pc' \in {"pump", "done"} /\ result' \in Results /\ (pc' = "done" <=> result' # "none")
    BY DEF YieldBlock, EndBlock, Return, TypeOK, Results
  <2>3. cursor' <= pos' /\ \A k \in cursor' + 1 .. pos' : log'[k] = "bare"
    BY <1>2, <1>3, <1>4
  <2>4. cursor' \in start' .. Len(log') /\ pos' \in start' .. Len(log')
        /\ seen' \subseteq start' + 1 .. Len(log')
    <3>1. cursor' \in {cursor, pos + 1} /\ seen' \subseteq seen \cup {pos + 1}
      BY <1>4
    <3> QED
      BY <1>2, <3>1
  <2>5. /\ log' \in Seq(Kinds) /\ start' \in Nat /\ start' <= Len(log') /\ lines' \in 0 .. 2
        /\ fails' \in 0 .. Budget + 1 /\ cancelled' \in BOOLEAN
    BY DEF YieldBlock, EndBlock, TypeOK
  <2> QED
    BY <2>0, <2>1, <2>2, <2>3, <2>4, <2>5 DEF TypeOK
<1>5. \A i \in 1 .. Len(out) : out[i] \in start + 1 .. cursor
  BY DEF CursorExact
<1>6. InOrder' /\ CursorExact'
  <2>1. CASE log[pos + 1] = "bare"
    BY <1>2, <1>4, <2>1 DEF InOrder, CursorExact, Numbered
  <2>2. CASE log[pos + 1] # "bare"
    <3>1. /\ Len(out') = Len(out) + 1 /\ Len(out) \in Nat
          /\ \A i \in 1 .. Len(out) : out'[i] = out[i]
          /\ out'[Len(out) + 1] = pos + 1
      <4>1. out' = Append(out, pos + 1)
        BY <1>4, <2>2
      <4> QED
        BY <1>2, <4>1
    <3>2. InOrder'
      <4> SUFFICES ASSUME NEW i \in 1 .. Len(out'), NEW j \in 1 .. Len(out'), i < j
                   PROVE  out'[i] < out'[j]
        BY DEF InOrder
      <4>1. CASE j = Len(out) + 1
        BY <1>2, <1>5, <3>1, <4>1
      <4>2. CASE j # Len(out) + 1
        BY <3>1, <4>2 DEF InOrder
      <4> QED
        BY <4>1, <4>2
    <3>3. { k \in start + 1 .. pos + 1 : Numbered(k) }
            = { k \in start + 1 .. cursor : Numbered(k) } \cup {pos + 1}
      BY <1>2, <1>3, <2>2 DEF Numbered
    <3>4. { out'[i] : i \in 1 .. Len(out') } = { out[i] : i \in 1 .. Len(out) } \cup {pos + 1}
      BY <3>1
    <3>5. \A k \in start + 1 .. pos + 1 : log[k] = "bare" => k \in seen
      BY <1>2, <1>3, <2>2 DEF CursorExact
    <3> QED
      BY <1>2, <1>4, <2>2, <3>2, <3>3, <3>4, <3>5 DEF CursorExact, Numbered
  <2> QED
    BY <2>1, <2>2
<1>7. AheadInv'
  BY <1>2, <1>3, <1>4 DEF AheadInv
<1>8. BudgetInv'
  BY DEF YieldBlock, EndBlock, Return, BudgetInv, TypeOK
<1> QED
  BY <1>1, <1>6, <1>7, <1>8

\* StreamInv is inductive.
LEMMA StreamInductive == Spec => []StreamInv
<1>1. StreamInv /\ [Next]_vars => StreamInv'
  <2> SUFFICES ASSUME StreamInv, [Next]_vars PROVE StreamInv'
    OBVIOUS
  <2>1. CASE Open \/ ReadLine \/ StreamEnds \/ StreamWait \/ Cancel
    BY <2>1, ConnectionInv DEF Open
  <2>2. CASE SkipBlock
    BY <2>2, SkipInv
  <2>3. CASE YieldBlock
    BY <2>3, YieldInv
  <2>4. CASE \E kind \in Kinds : ServerAppend(kind)
    BY <2>4, AppendInv
  <2>5. CASE UNCHANGED vars
    BY <2>5 DEF StreamInv, TypeOK, InOrder, CursorExact, Numbered, AheadInv, BudgetInv, vars, conn
  <2> QED
    BY <2>1, <2>2, <2>3, <2>4, <2>5 DEF Next, Read
<1> QED
  BY StreamInitInv, <1>1, PTL DEF Spec

\* Every variable keeps its type, and on a connection nothing but blocks without an id
\* separates the cursor from the last block read whole (pumpFrames).
THEOREM StreamTypeCorrect == Spec => []TypeOK
BY StreamInductive, PTL DEF StreamInv

\* resumeStream yields every decodable event up to its cursor, each that has an id
\* exactly once and in the order of the feed, wherever connections end; only events
\* without an id can come again.
THEOREM ExactDelivery == Spec => []ExactlyOnce
BY StreamInductive, PTL DEF StreamInv, ExactlyOnce

\* streamRetry gives a feed up only after Budget + 1 reconnects without an event.
THEOREM LostOnlyBarrenHolds == Spec => []LostOnlyBarren
<1>1. StreamInv => LostOnlyBarren
  BY DEF StreamInv, BudgetInv, LostOnlyBarren
<1> QED
  BY <1>1, StreamInductive, PTL

-----------------------------------------------------------------------------
\* That the iteration does not spin.

\* One whole unit outweighs whatever is counted within a unit.
LEMMA UnitOutweighs ==
  ASSUME NEW w \in Nat, NEW m \in Nat, NEW n \in Nat, m < n, NEW r \in Nat, NEW s \in Nat,
         s < w + r
  PROVE  m * w + s < n * w + r
<1>1. n * w = m * w + (n - m) * w
  OBVIOUS
<1>2. (n - m) * w = w + (n - m - 1) * w /\ (n - m - 1) * w >= 0
  OBVIOUS
<1>3. m * w \in Int /\ n * w \in Int /\ (n - m) * w \in Int /\ (n - m - 1) * w \in Int
  OBVIOUS
<1> QED
  BY <1>1, <1>2, <1>3

\* What is counted for one event is enough for it.
LEMMA EventType ==
  ASSUME StreamInv
  PROVE  /\ EventSteps \in Nat /\ Unread \in Nat /\ Unread <= Len(log) - start
         /\ pc # "done" => EventLeft \in 1 .. EventSteps
<1>1. /\ pc \in {"open", "pump", "wait", "done"} /\ lines \in 0 .. 2
      /\ start \in Nat /\ Len(log) \in Nat /\ start <= Len(log) /\ cursor \in start .. Len(log)
      /\ pos \in start .. Len(log)
      /\ pc # "done" => fails \in 0 .. Budget
  BY DEF StreamInv, TypeOK, BudgetInv
<1>2. EventSteps \in Nat /\ Unread \in Nat /\ Unread <= Len(log) - start
  BY <1>1 DEF EventSteps, AttemptSteps, Unread
<1>3. pc # "done" => Charged \in 0 .. Budget
  BY <1>1 DEF Charged
<1>4. pc # "done" => AttemptLeft \in 1 .. 5
  BY <1>1 DEF AttemptLeft, AttemptSteps
<1> QED
  BY <1>2, <1>3, <1>4 DEF EventLeft, EventSteps, AttemptSteps

\* The steps left are a number, and bounded by the events after the caller's own.
LEMMA StepsType == ASSUME StreamInv PROVE FeedBounded
<1>1. EventSteps \in Nat /\ Unread \in Nat /\ Len(log) - start \in Nat /\ Unread <= Len(log) - start
  <2>1. start \in Nat /\ Len(log) \in Nat /\ start <= Len(log)
    BY DEF StreamInv, TypeOK
  <2> QED
    BY <2>1, EventType
<1>2. \A w, m, n \in Nat : m <= n => /\ m * w \in Nat /\ (n + 1) * w \in Nat
                                     /\ m * w + w <= (n + 1) * w
  <2> TAKE w, m, n \in Nat
  <2> HAVE m <= n
  <2>1. /\ (n + 1) * w = m * w + w + (n - m) * w /\ (n - m) * w \in Nat /\ m * w \in Nat
        /\ (n + 1) * w \in Nat
    OBVIOUS
  <2> QED
    BY <2>1
<1>3. /\ Unread * EventSteps \in Nat /\ (Len(log) - start + 1) * EventSteps \in Nat
      /\ Unread * EventSteps + EventSteps <= (Len(log) - start + 1) * EventSteps
  BY <1>1, <1>2
<1> QED
  BY <1>1, <1>3, EventType DEF FeedBounded, StepsLeft

\* A step of the iteration ends it, moves the connection or the budget on, or moves
\* past a block.
LEMMA FeedProgress ==
  ASSUME StreamInv, Open \/ Read \/ StreamEnds \/ StreamWait, ~Repeats
  PROVE  /\ pc # "done"
         /\ \/ pc' = "done"
            \/ Unread' = Unread /\ EventLeft' < EventLeft
            \/ Unread' < Unread
<1>1. /\ lines \in 0 .. 2 /\ cursor \in Nat /\ Len(log) \in Nat
      /\ fails \in 0 .. Budget + 1 /\ delivered \in BOOLEAN /\ pos \in Nat
      /\ (pc = "pump" => cursor <= pos)
  BY DEF StreamInv, TypeOK
<1>2. CASE Open \/ StreamEnds \/ StreamWait
  <2>1. pc # "done" /\ (pc' = "done" \/ Unread' = Unread)
    <3>1. CASE Open \/ StreamWait
      BY <3>1 DEF Open, OpenOK, OpenFault, OpenRefused, StreamWait, StreamRetry, Return, Unread
    <3>2. CASE StreamEnds
      <4>1. pc = "pump" /\ pos = cursor /\ pc' \in {"wait", "done"} /\ UNCHANGED <<log, cursor>>
        BY <1>1, <3>2 DEF StreamEnds, StreamRetry, Return, Repeats
      <4> QED
        BY <4>1 DEF Unread
    <3> QED
      BY <1>2, <3>1, <3>2
  <2>2. pc' = "done" \/ EventLeft' < EventLeft
    <3>1. CASE OpenOK
      BY <1>1, <3>1 DEF OpenOK, EventLeft, Charged, AttemptLeft, AttemptSteps
    <3>2. CASE OpenFault \/ OpenRefused
      BY <1>1, <3>2 DEF OpenFault, OpenRefused, StreamRetry, Return, EventLeft, Charged,
         AttemptLeft, AttemptSteps
    <3>3. CASE StreamEnds
      BY <1>1, <3>3 DEF StreamEnds, StreamRetry, Return, EventLeft, Charged, AttemptLeft,
         AttemptSteps
    <3>4. CASE StreamWait
      BY <1>1, <3>4 DEF StreamWait, Return, EventLeft, Charged, AttemptLeft, AttemptSteps
    <3> QED
      BY <1>2, <3>1, <3>2, <3>3, <3>4 DEF Open
  <2> QED
    BY <2>1, <2>2
<1>3. CASE ReadLine
  BY <1>1, <1>3 DEF ReadLine, Unread, EventLeft, Charged, AttemptLeft, AttemptSteps
<1>4. CASE SkipBlock \/ YieldBlock
  <2>1. pc = "pump" /\ pc' \in {"pump", "done"} /\ pos' = pos + 1 /\ log' = log
    BY <1>4 DEF SkipBlock, YieldBlock, EndBlock, Block, Return
  <2> QED
    BY <1>1, <2>1 DEF Unread
<1> QED
  BY <1>2, <1>3, <1>4 DEF Read

\* Each of these brings the end nearer.
LEMMA FeedNearer ==
  ASSUME StreamInv, StreamInv', Open \/ Read \/ StreamEnds \/ StreamWait, ~Repeats
  PROVE  StepsLeft' < StepsLeft
<1>0. StreamInv'
  OBVIOUS
<1>1. EventSteps \in Nat /\ Unread \in Nat /\ EventLeft \in 1 .. EventSteps
  BY EventType, FeedProgress
<1>2. StepsLeft = Unread * EventSteps + EventLeft
  BY FeedProgress DEF StepsLeft
<1>3. Unread * EventSteps \in Nat
  BY <1>1
<1>4. CASE pc' = "done"
  <2>1. StepsLeft' = 0
    BY <1>4 DEF StepsLeft
  <2> QED
    BY <1>1, <1>2, <1>3, <2>1
<1>5. CASE pc' # "done"
  <2>1. EventSteps' = EventSteps
    BY DEF EventSteps, AttemptSteps
  <2>2. StepsLeft' = Unread' * EventSteps + EventLeft'
    BY <1>5, <2>1 DEF StepsLeft
  <2>3. (Unread \in Nat)' /\ (pc # "done" => EventLeft \in 1 .. EventSteps)'
    BY <1>0, EventType, PTL
  <2>4. Unread' \in Nat /\ EventLeft' \in 1 .. EventSteps
    BY <1>5, <2>1, <2>3
  <2>5. CASE Unread' = Unread /\ EventLeft' < EventLeft
    <3>1. StepsLeft' = Unread * EventSteps + EventLeft'
      BY <2>2, <2>5
    <3>2. \A u, r, s \in Int : s < r => u + s < u + r
      OBVIOUS
    <3>3. EventLeft' \in Int /\ EventLeft \in Int /\ Unread * EventSteps \in Int
      BY <1>1, <1>3, <2>4
    <3> QED
      BY <1>2, <2>5, <3>1, <3>2, <3>3, Zenon
  <2>6. CASE Unread' < Unread
    <3>1. EventLeft' \in Nat /\ EventLeft \in Nat /\ EventLeft' < EventSteps + EventLeft
      BY <1>1, <2>4
    <3> QED
      BY <1>1, <1>2, <2>2, <2>4, <2>6, <3>1, UnitOutweighs, Zenon
  <2> QED
    BY <1>5, <2>5, <2>6, FeedProgress
<1> QED
  BY <1>4, <1>5

\* An event appended adds what is counted for one event.
LEMMA AppendAdds ==
  ASSUME StreamInv, NEW kind \in Kinds, ServerAppend(kind), pc # "done"
  PROVE  StepsLeft' = StepsLeft + EventSteps
<1>1. UNCHANGED <<cursor, pc, pos, lines, delivered, fails>>
  BY DEF ServerAppend, conn
<1>2. Unread' = Unread + 1
  BY <1>1 DEF ServerAppend, Unread, StreamInv, TypeOK
<1>3. EventLeft' = EventLeft /\ EventSteps' = EventSteps
  BY <1>1 DEF EventLeft, EventSteps, Charged, AttemptLeft, AttemptSteps
<1>4. EventSteps \in Nat /\ Unread \in Nat /\ EventLeft \in Nat
  BY EventType
<1>5. (Unread + 1) * EventSteps = Unread * EventSteps + EventSteps /\ Unread * EventSteps \in Nat
  BY <1>4
<1>6. StepsLeft = Unread * EventSteps + EventLeft
  BY DEF StepsLeft
<1>7. StepsLeft' = (Unread + 1) * EventSteps + EventLeft
  BY <1>1, <1>2, <1>3 DEF StepsLeft
<1> QED
  BY <1>4, <1>5, <1>6, <1>7

\* resumeStream and streamRetry: between two events the server appends, the iteration
\* makes a bounded number of steps, whatever each connection delivers: a reconnect is
\* paid from the budget unless its connection yielded an event with an id.  Connections
\* that end after events without one (Repeats) are the only way to go on for ever.
THEOREM FeedNearsEndHolds == Spec => FeedNearsEnd /\ []FeedBounded
<1>1. StreamInv /\ StreamInv' /\ [Next]_vars =>
        [/\ (Open \/ Read \/ StreamEnds \/ StreamWait) /\ ~Repeats => StepsLeft' < StepsLeft
         /\ Cancel => StepsLeft' = StepsLeft
         /\ (\E kind \in Kinds : ServerAppend(kind)) /\ pc # "done" =>
              StepsLeft' = StepsLeft + EventSteps]_vars
  <2>1. ASSUME Cancel PROVE StepsLeft' = StepsLeft
    <3>1. UNCHANGED <<log, cursor, pc, pos, lines, delivered, fails>>
      BY <2>1 DEF Cancel, conn
    <3> QED
      BY <3>1 DEF StepsLeft, Unread, EventLeft, EventSteps, Charged, AttemptLeft, AttemptSteps
  <2> QED
    BY <2>1, FeedNearer, AppendAdds
<1> QED
  BY <1>1, StepsType, StreamInductive, PTL DEF Spec, FeedNearsEnd
=============================================================================
