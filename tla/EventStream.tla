----------------------------- MODULE EventStream -----------------------------
(***************************************************************************)
(* The resuming event feed (internal/coordinator/stream.go resumeStream,   *)
(* the SSE reader of internal/base/sse, and AuthorEvents): one consumer    *)
(* reads a server's event log through connections that end at any line,    *)
(* reopening each time from the last event id it has seen.                 *)
(***************************************************************************)
EXTENDS Integers, Sequences

CONSTANTS
    Budget,   \* wait.ReconnectBudget
    Finite,   \* TRUE: a feed that names its terminal event (AuthorEvents)
    MaxLog    \* bound: events the server appends

ASSUME StreamAssumption ==
    /\ Budget \in Nat \ {0} /\ Finite \in BOOLEAN /\ MaxLog \in Nat \ {0}

\* What one SSE block holds: a decodable event with an id, one without, the terminal
\* event of a finite feed, a block that does not decode, one longer than maxFrameBytes.
Kinds == {"event", "bare", "result", "malformed", "oversize"}

VARIABLES
    log,        \* the server's events; the id of an event that has one is its position
    start,      \* the Last-Event-ID the caller came with
    cursor,     \* the resume cursor
    pc,         \* open, pump, wait (the backoff), done
    pos,        \* the last event sent whole on this connection
    lines,      \* lines read of the block after it: its id, then its data
    delivered,  \* this connection has delivered an event
    fails,      \* reconnects charged against the budget
    out,        \* ids of the events yielded to the consumer
    seen,       \* positions of the events without an id that were yielded
    result,     \* how the iteration ended
    cancelled,  \* the caller's context has ended
    barren      \* history: reconnects since an event was last yielded

conn    == <<pos, lines, delivered>>
vars    == <<log, start, cursor, pc, conn, fails, out, seen, result, cancelled, barren>>

Results == {"none", "stopped", "ended", "lost", "refused", "cancelled"}

TypeOK ==
    /\ log \in Seq(Kinds)
    /\ start \in Nat /\ start <= Len(log)
    /\ cursor \in start .. Len(log) /\ pos \in start .. Len(log)
    /\ pc \in {"open", "pump", "wait", "done"}
    /\ lines \in 0 .. 2 /\ delivered \in BOOLEAN
    /\ fails \in 0 .. Budget + 1
    /\ out \in Seq(Nat) /\ seen \subseteq start + 1 .. Len(log)
    /\ result \in Results /\ cancelled \in BOOLEAN
    /\ barren \in 0 .. Budget + 1
    \* On a connection only blocks without an id lie between the cursor and the last
    \* block read whole.
    /\ pc = "pump" => cursor <= pos /\ \A k \in cursor + 1 .. pos : log[k] = "bare"
    /\ pc = "done" <=> result # "none"

Init ==
    /\ log \in {<<"event">>, <<"malformed">>} /\ start \in 0 .. 1
    /\ cursor = start /\ pos = start
    /\ pc = "open" /\ lines = 0 /\ delivered = FALSE
    /\ fails = 0 /\ out = <<>> /\ seen = {} /\ result = "none" /\ cancelled = FALSE
    /\ barren = 0

-----------------------------------------------------------------------------
\* The server appends an event (external); nothing follows a finite feed's result.
ServerAppend(kind) ==
    /\ Len(log) < MaxLog
    /\ kind = "result" => Finite
    /\ \A i \in 1 .. Len(log) : log[i] # "result"
    /\ log' = Append(log, kind)
    /\ UNCHANGED <<start, cursor, pc, conn, fails, out, seen, result, cancelled, barren>>

\* The caller's context ends.
Cancel ==
    /\ ~cancelled /\ pc # "done" /\ cancelled' = TRUE
    /\ UNCHANGED <<log, start, cursor, pc, conn, fails, out, seen, result, barren>>

-----------------------------------------------------------------------------
Return(r) == pc' = "done" /\ result' = r

\* streamRetry: one more reconnect is charged to n of them, and past the budget
\* the feed is lost.
StreamRetry(n) ==
    /\ fails' = n + 1
    /\ barren' = IF barren > Budget THEN barren ELSE barren + 1
    /\ \/ n + 1 > Budget /\ Return("lost")
       \/ n + 1 <= Budget /\ pc' = "wait" /\ UNCHANGED result

\* Mutant: an established connection counts as progress.
OpenOKResets ==
    /\ pc = "open" /\ pc' = "pump" /\ fails' = 0
    /\ pos' = cursor /\ lines' = 0 /\ delivered' = FALSE
    /\ UNCHANGED <<log, start, cursor, out, seen, result, cancelled, barren>>

\* The feed opens after Last-Event-ID = cursor: the server sends what follows it, also
\* events without an id that an earlier connection has delivered.
OpenOK ==
    /\ pc = "open" /\ pc' = "pump"
    /\ pos' = cursor /\ lines' = 0 /\ delivered' = FALSE
    /\ UNCHANGED <<log, start, cursor, fails, out, seen, result, cancelled, barren>>

\* The open fails in transport: reconnect, unless the caller has cancelled.
OpenFault ==
    /\ pc = "open"
    /\ \/ cancelled /\ Return("cancelled") /\ UNCHANGED <<fails, barren>>
       \/ ~cancelled /\ StreamRetry(fails)
    /\ UNCHANGED <<log, start, cursor, conn, out, seen, cancelled>>

\* The open is refused (auth, session gone, any non-2xx answer): terminal.
OpenRefused ==
    /\ pc = "open"
    /\ Return(IF cancelled THEN "cancelled" ELSE "refused")
    /\ UNCHANGED <<log, start, cursor, conn, fails, out, seen, cancelled, barren>>

-----------------------------------------------------------------------------
\* pumpFrames over one connection.

\* The block that follows, and whether it exceeds the cap on a frame.
Block   == pos + 1
OverCap == pos < Len(log) /\ log[Block] = "oversize"

\* Mutant: the cursor advances at the id line, before the block is complete.
ReadLineAdvances ==
    /\ pc = "pump" /\ pos < Len(log) /\ ~OverCap /\ lines < 2
    /\ lines' = lines + 1 /\ cursor' = pos + 1
    /\ UNCHANGED <<log, start, pc, pos, delivered, fails, out, seen, result, cancelled, barren>>

\* A line of the next block arrives; a block over the cap is never completed.
ReadLine ==
    /\ pc = "pump" /\ pos < Len(log) /\ ~OverCap /\ lines < 2
    /\ lines' = lines + 1
    /\ UNCHANGED <<log, start, cursor, pc, pos, delivered, fails, out, seen, result, cancelled, barren>>

\* The empty line that ends a block: the cursor advances to its id, if it has one,
\* whatever else the block holds.
EndBlock ==
    /\ pc = "pump" /\ pos < Len(log) /\ lines = 2
    /\ pos' = Block /\ lines' = 0
    /\ cursor' = IF log[Block] = "bare" THEN cursor ELSE Block
    /\ UNCHANGED <<log, start, fails, cancelled>>

\* A block that does not decode is skipped.
SkipBlock ==
    /\ EndBlock /\ log[Block] = "malformed"
    /\ UNCHANGED <<pc, delivered, out, seen, result, barren>>

\* Any other is yielded: the consumer may break off, and a finite feed's terminal
\* event ends the iteration.
YieldBlock ==
    /\ EndBlock /\ log[Block] # "malformed"
    /\ delivered' = TRUE /\ barren' = 0
    /\ \/ log[Block] # "bare" /\ out' = Append(out, Block) /\ UNCHANGED seen
       \/ log[Block] = "bare" /\ seen' = seen \cup {Block} /\ UNCHANGED out
    /\ \/ Return("stopped")
       \/ Finite /\ log[Block] = "result" /\ Return("ended")
       \/ ~(Finite /\ log[Block] = "result") /\ UNCHANGED <<pc, result>>

\* Mutant: events delivered on this connection leave the budget as it is.
StreamEndsCharged ==
    /\ pc = "pump" /\ StreamRetry(fails)
    /\ UNCHANGED <<log, start, cursor, conn, out, seen, cancelled>>

\* The connection ends at any line: EOF, a read fault, the idle watchdog, or a
\* block over the cap. An incomplete block is dropped.
StreamEnds ==
    /\ pc = "pump"
    /\ \/ cancelled /\ Return("cancelled") /\ UNCHANGED <<fails, barren>>
       \/ ~cancelled /\ StreamRetry(IF delivered THEN 0 ELSE fails)
    /\ UNCHANGED <<log, start, cursor, conn, out, seen, cancelled>>

\* streamWait: the backoff ends with a reconnect, or with the caller's context.
StreamWait ==
    /\ pc = "wait"
    /\ \/ cancelled /\ Return("cancelled")
       \/ ~cancelled /\ pc' = "open" /\ UNCHANGED result
    /\ UNCHANGED <<log, start, cursor, conn, fails, out, seen, cancelled, barren>>

-----------------------------------------------------------------------------
Open == OpenOK \/ OpenFault \/ OpenRefused
Read == ReadLine \/ SkipBlock \/ YieldBlock

Next == \/ Open \/ Read \/ StreamEnds \/ StreamWait
        \/ Cancel \/ \E kind \in Kinds : ServerAppend(kind)

\* The iteration goes on: an open is answered, bytes on a connection are read, a
\* block over the cap and a cancelled context end it, and a backoff elapses. No
\* connection need last and nothing is assumed of the server's appends.
Spec == /\ Init /\ [][Next]_vars
        /\ WF_vars(Open) /\ WF_vars(Read) /\ WF_vars(StreamWait)
        /\ WF_vars(StreamEnds /\ (cancelled \/ OverCap))

-----------------------------------------------------------------------------
\* Properties.

\* Events that have an id reach the consumer in the order of the feed, none twice,
\* across every reconnect.
InOrder == \A i, j \in 1 .. Len(out) : i < j => out[i] < out[j]

Numbered(k) == log[k] \notin {"malformed", "bare"}

\* The cursor loses nothing: everything between the caller's Last-Event-ID and the
\* cursor the feed would resume from (and AuthorEvents returns) that decodes has
\* been yielded, and no event with an id beyond it, also when a connection ends
\* inside a block.
CursorExact ==
    /\ { out[i] : i \in 1 .. Len(out) } = { k \in start + 1 .. cursor : Numbered(k) }
    /\ { k \in start + 1 .. cursor : log[k] = "bare" } \subseteq seen

\* Each decodable event up to the cursor is yielded, those with an id exactly once and
\* in order; one without an id may be yielded again after a reconnect, for nothing
\* tells the server that it has arrived.
ExactlyOnce == InOrder /\ CursorExact

\* A feed is lost only after Budget + 1 reconnects in a row with no event yielded
\* between them: progress always restores the whole budget.
LostOnlyBarren == result = "lost" => barren = Budget + 1

\* A connection ends after events that the next one repeats.
Repeats == StreamEnds /\ pos > cursor

\* The feed is never stuck: every decodable event the server appends is yielded,
\* or the iteration ends and says why, however often connections drop; unless they
\* drop for ever between events without an id and the next one with an id: such
\* events restore the budget and leave the cursor where it is.
Delivery == \A k \in 1 .. MaxLog :
    \/ []<><<Repeats>>_vars
    \/ k > start /\ k <= Len(log) /\ log[k] # "malformed"
           ~> \/ k \in seen \/ \E i \in 1 .. Len(out) : out[i] = k
              \/ pc = "done"
=============================================================================
