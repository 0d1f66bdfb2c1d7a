----------------------------- MODULE AgentTurns -----------------------------
(***************************************************************************)
(* Agent work in one session (agent.go, internal/coordinator/agent.go):    *)
(* Run, Answer, Steer, Cancel and Wait, called by workers of one or more   *)
(* backends, over a network that loses responses and delays requests.  Run *)
(* with its key, Answer and Cancel are sent again when the response is     *)
(* lost; Steer never is.  Work is addressed by turn.                       *)
(*                                                                         *)
(* The coordinator is external and modelled from the comments the client   *)
(* relies on: one turn at a time, a key replays the turn it admitted, a    *)
(* repeated answer names the turn it opened.                               *)
(***************************************************************************)
EXTENDS Naturals, FiniteSets

CONSTANTS
    Workers,      \* goroutines, each with one call in progress
    Submissions,  \* messages the application wants run, once each
    Answers, Texts, \* answers to questions; guidance, each steered once
    SendBudget,   \* sends of one request that fit into resendBudget
    MaxTurns,     \* bound: turns of the session
    MaxLate,      \* bound: requests under way whose senders gave up
    None          \* no submission, answer or text

ASSUME AgentAssumption ==
    /\ SendBudget \in Nat \ {0} /\ MaxTurns \in Nat \ {0} /\ MaxLate \in Nat
    /\ None \notin Submissions \cup Answers \cup Texts

VARIABLES
    turns, last,  \* coordinator: its turns 1 .. last
    delivered,    \* coordinator: how often each text reached the agent
    late,         \* requests their sender gave up that may still arrive
    req, sends,   \* calls: the request (NoReq: no call) and its sends so far
    aware,        \* submissions whose Run ended for some caller otherwise than in
                  \* an error that means nothing was started (Nothing)
    asked         \* turns some worker asked to cancel

server    == <<turns, last, delivered>>
calls     == <<req, sends>>
agentVars == <<server, late, calls, aware, asked>>

Ids    == 1 .. MaxTurns
Keys   == Submissions \X (0 .. SendBudget)
Unkeyed  == <<None, 0>>
Busy   == {"running", "canceling"}
States == Busy \cup {"needs_input", "answered", "completed", "canceled"}
Turn   == [sub : Submissions \cup {None}, key : Keys \cup {Unkeyed}, state : States,
           answer : Answers \cup {None}, next : 0 .. MaxTurns]
NoTurn == [sub |-> None, key |-> Unkeyed, state |-> "completed", answer |-> None, next |-> 0]

Ops      == {"none", "run", "answer", "steer", "cancel", "wait"}
Requests == [op : Ops, turn : 0 .. MaxTurns, sub : Submissions \cup {None},
             key : Keys \cup {Unkeyed}, arg : Answers \cup Texts \cup {None}]
NoReq    == [op |-> "none", turn |-> 0, sub |-> None, key |-> Unkeyed, arg |-> None]

Refusal    == [turn |-> 0, state |-> "refused"]
TurnReply(t, s) == [turn |-> t, state |-> s]
TurnReplies == [turn : Ids, state : States]
Replies    == TurnReplies \cup {Refusal}

AgentTypeOK ==
    /\ turns \in [Ids -> Turn] /\ last \in 0 .. MaxTurns
    /\ delivered \in [Texts -> Nat]
    /\ late \subseteq Requests
    /\ req \in [Workers -> Requests]
    /\ sends \in [Workers -> 0 .. SendBudget]
    /\ aware \subseteq Submissions /\ asked \subseteq Ids

\* The session is new, or an earlier run's turn is still going on.
AgentInit ==
    /\ last \in {0, 1}
    /\ turns = [t \in Ids |-> IF t <= last THEN [NoTurn EXCEPT !.state = "running"] ELSE NoTurn]
    /\ delivered = [x \in Texts |-> 0]
    /\ late = {}
    /\ req = [w \in Workers |-> NoReq] /\ sends = [w \in Workers |-> 0]
    /\ aware = {} /\ asked = {}

-----------------------------------------------------------------------------
\* The coordinator: it acts on request r and answers a.

Admitted == 1 .. last

\* A key names one turn for ever; a new one needs an idle session.
HandleRun(r, a) ==
    /\ \/ /\ \E t \in Admitted : turns[t].key = r.key /\ a = TurnReply(t, turns[t].state)
          /\ UNCHANGED <<turns, last>>
       \/ /\ \A t \in Admitted : turns[t].key # r.key /\ turns[t].state \notin Busy
          /\ a = TurnReply(last + 1, "running")
          /\ last < MaxTurns /\ last' = last + 1
          /\ turns' = [turns EXCEPT ![last + 1] =
                [NoTurn EXCEPT !.sub = r.sub, !.key = r.key, !.state = "running"]]
       \/ /\ \A t \in Admitted : turns[t].key # r.key
          /\ \E t \in Admitted : turns[t].state \in Busy
          /\ a = Refusal /\ UNCHANGED <<turns, last>>
    /\ UNCHANGED delivered

\* The latest turn's question is answered once; the same answer again names the
\* turn it opened, another one conflicts.
HandleAnswer(r, a) ==
    LET t == r.turn
        open == t = last /\ turns[t].state = "needs_input"
        same == turns[t].state = "answered" /\ turns[t].answer = r.arg
    IN
    /\ \/ /\ open /\ a = TurnReply(last + 1, "running")
          /\ last < MaxTurns /\ last' = last + 1
          /\ turns' = [turns EXCEPT
                ![t] = [@ EXCEPT !.state = "answered", !.answer = r.arg, !.next = last + 1],
                ![last + 1] = [NoTurn EXCEPT !.state = "running"]]
       \/ same /\ a = TurnReply(turns[t].next, turns[turns[t].next].state)
               /\ UNCHANGED <<turns, last>>
       \/ ~open /\ ~same /\ a = Refusal /\ UNCHANGED <<turns, last>>
    /\ UNCHANGED delivered

\* A running turn begins to stop, a waiting question is closed, an answered turn
\* conflicts, any other is returned as it is.
HandleCancel(r, a) ==
    LET s == turns[r.turn].state
        to == CASE s = "running" -> "canceling" [] s = "needs_input" -> "canceled"
                [] OTHER -> s
    IN  /\ a = IF s = "answered" THEN Refusal ELSE TurnReply(r.turn, to)
        /\ turns' = [turns EXCEPT ![r.turn].state = to]
        /\ UNCHANGED <<last, delivered>>

\* Guidance reaches a running turn; at a completion boundary it may be delivered
\* and still conflict.
HandleSteer(r, a) ==
    /\ \/ /\ turns[r.turn].state = "running"
          /\ a \in {TurnReply(r.turn, "running"), Refusal}
          /\ delivered' = [delivered EXCEPT ![r.arg] = @ + 1]
       \/ turns[r.turn].state # "running" /\ a = Refusal /\ UNCHANGED delivered
    /\ UNCHANGED <<turns, last>>

HandleRead(r, a) == a = TurnReply(r.turn, turns[r.turn].state) /\ UNCHANGED server

Handle(r, a) == \/ r.op = "run" /\ HandleRun(r, a)
                \/ r.op = "answer" /\ HandleAnswer(r, a)
                \/ r.op = "cancel" /\ HandleCancel(r, a)
                \/ r.op = "steer" /\ HandleSteer(r, a)
                \/ r.op = "wait" /\ HandleRead(r, a)

\* The agent finishes or fails, asks, or stops as it was told to.
TurnMoves(t) ==
    /\ t \in Admitted /\ turns[t].state \in Busy
    /\ \E to \in IF turns[t].state = "running" THEN {"completed", "needs_input"}
                                               ELSE {"completed", "canceled"} :
          turns' = [turns EXCEPT ![t].state = to]
    /\ UNCHANGED <<last, delivered, late, calls, aware, asked>>

\* A request its sender no longer waits for arrives after all, or never will.
Arrives(r) ==
    /\ (\E a \in Replies : Handle(r, a)) \/ UNCHANGED server
    /\ late' = late \ {r}
    /\ UNCHANGED <<calls, aware, asked>>

-----------------------------------------------------------------------------
\* The calls.  Between a send and its answer or its loss a call changes only its
\* own variables, so the coordinator's handling and the call's reaction are one
\* step; a request that outlives the wait for its answer is in late.

Idle(w) == req[w].op = "none"

Call(w, r) ==
    /\ Idle(w) /\ req' = [req EXCEPT ![w] = r]
    /\ UNCHANGED <<server, late, sends, aware>>

\* Run: a submission carries the key the application saved for it, also when it
\* is submitted again, by this worker or by another process.
BeginRun(w, s) == Call(w, [NoReq EXCEPT !.op = "run", !.sub = s]) /\ UNCHANGED asked

\* Answer, Steer, Cancel and Wait name the turn the caller saved.
BeginAnswer(w, t, x) == Call(w, [NoReq EXCEPT !.op = "answer", !.turn = t, !.arg = x])
                        /\ UNCHANGED asked
BeginWait(w, t)      == Call(w, [NoReq EXCEPT !.op = "wait", !.turn = t])
                        /\ UNCHANGED asked

\* One Steer call per text: its caller does not repeat it.
BeginSteer(w, t, x) ==
    /\ \A v \in Workers : req[v].arg # x
    /\ \A r \in late : r.arg # x
    /\ delivered[x] = 0
    /\ Call(w, [NoReq EXCEPT !.op = "steer", !.turn = t, !.arg = x])
    /\ UNCHANGED asked

BeginCancel(w, t) ==
    /\ Call(w, [NoReq EXCEPT !.op = "cancel", !.turn = t])
    /\ asked' = asked \cup {t}

\* Mutant: every send of a run gets a key of its own.
KeyOfFresh(r, n) == IF r.op = "run" THEN <<r.sub, n>> ELSE Unkeyed

\* The Idempotency-Key of a send: fixed before the first one.
KeyOf(r, n) == IF r.op = "run" THEN <<r.sub, 0>> ELSE Unkeyed

\* Mutant: the latest turn is canceled, not the one the caller saved.
TurnOfLatest(r) == IF r.op = "cancel" THEN last ELSE r.turn

\* The turn a send names.
TurnOf(r) == r.turn

\* A send: one request on the wire, whether postAgentTurn's loop or the
\* transport's retry of a transient fault inside it sends it.
Sent(w) == [req[w] EXCEPT !.key = KeyOf(req[w], sends[w]), !.turn = TurnOf(req[w])]
CanSend(w) == ~Idle(w) /\ (req[w].op = "wait" \/ sends[w] < SendBudget)

\* The request goes out again; a Wait's reads are not counted.
Repeat(w) ==
    /\ sends' = IF req[w].op = "wait" THEN sends ELSE [sends EXCEPT ![w] = @ + 1]
    /\ UNCHANGED <<req, aware>>

\* What leaves a Run's caller with nothing to look after: its context ended before
\* the first send, or the first send was refused.
Nothing == {"unsent", "refused"}

\* The call returns.
Return(w, outcome) ==
    /\ req' = [req EXCEPT ![w] = NoReq] /\ sends' = [sends EXCEPT ![w] = 0]
    /\ aware' = aware \cup {s \in Submissions : s = req[w].sub /\ outcome \notin Nothing}

\* The answer is a turn.  It is returned, except that Wait reads again while the
\* turn runs, until its timeout, which may pass at any time.  When parseAgentTurn
\* cannot decode the body of the 2xx, every call returns its plain error instead,
\* although the coordinator has acted.
ReceiveTurn(w) ==
    /\ CanSend(w)
    /\ \E a \in TurnReplies :
          /\ Handle(Sent(w), a)
          /\ \/ req[w].op = "wait" /\ a.state \in Busy /\ Repeat(w)
             \/ \E o \in {"turn", "undecoded"} : Return(w, o)
    /\ UNCHANGED <<late, asked>>

\* The answer is a refusal, of the coordinator or on the way to it (401, 403,
\* 429).  It is returned as it is, except that Wait reads again when the problem
\* is marked retryable.
ReceiveRefusal(w) ==
    /\ CanSend(w)
    /\ Handle(Sent(w), Refusal) \/ UNCHANGED server
    /\ \/ req[w].op = "wait" /\ Repeat(w)
       \/ Return(w, IF sends[w] = 0 THEN "refused" ELSE "refusedLater")
    /\ UNCHANGED <<late, asked>>

\* Mutant: Steer is sent again like the others.
ResendsAll(op) == TRUE

\* postAgentTurn's resend: the operations whose repetition names the same turn.
Resends(op) == op \in {"run", "answer", "cancel"}

\* Mutant: a gateway's 503 counts as a refusal.
LostOutcomePlain == "refused"

\* AgentRun's error when the last response was lost: the run is unconfirmed.
LostOutcome == "unconfirmed"

\* What became of a request whose sender stops waiting: it is lost, the coordinator
\* acted on it, or it is still on its way.
Unanswered(w) ==
    \/ UNCHANGED <<server, late>>
    \/ (\E a \in Replies : Handle(Sent(w), a)) /\ UNCHANGED late
    \/ /\ req[w].op # "wait" /\ Cardinality(late) < MaxLate
       /\ late' = late \cup {Sent(w)} /\ UNCHANGED server

\* lostResponse: no response, or a gateway status that cannot say whether the
\* Computer acted.  The request is sent again within the budget, a Wait's read
\* within its timeout; otherwise the call ends.
Lost(w) ==
    /\ CanSend(w)
    /\ Unanswered(w)
    /\ \/ req[w].op = "wait" /\ Repeat(w)
       \/ Resends(req[w].op) /\ sends[w] + 1 < SendBudget /\ Repeat(w)
       \/ Return(w, LostOutcome)
    /\ UNCHANGED asked

\* The caller's context ends: before the first send, which is the one case in
\* which Run returns its error as it is, between two sends or during one.
ContextEnds(w) ==
    /\ ~Idle(w)
    /\ \/ UNCHANGED <<server, late>> /\ Return(w, IF sends[w] = 0 THEN "unsent" ELSE "unconfirmed")
       \/ CanSend(w) /\ Unanswered(w) /\ Return(w, "unconfirmed")
    /\ UNCHANGED asked

\* The worker's process ends; its application knows the submission by its key.
WorkerCrashes(w) ==
    /\ ~Idle(w)
    /\ UNCHANGED <<server, late>> \/ (CanSend(w) /\ Unanswered(w))
    /\ Return(w, "crash")
    /\ UNCHANGED asked

-----------------------------------------------------------------------------
AgentNext ==
    \/ \E w \in Workers :
          \/ ReceiveTurn(w) \/ ReceiveRefusal(w) \/ Lost(w)
          \/ ContextEnds(w) \/ WorkerCrashes(w)
          \/ \E s \in Submissions : BeginRun(w, s)
          \/ \E t \in Admitted :
                \/ BeginWait(w, t) \/ BeginCancel(w, t)
                \/ \E x \in Answers : BeginAnswer(w, t, x)
                \/ \E x \in Texts : BeginSteer(w, t, x)
    \/ \E t \in Ids : TurnMoves(t)
    \/ \E r \in late : Arrives(r)

AgentSpec == AgentInit /\ [][AgentNext]_agentVars

-----------------------------------------------------------------------------
\* Properties.

\* A submission starts at most one turn: whatever responses are lost, however
\* often Run sends it, and whether a worker or another process submits it again.
OneTurnPerSubmission ==
    \A t, u \in Admitted : turns[t].sub = turns[u].sub /\ turns[t].sub # None => t = u

\* A caller told that its Run was refused at the first send, or that its context
\* ended before it, may drop the submission: when a submission has a turn, a Run of
\* it is still in progress, or a caller was given the turn, told that the run is
\* unconfirmed, crashed, was refused only after an earlier send of the same call
\* was lost, or could not decode the 2xx.  The last two are plain errors too
\* (AgentRun wraps neither in a RunUnconfirmedError) although a turn may run.
NoSilentRun ==
    \A t \in Admitted : turns[t].sub # None =>
        \/ \E w \in Workers : req[w].op = "run" /\ req[w].sub = turns[t].sub
        \/ turns[t].sub \in aware

\* Guidance reaches the agent at most once per Steer, lost responses and late
\* requests included.
SteeredOnce == \A x \in Texts : delivered[x] <= 1

\* Only a turn a caller named is canceled: neither a resent nor a late Cancel
\* reaches the turn that runs by then.
CanceledByName ==
    \A t \in Admitted : turns[t].state \in {"canceling", "canceled"} => t \in asked
=============================================================================
