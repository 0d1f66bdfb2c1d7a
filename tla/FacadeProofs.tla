----------------------------- MODULE FacadeProofs -----------------------------
(***************************************************************************)
(* Proofs about the operations of the facade that keep no lock across      *)
(* their requests: the control lease, agent turns and capture keypairs.    *)
(***************************************************************************)
EXTENDS AgentTurns, ControlLease, CaptureKeys, TLAPS

-----------------------------------------------------------------------------
(* The control lease. *)

\* A request is forced only if its caller asked for it, and a call under way has
\* had no effect yet.
LeaseInv ==
    /\ LeaseTypeOK
    /\ \A p \in astray : p.force => p.asked
    /\ \A c \in Callers : step[c] # "idle" => effects[c] = 0
    /\ NoBlindOverwrite /\ OneEffectPerCall

\* The invariant holds before the first control call.
LEMMA LeaseInitInv == LeaseInit => LeaseInv
BY LeaseAssumption DEF LeaseInit, LeaseInv, LeaseTypeOK, Epochs, Orders, NoOrder, Effects,
   NoBlindOverwrite, OneEffectPerCall

\* What the coordinator does with a request keeps its part of the invariant.
LEMMA ActsInv ==
    ASSUME LeaseInv, NEW p \in Patches, p.force => p.asked, Acts(p)
    PROVE  epoch' \in Epochs /\ onto' \in Effects /\ (onto'.asked \/ onto'.seen = onto'.met)
BY LeaseAssumption DEF LeaseInv, LeaseTypeOK, Acts, Admits, Patches, Effects, Epochs

\* A request forces only if its caller asked for it (setController).
LEMMA PatchType ==
    ASSUME LeaseInv, NEW c \in Callers
    PROVE  Patch(c) \in Patches /\ (Patch(c).force => Patch(c).asked)
BY DEF LeaseInv, LeaseTypeOK, Patch, Patches, Forces, Orders

\* A call that returns, having had an effect or not, keeps the invariant.
LEMMA EndCallInv ==
    ASSUME LeaseInv, NEW c \in Callers, step[c] # "idle", EndCall(c), NEW n \in {0, 1},
           effects' = [effects EXCEPT ![c] = @ + n],
           epoch' \in Epochs, onto' \in Effects, onto'.asked \/ onto'.seen = onto'.met,
           astray' \subseteq Patches, \A p \in astray' : p.force => p.asked
    PROVE  LeaseInv'
<1>1. effects' \in [Callers -> Nat] /\ effects'[c] <= 1
      /\ \A d \in Callers : d # c => effects'[d] = effects[d]
  BY DEF LeaseInv, LeaseTypeOK
<1>2. step' \in [Callers -> {"idle", "read", "send"}] /\ step'[c] = "idle"
      /\ \A d \in Callers : d # c => step'[d] = step[d]
  BY DEF LeaseInv, LeaseTypeOK, EndCall
<1>3. order' \in [Callers -> Orders] /\ tag' \in [Callers -> Epochs]
      /\ tries' \in [Callers -> 0 .. 1]
  BY LeaseAssumption DEF LeaseInv, LeaseTypeOK, EndCall, Orders, NoOrder, Epochs
<1> QED BY <1>1, <1>2, <1>3 DEF LeaseInv, LeaseTypeOK, NoBlindOverwrite, OneEffectPerCall

\* Every step of the control calls and the coordinator keeps the invariant.
LEMMA LeaseNextInv == LeaseInv /\ [LeaseNext]_leaseVars => LeaseInv'
<1> SUFFICES ASSUME LeaseInv, [LeaseNext]_leaseVars PROVE LeaseInv'
  OBVIOUS
<1> USE DEF LeaseInv, LeaseTypeOK, NoBlindOverwrite, OneEffectPerCall
<1>1. ASSUME NEW c \in Callers, NEW f \in BOOLEAN, BeginSet(c, f) PROVE LeaseInv'
  BY <1>1 DEF BeginSet, Orders
<1>2. ASSUME NEW c \in Callers, NEW t \in Epochs, BeginNotify(c, t) PROVE LeaseInv'
  BY <1>2 DEF BeginNotify, Orders
<1>3. ASSUME NEW c \in Callers, NEW t \in Epochs, NEW f \in BOOLEAN, BeginUpdate(c, t, f)
      PROVE LeaseInv'
  BY <1>3 DEF BeginUpdate, Orders
<1>4. ASSUME NEW c \in Callers, ReadControl(c) PROVE LeaseInv'
  <2>1. CASE EndCall(c)
    <3>1. effects' = [effects EXCEPT ![c] = @ + 0]
      BY <1>4 DEF ReadControl
    <3>2. UNCHANGED <<epoch, astray, onto>> /\ step[c] # "idle"
      BY <1>4 DEF ReadControl
    <3> QED BY <2>1, <3>1, <3>2, EndCallInv
  <2>2. CASE ~EndCall(c)
    BY <1>4, <2>2 DEF ReadControl
  <2> QED BY <2>1, <2>2
<1>5. ASSUME NEW c \in Callers, Done(c) PROVE LeaseInv'
  <2>1. epoch' \in Epochs /\ onto' \in Effects /\ (onto'.asked \/ onto'.seen = onto'.met)
    BY <1>5, PatchType, ActsInv DEF Done
  <2> QED BY <1>5, <2>1, EndCallInv DEF Done
<1>6. ASSUME NEW c \in Callers, Stale(c) PROVE LeaseInv'
  <2>1. effects' = [effects EXCEPT ![c] = @ + 0] /\ step[c] # "idle"
        /\ UNCHANGED <<epoch, astray, onto>>
    BY <1>6 DEF Stale, Failed
  <2>2. CASE Retries(c, "precondition")
    BY <1>6, <2>1, <2>2 DEF Stale, Failed
  <2>3. CASE EndCall(c)
    BY <2>1, <2>3, EndCallInv
  <2> QED BY <1>6, <2>2, <2>3 DEF Stale, Failed
<1>7. ASSUME NEW c \in Callers, Refused(c) PROVE LeaseInv'
  <2>1. effects' = [effects EXCEPT ![c] = @ + 0] /\ step[c] # "idle"
        /\ UNCHANGED <<epoch, astray, onto>> /\ EndCall(c)
    BY <1>7 DEF Refused, Failed, Retries
  <2> QED BY <2>1, EndCallInv
<1>8. ASSUME NEW c \in Callers, Unknown(c) PROVE LeaseInv'
  <2>1. epoch' \in Epochs /\ onto' \in Effects /\ (onto'.asked \/ onto'.seen = onto'.met)
    BY <1>8, PatchType, ActsInv DEF Unknown
  <2>2. astray' \subseteq Patches /\ \A p \in astray' : p.force => p.asked
    BY <1>8, PatchType DEF Unknown
  <2>3. EndCall(c) /\ \E n \in {0, 1} : effects' = [effects EXCEPT ![c] = @ + n]
    BY <1>8 DEF Unknown, Failed, Retries
  <2> QED BY <1>8, <2>1, <2>2, <2>3, EndCallInv DEF Unknown
<1>9. CASE ControlMoves
  BY <1>9, LeaseAssumption DEF ControlMoves, leaseCalls, Epochs
<1>10. ASSUME NEW p \in astray, PatchArrives(p) PROVE LeaseInv'
  <2>1. epoch' \in Epochs /\ onto' \in Effects /\ (onto'.asked \/ onto'.seen = onto'.met)
    BY <1>10, ActsInv DEF PatchArrives
  <2> QED BY <1>10, <2>1 DEF PatchArrives, leaseCalls
<1>11. CASE UNCHANGED leaseVars
  BY <1>11 DEF leaseVars, leaseCalls
<1> QED BY <1>1, <1>2, <1>3, <1>4, <1>5, <1>6, <1>7, <1>8, <1>9, <1>10, <1>11 DEF LeaseNext

\* The inductive invariant of the control calls: every request on the wire, sent or
\* astray, carries the ETag and the force its caller had (control.go).
THEOREM LeaseInvariant == LeaseSpec => []LeaseInv
BY LeaseInitInv, LeaseNextInv, PTL DEF LeaseSpec

\* The variables of the lease and of its calls have their types (control.go).
THEOREM LeaseTypeCorrect == LeaseSpec => []LeaseTypeOK
<1>1. LeaseInv => LeaseTypeOK
  BY DEF LeaseInv
<1> QED BY <1>1, LeaseInvariant, PTL

\* setController, UpdateControl and NotifyHuman never act over a state their caller
\* has not seen unless it asked for force, for any number of callers and
\* transitions.
THEOREM NoBlindOverwriteHolds == LeaseSpec => []NoBlindOverwrite
<1>1. LeaseInv => NoBlindOverwrite
  BY DEF LeaseInv
<1> QED BY <1>1, LeaseInvariant, PTL

\* A control call has at most one effect, lost answers and the repetition after a
\* 412 included (setController).
THEOREM OneEffectPerCallHolds == LeaseSpec => []OneEffectPerCall
<1>1. LeaseInv => OneEffectPerCall
  BY DEF LeaseInv
<1> QED BY <1>1, LeaseInvariant, PTL

-----------------------------------------------------------------------------
(* Agent turns. *)

\* The coordinator's turns: a submission's turn carries its only key, so there is
\* one, and only turns that were named are canceled.
TurnsOK ==
    /\ turns \in [Ids -> Turn] /\ last \in 0 .. MaxTurns
    /\ \A t \in Admitted : turns[t].sub # None => turns[t].key = <<turns[t].sub, 0>>
    /\ OneTurnPerSubmission /\ CanceledByName

\* A request names what its operation needs.
WellFormed(r) ==
    /\ r \in Requests
    /\ IF r.op = "run" THEN r.sub \in Submissions ELSE r.sub = None
    /\ r.op \notin {"none", "run"} => r.turn \in Ids
    /\ r.op = "steer" => r.arg \in Texts
    /\ r.op = "answer" => r.arg \in Answers
    /\ r.op = "cancel" => r.turn \in asked

\* A request on the wire also carries the submission's key.
OnWire(r) == WellFormed(r) /\ (r.op = "run" => r.key = <<r.sub, 0>>)

\* Some caller of Run knows of the submission, or one that has sent it still waits.
Justified(s) ==
    \/ s \in aware
    \/ \E w \in Workers : req[w].op = "run" /\ req[w].sub = s /\ sends[w] > 0

RunsJustified ==
    /\ \A t \in Admitted : turns[t].sub # None => Justified(turns[t].sub)
    /\ \A r \in late : r.op = "run" => Justified(r.sub)

\* A text has been delivered, or is in one request that may deliver it, or neither.
Steers(r, x) == r.op = "steer" /\ r.arg = x
SteersOnce ==
    /\ delivered \in [Texts -> {0, 1}]
    /\ \A x \in Texts :
          /\ delivered[x] = 1 => /\ \A w \in Workers : ~Steers(req[w], x)
                                 /\ \A r \in late : ~Steers(r, x)
          /\ \A r \in late, w \in Workers : ~(Steers(r, x) /\ Steers(req[w], x))
          /\ \A w, v \in Workers : Steers(req[w], x) /\ Steers(req[v], x) => w = v
          /\ \A r, q \in late : Steers(r, x) /\ Steers(q, x) => r = q

CallsOK ==
    /\ req \in [Workers -> Requests] /\ sends \in [Workers -> 0 .. SendBudget]
    /\ aware \subseteq Submissions /\ asked \subseteq Ids
    /\ \A w \in Workers : WellFormed(req[w])
    /\ \A r \in late : OnWire(r)

AgentInv == TurnsOK /\ CallsOK /\ RunsJustified /\ SteersOnce

\* The empty request and the empty turn have their types.
LEMMA NoReqType == NoReq \in Requests /\ NoTurn \in Turn
BY AgentAssumption DEF NoReq, NoTurn, Requests, Turn, Ops, Keys, Unkeyed, States, Busy, Ids

\* The invariant holds in a new session and in one whose agent is at work.
LEMMA AgentInitInv == AgentInit => AgentInv
<1> SUFFICES ASSUME AgentInit PROVE AgentInv
  OBVIOUS
<1>1. [NoTurn EXCEPT !.state = "running"] \in Turn
      /\ [NoTurn EXCEPT !.state = "running"].sub = None
      /\ [NoTurn EXCEPT !.state = "running"].state = "running"
  BY NoReqType DEF NoTurn, Turn, States, Busy
<1>2. TurnsOK
  <2>1. turns \in [Ids -> Turn] /\ last \in 0 .. MaxTurns
    BY <1>1, NoReqType, AgentAssumption DEF AgentInit
  <2>2. \A t \in Admitted : t \in Ids /\ turns[t] = [NoTurn EXCEPT !.state = "running"]
    BY AgentAssumption DEF AgentInit, Admitted, Ids
  <2> QED BY <1>1, <2>1, <2>2 DEF TurnsOK, OneTurnPerSubmission, CanceledByName
<1>3. CallsOK
  BY NoReqType, AgentAssumption DEF AgentInit, CallsOK, WellFormed, NoReq
<1>4. RunsJustified
  <2>1. \A t \in Admitted : t \in Ids /\ turns[t] = [NoTurn EXCEPT !.state = "running"]
    BY AgentAssumption DEF AgentInit, Admitted, Ids
  <2>2. \A t \in Admitted : turns[t].sub = None
    BY <1>1, <2>1
  <2>3. late = {}
    BY DEF AgentInit
  <2> QED BY <2>2, <2>3 DEF RunsJustified
<1>5. SteersOnce
  BY DEF AgentInit, SteersOnce, Steers, NoReq
<1> QED BY <1>2, <1>3, <1>4, <1>5 DEF AgentInv

-----------------------------------------------------------------------------
\* What the coordinator does with a request r: the turns stay in order, a turn of
\* a submission is an old one or the one r asked for, and guidance is delivered
\* only by a steer.
HandleKeeps(r, a) ==
    /\ TurnsOK'
    /\ \A t \in Admitted' : turns'[t].sub # None =>
          \/ t \in Admitted /\ turns'[t].sub = turns[t].sub
          \/ r.op = "run" /\ turns'[t].sub = r.sub /\ a # Refusal
    /\ \/ delivered' = delivered
       \/ r.op = "steer" /\ delivered' = [delivered EXCEPT ![r.arg] = @ + 1]

\* A step that touches no turn keeps the turns in order.
LEMMA TurnsUnchanged ==
    ASSUME TurnsOK, UNCHANGED <<turns, last, asked>>
    PROVE  TurnsOK' /\ Admitted' = Admitted
BY DEF TurnsOK, OneTurnPerSubmission, CanceledByName, Admitted

\* A step that gives no turn a submission keeps the turns in order.
LEMMA TurnsStep ==
    ASSUME TurnsOK, turns' \in [Ids -> Turn], last' \in 0 .. MaxTurns,
           \A t \in Admitted' : \/ turns'[t].sub = None
                                \/ /\ t \in Admitted
                                   /\ turns'[t].sub = turns[t].sub /\ turns'[t].key = turns[t].key,
           \A t \in Admitted' : turns'[t].state \in {"canceling", "canceled"} => t \in asked'
    PROVE  TurnsOK'
<1>1. \A t \in Admitted' : turns'[t].sub # None => turns'[t].key = <<turns'[t].sub, 0>>
  BY DEF TurnsOK
<1>2. OneTurnPerSubmission'
  BY DEF TurnsOK, OneTurnPerSubmission
<1>3. CanceledByName'
  BY DEF CanceledByName
<1> QED BY <1>1, <1>2, <1>3 DEF TurnsOK

\* A run on the wire opens at most the one turn of its key.
LEMMA HandleRunKeeps ==
    ASSUME TurnsOK, asked' = asked, NEW r, OnWire(r), r.op = "run", NEW a \in Replies,
           HandleRun(r, a)
    PROVE  HandleKeeps(r, a)
<1>1. CASE UNCHANGED <<turns, last>>
  BY <1>1, TurnsUnchanged DEF HandleRun, HandleKeeps
<1>2. CASE ~UNCHANGED <<turns, last>>
  <2> DEFINE new == [NoTurn EXCEPT !.sub = r.sub, !.key = r.key, !.state = "running"]
  <2>1. /\ \A t \in Admitted : turns[t].key # r.key
        /\ last < MaxTurns /\ last' = last + 1
        /\ turns' = [turns EXCEPT ![last + 1] = new] /\ delivered' = delivered
        /\ a = TurnReply(last + 1, "running")
    BY <1>2 DEF HandleRun
  <2>2. new \in Turn /\ new.sub = r.sub /\ new.key = <<r.sub, 0>> /\ new.state = "running"
    BY NoReqType DEF OnWire, WellFormed, Requests, NoTurn, Turn, States, Busy
  <2>3. last + 1 \in Ids /\ last \in Nat /\ last' \in 0 .. MaxTurns
        /\ Admitted' = Admitted \cup {last + 1} /\ last + 1 \notin Admitted
        /\ Admitted \subseteq Ids
    BY <2>1, AgentAssumption DEF TurnsOK, Ids, Admitted
  <2>4. turns' \in [Ids -> Turn] /\ turns'[last + 1] = new
        /\ \A t \in Admitted : turns'[t] = turns[t]
    BY <2>1, <2>2, <2>3 DEF TurnsOK
  <2>5. \A t \in Admitted : turns[t].sub # r.sub
    <3>1. r.key = <<r.sub, 0>> /\ r.sub # None
      BY AgentAssumption DEF OnWire, WellFormed
    <3> QED BY <3>1, <2>1 DEF TurnsOK
  <2>6. TurnsOK'
    <3>1. \A t \in Admitted' : turns'[t].sub # None => turns'[t].key = <<turns'[t].sub, 0>>
      BY <2>2, <2>3, <2>4 DEF TurnsOK
    <3>2. OneTurnPerSubmission'
      <4> SUFFICES ASSUME NEW t \in Admitted', NEW u \in Admitted',
                          turns'[t].sub = turns'[u].sub, turns'[t].sub # None
                   PROVE  t = u
        BY DEF OneTurnPerSubmission
      <4> HIDE DEF new
      <4>1. CASE t \in Admitted /\ u \in Admitted
        BY <2>4, <4>1 DEF TurnsOK, OneTurnPerSubmission
      <4>2. CASE t \notin Admitted \/ u \notin Admitted
        BY <2>2, <2>3, <2>4, <2>5, <4>2
      <4> QED BY <4>1, <4>2
    <3>3. CanceledByName'
      BY <2>2, <2>3, <2>4 DEF TurnsOK, CanceledByName
    <3> QED BY <2>3, <2>4, <3>1, <3>2, <3>3 DEF TurnsOK
  <2>7. a # Refusal
    BY <2>1, <2>3 DEF TurnReply, Refusal
  <2> QED BY <2>1, <2>2, <2>3, <2>4, <2>6, <2>7 DEF HandleKeeps
<1> QED BY <1>1, <1>2

\* An answer opens a turn of no submission.
LEMMA HandleAnswerKeeps ==
    ASSUME TurnsOK, asked' = asked, NEW r, OnWire(r), r.op = "answer", NEW a,
           HandleAnswer(r, a)
    PROVE  HandleKeeps(r, a)
<1>1. CASE UNCHANGED <<turns, last>>
  BY <1>1, TurnsUnchanged DEF HandleAnswer, HandleKeeps
<1>2. CASE ~UNCHANGED <<turns, last>>
  <2> DEFINE old == [turns[r.turn] EXCEPT !.state = "answered", !.answer = r.arg,
                                          !.next = last + 1]
             new == [NoTurn EXCEPT !.state = "running"]
  <2>1. /\ r.turn = last /\ last < MaxTurns /\ last' = last + 1 /\ delivered' = delivered
        /\ turns' = [turns EXCEPT ![r.turn] = old, ![last + 1] = new]
    BY <1>2 DEF HandleAnswer
  <2>2. last \in Ids /\ last + 1 \in Ids /\ last' \in 0 .. MaxTurns
        /\ Admitted' = Admitted \cup {last + 1} /\ last + 1 \notin Admitted
        /\ Admitted \subseteq Ids /\ last \in Admitted /\ last # last + 1
    BY <2>1, AgentAssumption DEF TurnsOK, OnWire, WellFormed, Ids, Admitted
  <2>3. new \in Turn /\ new.sub = None /\ new.state = "running"
    BY NoReqType DEF NoTurn, Turn, States, Busy
  <2>4. turns[last] \in Turn /\ last + 1 \in 0 .. MaxTurns
    BY <2>2 DEF TurnsOK, Ids
  <2>5. old \in Turn /\ old.sub = turns[last].sub /\ old.key = turns[last].key
        /\ old.state = "answered"
    <3>1. r.arg \in Answers
      BY DEF OnWire, WellFormed
    <3> QED BY <2>1, <2>4, <3>1 DEF Turn, States, Busy
  <2>6. turns' \in [Ids -> Turn] /\ turns'[last + 1] = new /\ turns'[last] = old
        /\ \A t \in Admitted : t # last => turns'[t] = turns[t]
    BY <2>1, <2>2, <2>3, <2>5 DEF TurnsOK
  <2>7. TurnsOK'
    <3>1. \A t \in Admitted' : \/ turns'[t].sub = None
                               \/ /\ t \in Admitted
                                  /\ turns'[t].sub = turns[t].sub /\ turns'[t].key = turns[t].key
      BY <2>2, <2>3, <2>5, <2>6
    <3>2. \A t \in Admitted' : turns'[t].state \in {"canceling", "canceled"} => t \in asked'
      BY <2>2, <2>3, <2>5, <2>6 DEF TurnsOK, CanceledByName
    <3> QED BY <2>2, <2>6, <3>1, <3>2, TurnsStep
  <2> QED BY <2>1, <2>2, <2>3, <2>5, <2>6, <2>7 DEF HandleKeeps
<1> QED BY <1>1, <1>2

\* Only the state of one turn changes.
LEMMA StateStep ==
    ASSUME TurnsOK, NEW t \in Ids, NEW s \in States,
           turns' = [turns EXCEPT ![t].state = s], last' = last, asked \subseteq asked',
           s \in {"canceling", "canceled"} =>
               t \in asked' \/ turns[t].state \in {"canceling", "canceled"}
    PROVE  /\ TurnsOK' /\ Admitted' = Admitted
           /\ \A u \in Admitted' : turns'[u].sub = turns[u].sub
<1>1. Admitted' = Admitted /\ Admitted \subseteq Ids
  <2>1. last' = last /\ last \in 0 .. MaxTurns /\ MaxTurns \in Nat
    BY AgentAssumption DEF TurnsOK
  <2> QED BY <2>1 DEF Admitted, Ids
<1>2. turns[t] \in Turn
  BY DEF TurnsOK
<1>3. [turns[t] EXCEPT !.state = s] \in Turn
  BY <1>2 DEF Turn
<1>4. turns' \in [Ids -> Turn]
  BY <1>3 DEF TurnsOK
<1>5. \A u \in Ids : turns'[u].sub = turns[u].sub /\ turns'[u].key = turns[u].key
                     /\ turns'[u].state = IF u = t THEN s ELSE turns[u].state
  <2> TAKE u \in Ids
  <2>1. turns[u] \in Turn
    BY DEF TurnsOK
  <2>2. turns'[u] = IF u = t THEN [turns[u] EXCEPT !.state = s] ELSE turns[u]
    BY DEF TurnsOK
  <2> QED BY <2>1, <2>2 DEF Turn
<1>6. \A u \in Admitted' : turns'[u].state \in {"canceling", "canceled"} => u \in asked'
  BY <1>1, <1>5 DEF TurnsOK, CanceledByName
<1>7. TurnsOK'
  BY <1>1, <1>4, <1>5, <1>6, TurnsStep DEF TurnsOK
<1> QED BY <1>1, <1>5, <1>7

\* A cancel on the wire cancels only the turn it names.
LEMMA HandleCancelKeeps ==
    ASSUME TurnsOK, asked' = asked, NEW r, OnWire(r), r.op = "cancel", NEW a,
           HandleCancel(r, a)
    PROVE  HandleKeeps(r, a)
<1> DEFINE s  == turns[r.turn].state
           to == CASE s = "running" -> "canceling" [] s = "needs_input" -> "canceled"
                   [] OTHER -> s
<1>1. r.turn \in Ids /\ r.turn \in asked
  BY DEF OnWire, WellFormed
<1>2. s \in States
  BY <1>1 DEF TurnsOK, Turn
<1>3. to \in States
  BY <1>2 DEF States, Busy
<1>4. turns' = [turns EXCEPT ![r.turn].state = to] /\ last' = last /\ delivered' = delivered
  BY DEF HandleCancel
<1> HIDE DEF to
<1>5. TurnsOK' /\ Admitted' = Admitted /\ \A u \in Admitted' : turns'[u].sub = turns[u].sub
  BY <1>1, <1>3, <1>4, StateStep
<1> QED BY <1>4, <1>5 DEF HandleKeeps

\* Whatever the request, what HandleKeeps says.
LEMMA HandleKeepsAll ==
    ASSUME TurnsOK, asked' = asked, NEW r, OnWire(r), NEW a \in Replies, Handle(r, a)
    PROVE  HandleKeeps(r, a)
<1>1. CASE r.op = "run" /\ HandleRun(r, a)
  BY <1>1, HandleRunKeeps
<1>2. CASE r.op = "answer" /\ HandleAnswer(r, a)
  BY <1>2, HandleAnswerKeeps
<1>3. CASE r.op = "cancel" /\ HandleCancel(r, a)
  BY <1>3, HandleCancelKeeps
<1>4. CASE r.op = "steer" /\ HandleSteer(r, a)
  BY <1>4, TurnsUnchanged DEF HandleSteer, HandleKeeps
<1>5. CASE r.op = "wait" /\ HandleRead(r, a)
  BY <1>5, TurnsUnchanged DEF HandleRead, server, HandleKeeps
<1> QED BY <1>1, <1>2, <1>3, <1>4, <1>5 DEF Handle

-----------------------------------------------------------------------------
\* A step of a call, split into what becomes of the request it sends and what the
\* call does next.

\* What becomes of the request of w, if it sends one: new is whether a submission
\* may get its turn.
Takes(w, new) ==
    /\ TurnsOK'
    /\ \A t \in Admitted' : turns'[t].sub # None =>
          \/ t \in Admitted /\ turns'[t].sub = turns[t].sub
          \/ new /\ req[w].op = "run" /\ turns'[t].sub = req[w].sub
    /\ \/ late' = late
       \/ new /\ late' = late \cup {Sent(w)} /\ delivered' = delivered
    /\ \/ delivered' = delivered
       \/ req[w].op = "steer" /\ delivered' = [delivered EXCEPT ![req[w].arg] = @ + 1]

\* What a call sends carries its submission's key and the turn it names (postAgentTurn).
LEMMA SentOnWire ==
    ASSUME CallsOK, NEW w \in Workers
    PROVE  OnWire(Sent(w)) /\ Sent(w).op = req[w].op /\ Sent(w).sub = req[w].sub
           /\ Sent(w).arg = req[w].arg
<1> DEFINE k == KeyOf(req[w], sends[w])
<1>1. req[w] \in Requests /\ WellFormed(req[w])
  BY DEF CallsOK
<1>2. k \in Keys \cup {Unkeyed} /\ (req[w].op = "run" => k = <<req[w].sub, 0>>)
  BY <1>1, AgentAssumption DEF WellFormed, KeyOf, Keys
<1> HIDE DEF k
<1>3. Sent(w) = [req[w] EXCEPT !.key = k, !.turn = req[w].turn]
  BY DEF Sent, TurnOf, k
<1>4. Sent(w) \in Requests /\ Sent(w).op = req[w].op /\ Sent(w).sub = req[w].sub
      /\ Sent(w).arg = req[w].arg /\ Sent(w).turn = req[w].turn /\ Sent(w).key = k
  BY <1>1, <1>2, <1>3 DEF Requests
<1> QED BY <1>1, <1>2, <1>4 DEF OnWire, WellFormed

\* A send that never arrives changes nothing.
LEMMA TakesNothing ==
    ASSUME AgentInv, asked' = asked, NEW w \in Workers, NEW new \in BOOLEAN,
           UNCHANGED <<server, late>>
    PROVE  Takes(w, new)
BY TurnsUnchanged DEF AgentInv, Takes, server

\* A send that is answered has had the effect of its request at most once.
LEMMA TakesAnswer ==
    ASSUME AgentInv, asked' = asked, NEW w \in Workers, late' = late,
           NEW a \in Replies, Handle(Sent(w), a)
    PROVE  Takes(w, a # Refusal)
<1>1. HandleKeeps(Sent(w), a)
  BY SentOnWire, HandleKeepsAll DEF AgentInv
<1> QED BY <1>1, SentOnWire DEF Takes, HandleKeeps, AgentInv

\* A send without an answer may have had its effect, or may have it later.
LEMMA TakesUnanswered ==
    ASSUME AgentInv, asked' = asked, NEW w \in Workers, Unanswered(w)
    PROVE  Takes(w, TRUE)
<1>1. CASE UNCHANGED <<server, late>>
  BY <1>1, TakesNothing
<1>2. CASE UNCHANGED late /\ \E a \in Replies : Handle(Sent(w), a)
  <2>1. PICK a \in Replies : Handle(Sent(w), a)
    BY <1>2
  <2>2. Takes(w, a # Refusal)
    BY <1>2, <2>1, TakesAnswer
  <2> QED BY <2>2 DEF Takes
<1>3. CASE late' = late \cup {Sent(w)} /\ UNCHANGED server
  BY <1>3, TurnsUnchanged DEF AgentInv, Takes, server
<1> QED BY <1>1, <1>2, <1>3 DEF Unanswered

\* The requests on the wire stay well formed.
LEMMA LateOnWire ==
    ASSUME AgentInv, asked' = asked, NEW w \in Workers, NEW new, Takes(w, new)
    PROVE  \A r \in late' : OnWire(r)'
BY SentOnWire DEF AgentInv, CallsOK, Takes, OnWire, WellFormed

\* Runs stay justified when what justified them does and the sender of a new one
\* looks after it.
LEMMA TakenJustified ==
    ASSUME AgentInv, NEW w \in Workers, NEW new, Takes(w, new),
           \A s : Justified(s) => Justified(s)',
           \A s : new /\ req[w].op = "run" /\ s = req[w].sub => Justified(s)'
    PROVE  RunsJustified'
<1>1. ASSUME NEW t \in Admitted', turns'[t].sub # None PROVE Justified(turns[t].sub)'
  <2> DEFINE s == turns'[t].sub
  <2>1. CASE t \in Admitted /\ s = turns[t].sub
    <3>1. Justified(s)
      BY <1>1, <2>1 DEF AgentInv, RunsJustified
    <3> QED BY <3>1 DEF Justified
  <2>2. CASE new /\ req[w].op = "run" /\ s = req[w].sub
    BY <2>2 DEF Justified
  <2> QED BY <1>1, <2>1, <2>2 DEF Takes
<1>2. ASSUME NEW r \in late', r.op = "run" PROVE Justified(r.sub)'
  <2>1. CASE r \in late
    <3>1. Justified(r.sub)
      BY <1>2, <2>1 DEF AgentInv, RunsJustified
    <3> QED BY <3>1
  <2>2. CASE new /\ r = Sent(w)
    BY <1>2, <2>2, SentOnWire DEF AgentInv
  <2> QED BY <2>1, <2>2 DEF Takes
<1> QED BY <1>1, <1>2 DEF RunsJustified

\* Sending again keeps the invariant for all but a Steer.
LEMMA RepeatInv ==
    ASSUME AgentInv, asked' = asked, NEW w \in Workers, Takes(w, TRUE), Repeat(w), ~Idle(w),
           req[w].op # "steer", req[w].op = "wait" \/ sends[w] < SendBudget
    PROVE  AgentInv'
<1>1. \A r \in late' : OnWire(r)'
  BY LateOnWire
<1>2. sends' \in [Workers -> 0 .. SendBudget] /\ \A v \in Workers : sends'[v] >= sends[v]
      /\ (req[w].op = "run" => sends'[w] > 0)
  BY AgentAssumption DEF AgentInv, CallsOK, Repeat
<1>3. CallsOK'
  BY <1>1, <1>2 DEF AgentInv, CallsOK, Repeat, WellFormed
<1>4. \A s : Justified(s) => Justified(s)'
  <2> SUFFICES ASSUME NEW s, Justified(s) PROVE Justified(s)'
    OBVIOUS
  <2>1. \A v \in Workers : sends[v] > 0 => sends'[v] > 0
    BY <1>2 DEF AgentInv, CallsOK
  <2> QED BY <2>1 DEF Justified, Repeat
<1>5. \A s : req[w].op = "run" /\ s = req[w].sub => Justified(s)'
  BY <1>2 DEF Justified, Repeat
<1>6. RunsJustified'
  BY <1>4, <1>5, TakenJustified
<1>7. SteersOnce'
  <2>1. delivered' = delivered /\ req' = req
    BY DEF Takes, Repeat
  <2>2. \A r \in late', x \in Texts : Steers(r, x) => r \in late
    BY SentOnWire DEF Takes, Steers, AgentInv
  <2> QED BY <2>1, <2>2 DEF AgentInv, SteersOnce
<1> QED BY <1>3, <1>6, <1>7 DEF AgentInv, Takes

\* Returning keeps the invariant if a caller that may have started a turn is aware of it.
LEMMA ReturnInv ==
    ASSUME AgentInv, asked' = asked, NEW w \in Workers, NEW new \in BOOLEAN, Takes(w, new),
           ~Idle(w), NEW o, Return(w, o), o \notin Nothing \/ (~new /\ sends[w] = 0)
    PROVE  AgentInv'
<1>1. \A r \in late' : OnWire(r)'
  BY LateOnWire
<1>2. sends' \in [Workers -> 0 .. SendBudget] /\ req' \in [Workers -> Requests]
      /\ req'[w] = NoReq /\ \A v \in Workers : v # w => req'[v] = req[v] /\ sends'[v] = sends[v]
  BY AgentAssumption, NoReqType DEF AgentInv, CallsOK, Return
<1>3. aware' \subseteq Submissions /\ aware \subseteq aware'
  BY DEF AgentInv, CallsOK, Return
<1>4. WellFormed(NoReq)'
  BY NoReqType DEF WellFormed, NoReq
<1>5. CallsOK'
  <2>1. \A v \in Workers : WellFormed(req[v])'
    BY <1>2, <1>4 DEF AgentInv, CallsOK, WellFormed
  <2> QED BY <1>1, <1>2, <1>3, <2>1 DEF AgentInv, CallsOK
<1>6. ASSUME o \notin Nothing, req[w].op = "run" PROVE req[w].sub \in aware'
  BY <1>6 DEF Return, AgentInv, CallsOK, WellFormed
<1>7. \A s : Justified(s) => Justified(s)'
  <2> SUFFICES ASSUME NEW s, Justified(s), s \notin aware PROVE Justified(s)'
    BY <1>3 DEF Justified
  <2>1. PICK v \in Workers : req[v].op = "run" /\ req[v].sub = s /\ sends[v] > 0
    BY DEF Justified
  <2>2. CASE v = w
    BY <1>6, <2>1, <2>2 DEF Justified
  <2>3. CASE v # w
    BY <1>2, <2>1, <2>3 DEF Justified
  <2> QED BY <2>2, <2>3
<1>8. \A s : new /\ req[w].op = "run" /\ s = req[w].sub => Justified(s)'
  BY <1>6 DEF Justified
<1>9. RunsJustified'
  BY <1>7, <1>8, TakenJustified
<1>10. SteersOnce'
  <2>1. \A x \in Texts, v \in Workers : Steers(req'[v], x) <=> v # w /\ Steers(req[v], x)
    BY <1>2 DEF Steers, NoReq
  <2>2. \A x \in Texts : Steers(Sent(w), x) <=> Steers(req[w], x)
    BY SentOnWire DEF Steers, AgentInv
  <2>3. CASE delivered' = delivered
    BY <2>1, <2>2, <2>3 DEF AgentInv, SteersOnce, Takes
  <2>4. CASE delivered' # delivered
    <3>1. late' = late /\ req[w].op = "steer" /\ delivered' = [delivered EXCEPT ![req[w].arg] = @ + 1]
      BY <2>4 DEF Takes
    <3> DEFINE x == req[w].arg
    <3>2. x \in Texts /\ Steers(req[w], x)
      BY <3>1 DEF AgentInv, CallsOK, WellFormed, Steers
    <3>3. delivered[x] = 0
      BY <3>2 DEF AgentInv, SteersOnce
    <3>4. delivered' \in [Texts -> {0, 1}] /\ \A y \in Texts : y # x => delivered'[y] = delivered[y]
      BY <3>1, <3>2, <3>3 DEF AgentInv, SteersOnce
    <3> QED BY <2>1, <3>1, <3>2, <3>3, <3>4 DEF AgentInv, SteersOnce
  <2> QED BY <2>3, <2>4
<1> QED BY <1>5, <1>9, <1>10 DEF AgentInv, Takes

-----------------------------------------------------------------------------
\* The other steps: a call begins, the agent moves, a late request arrives.

\* Beginning a call keeps the invariant if its text is steered nowhere else.
LEMMA CallInv ==
    ASSUME AgentInv, NEW w \in Workers, NEW r, Call(w, r), WellFormed(r)',
           asked \subseteq asked', asked' \subseteq Ids,
           \A x \in Texts : Steers(r, x) => /\ \A v \in Workers : ~Steers(req[v], x)
                                            /\ \A q \in late : ~Steers(q, x)
                                            /\ delivered[x] = 0
    PROVE  AgentInv'
<1>1. req' = [req EXCEPT ![w] = r] /\ UNCHANGED <<turns, last, delivered, late, sends, aware>>
      /\ req[w].op = "none"
  BY DEF Call, Idle, server
<1>2. req' \in [Workers -> Requests] /\ req'[w] = r /\ \A v \in Workers : v # w => req'[v] = req[v]
  BY <1>1 DEF AgentInv, CallsOK, WellFormed
<1>3. TurnsOK'
  BY <1>1 DEF AgentInv, TurnsOK, OneTurnPerSubmission, CanceledByName, Admitted
<1>4. CallsOK'
  BY <1>1, <1>2 DEF AgentInv, CallsOK, WellFormed, OnWire
<1>5. RunsJustified'
  <2>1. \A s : Justified(s) => Justified(s)'
    BY <1>1, <1>2 DEF Justified
  <2>2. Admitted' = Admitted
    BY <1>1 DEF Admitted
  <2> QED BY <1>1, <2>1, <2>2 DEF AgentInv, RunsJustified
<1>6. SteersOnce'
  <2>1. \A x \in Texts, v \in Workers : /\ v = w => (Steers(req'[v], x) <=> Steers(r, x))
                                        /\ v # w => (Steers(req'[v], x) <=> Steers(req[v], x))
    BY <1>2 DEF Steers
  <2>2. \A x \in Texts : Steers(r, x) => \A v \in Workers : Steers(req'[v], x) => v = w
    BY <2>1
  <2>3. \A x \in Texts : ~Steers(r, x) =>
            \A v \in Workers : Steers(req'[v], x) => Steers(req[v], x)
    BY <2>1
  <2>4. UNCHANGED <<delivered, late>> /\ delivered \in [Texts -> {0, 1}]
    BY <1>1 DEF AgentInv, SteersOnce
  <2>5. ASSUME NEW x \in Texts, Steers(r, x), NEW v \in Workers, Steers(req'[v], x)
        PROVE  delivered'[x] = 0 /\ v = w /\ \A q \in late' : ~Steers(q, x)
    BY <2>2, <2>4, <2>5
  <2>6. ASSUME NEW x \in Texts, ~Steers(r, x), NEW v \in Workers, Steers(req'[v], x)
        PROVE  Steers(req[v], x)
    BY <2>3, <2>6
  <2>7. ASSUME NEW x \in Texts
        PROVE  /\ delivered'[x] = 1 => /\ \A v \in Workers : ~Steers(req'[v], x)
                                       /\ \A q \in late' : ~Steers(q, x)
               /\ \A q \in late', v \in Workers : ~(Steers(q, x) /\ Steers(req'[v], x))
               /\ \A u, v \in Workers : Steers(req'[u], x) /\ Steers(req'[v], x) => u = v
               /\ \A p, q \in late' : Steers(p, x) /\ Steers(q, x) => p = q
    <3>1. CASE Steers(r, x)
      BY <2>4, <2>5, <3>1 DEF AgentInv, SteersOnce
    <3>2. CASE ~Steers(r, x)
      BY <2>4, <2>6, <3>2 DEF AgentInv, SteersOnce
    <3> QED BY <3>1, <3>2
  <2> QED BY <2>4, <2>7 DEF SteersOnce
<1> QED BY <1>3, <1>4, <1>5, <1>6 DEF AgentInv

\* The requests of the calls are well formed; asked is as it is after the step.
LEMMA BeginsWellFormed ==
    ASSUME NEW A \in SUBSET Ids, asked = A
    PROVE  /\ \A s \in Submissions : WellFormed([NoReq EXCEPT !.op = "run", !.sub = s])
           /\ \A t \in Ids : WellFormed([NoReq EXCEPT !.op = "wait", !.turn = t])
           /\ \A t \in Ids, x \in Answers :
                 WellFormed([NoReq EXCEPT !.op = "answer", !.turn = t, !.arg = x])
           /\ \A t \in Ids, x \in Texts :
                 WellFormed([NoReq EXCEPT !.op = "steer", !.turn = t, !.arg = x])
           /\ \A t \in A : WellFormed([NoReq EXCEPT !.op = "cancel", !.turn = t])
<1> USE DEF WellFormed, Requests, Ops
<1>1. NoReq \in Requests /\ NoReq.sub = None
  BY NoReqType DEF NoReq
<1>2. \A t \in Ids : t \in 0 .. MaxTurns
  BY DEF Ids
<1>3. ASSUME NEW s \in Submissions PROVE WellFormed([NoReq EXCEPT !.op = "run", !.sub = s])
  BY <1>1
<1>4. ASSUME NEW t \in Ids PROVE WellFormed([NoReq EXCEPT !.op = "wait", !.turn = t])
  BY <1>1, <1>2
<1>5. ASSUME NEW t \in Ids, NEW x \in Answers
      PROVE  WellFormed([NoReq EXCEPT !.op = "answer", !.turn = t, !.arg = x])
  BY <1>1, <1>2
<1>6. ASSUME NEW t \in Ids, NEW x \in Texts
      PROVE  WellFormed([NoReq EXCEPT !.op = "steer", !.turn = t, !.arg = x])
  BY <1>1, <1>2
<1>7. ASSUME NEW t \in A PROVE WellFormed([NoReq EXCEPT !.op = "cancel", !.turn = t])
  BY <1>1, <1>2
<1> HIDE DEF WellFormed, Requests, Ops
<1> QED BY <1>3, <1>4, <1>5, <1>6, <1>7

\* The agent's own moves keep the invariant.
LEMMA TurnMovesInv ==
    ASSUME AgentInv, NEW t \in Ids, TurnMoves(t)
    PROVE  AgentInv'
<1>1. PICK to \in States : /\ turns' = [turns EXCEPT ![t].state = to]
                           /\ to = "canceled" => turns[t].state = "canceling"
                           /\ to # "canceling"
  BY DEF TurnMoves, States, Busy
<1>2. UNCHANGED <<last, delivered, late, req, sends, aware, asked>>
  BY DEF TurnMoves, calls
<1>3. TurnsOK' /\ Admitted' = Admitted /\ \A u \in Admitted' : turns'[u].sub = turns[u].sub
  BY <1>1, <1>2, StateStep DEF AgentInv
<1>4. \A s : Justified(s) => Justified(s)'
  BY <1>2 DEF Justified
<1>5. RunsJustified'
  <2>1. \A u \in Admitted' : turns'[u].sub # None => Justified(turns[u].sub)'
    <3> TAKE u \in Admitted'
    <3>1. turns[u].sub # None => Justified(turns[u].sub)
      BY <1>3 DEF AgentInv, RunsJustified
    <3> QED BY <1>2, <1>3, <3>1 DEF Justified
  <2> QED BY <1>2, <1>4, <2>1 DEF AgentInv, RunsJustified
<1> QED BY <1>2, <1>3, <1>5 DEF AgentInv, CallsOK, SteersOnce, WellFormed, OnWire

\* A request that arrives late keeps the invariant.
LEMMA ArrivesInv ==
    ASSUME AgentInv, NEW r \in late, Arrives(r)
    PROVE  AgentInv'
<1>1. late' = late \ {r} /\ UNCHANGED <<req, sends, aware, asked>> /\ OnWire(r)
  BY DEF Arrives, calls, AgentInv, CallsOK
<1>2. \E a \in Replies : HandleKeeps(r, a)
  <2>1. CASE \E a \in Replies : Handle(r, a)
    BY <1>1, <2>1, HandleKeepsAll DEF AgentInv
  <2>2. CASE UNCHANGED server
    BY <1>1, <2>2, TurnsUnchanged DEF AgentInv, HandleKeeps, server, Replies
  <2> QED BY <2>1, <2>2 DEF Arrives
<1>3. CallsOK'
  BY <1>1 DEF AgentInv, CallsOK, WellFormed, OnWire
<1>4. \A s : Justified(s) <=> Justified(s)'
  BY <1>1 DEF Justified
<1>5. RunsJustified'
  <2>1. \A t \in Admitted' : turns'[t].sub # None => Justified(turns[t].sub)'
    <3> SUFFICES ASSUME NEW t \in Admitted', turns'[t].sub # None PROVE Justified(turns[t].sub)'
      OBVIOUS
    <3> DEFINE s == turns'[t].sub
    <3>1. Justified(s)
      BY <1>2 DEF HandleKeeps, AgentInv, RunsJustified
    <3> QED BY <1>1, <3>1 DEF Justified
  <2> QED BY <1>1, <1>4, <2>1 DEF AgentInv, RunsJustified
<1>6. SteersOnce'
  <2>1. CASE delivered' = delivered
    BY <1>1, <2>1 DEF AgentInv, SteersOnce
  <2>2. CASE delivered' # delivered
    <3> DEFINE x == r.arg
    <3>1. Steers(r, x) /\ x \in Texts /\ delivered' = [delivered EXCEPT ![x] = @ + 1]
      BY <1>1, <1>2, <2>2 DEF HandleKeeps, Steers, OnWire, WellFormed
    <3>2. delivered[x] = 0
      BY <3>1 DEF AgentInv, SteersOnce
    <3>3. delivered' \in [Texts -> {0, 1}] /\ \A y \in Texts : y # x => delivered'[y] = delivered[y]
      BY <3>1, <3>2 DEF AgentInv, SteersOnce
    <3> QED BY <1>1, <3>1, <3>2, <3>3 DEF AgentInv, SteersOnce
  <2> QED BY <2>1, <2>2
<1> QED BY <1>2, <1>3, <1>5, <1>6 DEF AgentInv, HandleKeeps

\* Every step of the agent calls and the coordinator keeps the invariant.
LEMMA AgentNextInv == AgentInv /\ [AgentNext]_agentVars => AgentInv'
<1> SUFFICES ASSUME AgentInv, [AgentNext]_agentVars PROVE AgentInv'
  OBVIOUS
<1>1. ASSUME NEW w \in Workers, ReceiveTurn(w) PROVE AgentInv'
  <2>1. PICK a \in TurnReplies : /\ Handle(Sent(w), a)
                                 /\ \/ req[w].op = "wait" /\ Repeat(w)
                                    \/ \E o \in {"turn", "undecoded"} : Return(w, o)
    BY <1>1 DEF ReceiveTurn
  <2>2. ~Idle(w) /\ late' = late /\ asked' = asked
    BY <1>1 DEF ReceiveTurn, CanSend
  <2>3. Takes(w, a # Refusal)
    BY <2>1, <2>2, TakesAnswer DEF Replies
  <2>4. Takes(w, TRUE)
    BY <2>3 DEF Takes
  <2>5. CASE req[w].op = "wait" /\ Repeat(w)
    BY <2>2, <2>4, <2>5, RepeatInv
  <2>6. ASSUME NEW o \in {"turn", "undecoded"}, Return(w, o) PROVE AgentInv'
    BY <2>2, <2>4, <2>6, ReturnInv DEF Nothing
  <2> QED BY <2>1, <2>5, <2>6
<1>2. ASSUME NEW w \in Workers, ReceiveRefusal(w) PROVE AgentInv'
  <2>1. ~Idle(w) /\ late' = late /\ asked' = asked
    BY <1>2 DEF ReceiveRefusal, CanSend
  <2>2. Takes(w, FALSE)
    <3>1. CASE Handle(Sent(w), Refusal)
      <4>1. Takes(w, Refusal # Refusal)
        BY <2>1, <3>1, TakesAnswer DEF Replies
      <4> QED BY <4>1 DEF Takes
    <3>2. CASE UNCHANGED server
      BY <2>1, <3>2, TakesNothing
    <3> QED BY <1>2, <3>1, <3>2 DEF ReceiveRefusal
  <2>3. CASE req[w].op = "wait" /\ Repeat(w)
    <3>1. Takes(w, TRUE)
      BY <2>2 DEF Takes
    <3> QED BY <2>1, <2>3, <3>1, RepeatInv
  <2>4. CASE sends[w] = 0 /\ Return(w, "refused")
    BY <2>1, <2>2, <2>4, ReturnInv
  <2>5. CASE Return(w, "refusedLater")
    BY <2>1, <2>2, <2>5, ReturnInv DEF Nothing
  <2> QED BY <1>2, <2>3, <2>4, <2>5 DEF ReceiveRefusal
<1>3. ASSUME NEW w \in Workers, Lost(w) PROVE AgentInv'
  <2>1. ~Idle(w) /\ asked' = asked /\ Takes(w, TRUE)
    BY <1>3, TakesUnanswered DEF Lost, CanSend
  <2>2. CASE req[w].op = "wait" /\ Repeat(w)
    BY <2>1, <2>2, RepeatInv
  <2>3. CASE Resends(req[w].op) /\ Repeat(w)
    BY <1>3, <2>1, <2>3, RepeatInv DEF Resends, Lost, CanSend
  <2>4. CASE Return(w, LostOutcome)
    BY <2>1, <2>4, ReturnInv DEF LostOutcome, Nothing
  <2> QED BY <1>3, <2>2, <2>3, <2>4 DEF Lost
<1>4. ASSUME NEW w \in Workers, ContextEnds(w) PROVE AgentInv'
  <2>1. ~Idle(w) /\ asked' = asked
    BY <1>4 DEF ContextEnds
  <2>2. CASE UNCHANGED <<server, late>> /\ sends[w] = 0 /\ Return(w, "unsent")
    BY <2>1, <2>2, TakesNothing, ReturnInv
  <2>3. CASE Return(w, "unconfirmed")
    <3>1. Takes(w, TRUE)
      BY <1>4, <2>1, TakesNothing, TakesUnanswered DEF ContextEnds
    <3> QED BY <2>1, <2>3, <3>1, ReturnInv DEF Nothing
  <2> QED BY <1>4, <2>2, <2>3 DEF ContextEnds
<1>5. ASSUME NEW w \in Workers, WorkerCrashes(w) PROVE AgentInv'
  <2>1. ~Idle(w) /\ asked' = asked /\ Return(w, "crash")
    BY <1>5 DEF WorkerCrashes
  <2>2. Takes(w, TRUE)
    BY <1>5, <2>1, TakesNothing, TakesUnanswered DEF WorkerCrashes
  <2> QED BY <2>1, <2>2, ReturnInv DEF Nothing
<1>6. \A t \in Admitted : t \in Ids
  BY AgentAssumption DEF AgentInv, TurnsOK, Admitted, Ids
<1>7. asked \in SUBSET Ids
  BY DEF AgentInv, CallsOK
<1>8. ASSUME NEW w \in Workers, NEW s \in Submissions, BeginRun(w, s) PROVE AgentInv'
  <2> DEFINE r == [NoReq EXCEPT !.op = "run", !.sub = s]
  <2>1. WellFormed(r) /\ asked' = asked /\ Call(w, r)
    BY <1>7, <1>8, BeginsWellFormed DEF BeginRun
  <2>2. WellFormed(r)' /\ \A x \in Texts : ~Steers(r, x)
    BY <2>1 DEF WellFormed, Steers, NoReq
  <2> QED BY <1>7, <2>1, <2>2, CallInv
<1>9. ASSUME NEW w \in Workers, NEW t \in Admitted, BeginWait(w, t) PROVE AgentInv'
  <2> DEFINE r == [NoReq EXCEPT !.op = "wait", !.turn = t]
  <2>1. WellFormed(r) /\ asked' = asked /\ Call(w, r)
    BY <1>6, <1>7, <1>9, BeginsWellFormed DEF BeginWait
  <2>2. WellFormed(r)' /\ \A x \in Texts : ~Steers(r, x)
    BY <2>1 DEF WellFormed, Steers, NoReq
  <2> QED BY <1>7, <2>1, <2>2, CallInv
<1>10. ASSUME NEW w \in Workers, NEW t \in Admitted, NEW x \in Answers, BeginAnswer(w, t, x)
       PROVE  AgentInv'
  <2> DEFINE r == [NoReq EXCEPT !.op = "answer", !.turn = t, !.arg = x]
  <2>1. WellFormed(r) /\ asked' = asked /\ Call(w, r)
    BY <1>6, <1>7, <1>10, BeginsWellFormed DEF BeginAnswer
  <2>2. WellFormed(r)' /\ \A y \in Texts : ~Steers(r, y)
    BY <2>1 DEF WellFormed, Steers, NoReq
  <2> QED BY <1>7, <2>1, <2>2, CallInv
<1>11. ASSUME NEW w \in Workers, NEW t \in Admitted, NEW x \in Texts, BeginSteer(w, t, x)
       PROVE  AgentInv'
  <2> DEFINE r == [NoReq EXCEPT !.op = "steer", !.turn = t, !.arg = x]
  <2>1. WellFormed(r) /\ asked' = asked /\ Call(w, r)
    BY <1>6, <1>7, <1>11, BeginsWellFormed DEF BeginSteer
  <2>2. WellFormed(r)' /\ \A y \in Texts : Steers(r, y) => y = x
    BY <2>1 DEF WellFormed, Steers, NoReq
  <2>3. (\A v \in Workers : ~Steers(req[v], x)) /\ (\A q \in late : ~Steers(q, x))
        /\ delivered[x] = 0
    BY <1>11 DEF BeginSteer, Steers
  <2> HIDE DEF r
  <2> QED BY <1>7, <2>1, <2>2, <2>3, CallInv
<1>12. ASSUME NEW w \in Workers, NEW t \in Admitted, BeginCancel(w, t) PROVE AgentInv'
  <2> DEFINE r == [NoReq EXCEPT !.op = "cancel", !.turn = t]
  <2>1. asked' = asked \cup {t} /\ Call(w, r) /\ asked' \in SUBSET Ids
    BY <1>6, <1>7, <1>12 DEF BeginCancel
  <2>2. r \in Requests /\ r.op = "cancel" /\ r.sub = None /\ r.turn = t
    <3>1. NoReq \in Requests /\ NoReq.sub = None /\ t \in 0 .. MaxTurns
      BY <1>6, NoReqType DEF NoReq, Ids
    <3> QED BY <3>1 DEF Requests, Ops
  <2>3. WellFormed(r)' /\ \A x \in Texts : ~Steers(r, x)
    BY <1>6, <2>1, <2>2 DEF WellFormed, Steers
  <2> HIDE DEF r
  <2> QED BY <2>1, <2>3, CallInv
<1>13. ASSUME NEW t \in Ids, TurnMoves(t) PROVE AgentInv'
  BY <1>13, TurnMovesInv
<1>14. ASSUME NEW r \in late, Arrives(r) PROVE AgentInv'
  BY <1>14, ArrivesInv
<1>15. CASE UNCHANGED agentVars
  <2>1. UNCHANGED <<turns, last, delivered, late, req, sends, aware, asked>>
    BY <1>15 DEF agentVars, server, calls
  <2>2. TurnsOK' /\ Admitted' = Admitted
    BY <2>1, TurnsUnchanged DEF AgentInv
  <2>3. CallsOK' /\ SteersOnce'
    BY <2>1 DEF AgentInv, CallsOK, SteersOnce, WellFormed, OnWire
  <2>4. RunsJustified'
    BY <2>1, <2>2 DEF AgentInv, RunsJustified, Justified
  <2> QED BY <2>2, <2>3, <2>4 DEF AgentInv
<1> QED
  BY <1>1, <1>2, <1>3, <1>4, <1>5, <1>8, <1>9, <1>10, <1>11, <1>12, <1>13, <1>14, <1>15
  DEF AgentNext

\* The inductive invariant of the agent calls: what every request under way, late or
\* in a call, may still do to the turns (internal/coordinator/agent.go).
THEOREM AgentInvariant == AgentSpec => []AgentInv
BY AgentInitInv, AgentNextInv, PTL DEF AgentSpec

\* A submission starts at most one turn, for any number of workers, sends and turns:
\* Run's resends and a second process's Run carry the key saved before the first
\* send (Agent.Run, postAgentTurn).
THEOREM OneTurnHolds == AgentSpec => []OneTurnPerSubmission
<1>1. AgentInv => OneTurnPerSubmission
  BY DEF AgentInv, TurnsOK
<1> QED BY <1>1, AgentInvariant, PTL

\* A Run refused at its first send, or whose context ended before it, has started
\* nothing; every other end of a Run whose submission has a turn is one of those
\* NoSilentRun lists, the 2xx that does not decode included (AgentRun, lostResponse,
\* parseAgentTurn).
THEOREM NoSilentRunHolds == AgentSpec => []NoSilentRun
<1>1. AgentInv => NoSilentRun
  BY DEF AgentInv, RunsJustified, Justified, NoSilentRun
<1> QED BY <1>1, AgentInvariant, PTL

\* Guidance is delivered at most once per Steer, because it is never sent again
\* (postAgentTurn's resend, Agent.Steer).
THEOREM SteeredOnceHolds == AgentSpec => []SteeredOnce
<1>1. AgentInv => SteeredOnce
  BY DEF AgentInv, SteersOnce, SteeredOnce
<1> QED BY <1>1, AgentInvariant, PTL

\* Late and resent Cancels reach only the turn they name (Agent.Cancel).
THEOREM CanceledByNameHolds == AgentSpec => []CanceledByName
<1>1. AgentInv => CanceledByName
  BY DEF AgentInv, TurnsOK
<1> QED BY <1>1, AgentInvariant, PTL

\* The variables of the session's turns and calls have their types (agent.go).
THEOREM AgentTypeCorrect == AgentSpec => []AgentTypeOK
<1>1. AgentInv => AgentTypeOK
  BY DEF AgentInv, TurnsOK, CallsOK, OnWire, WellFormed, SteersOnce, AgentTypeOK
<1> QED BY <1>1, AgentInvariant, PTL

-----------------------------------------------------------------------------
(* Capture keypairs. *)

Key == Materials \cup {NoKey}

\* The empty registry and the empty Credentials have their types.
LEMMA NoKeysType == NoKeys \in Registry /\ NoCreds \in Credentials
BY KeysAssumption DEF NoKeys, NoCreds, Registry, Credentials

\* A current generation has its keypair.
Current(gen, reg) == gen # 0 => reg[gen] # NoKey

\* The keypairs of a registry are not above its current generation.
Ordered(gen, reg) == \A g \in Generations : reg[g] # NoKey => g <= gen

\* What configureCaptureKeypairs makes of a registry.
LEMMA ConfiguredFacts ==
    ASSUME NEW reg \in Registry, NEW gen \in 0 .. MaxGeneration, NEW c \in Credentials,
           Configurable(reg, gen, c), Current(c.current, c.keys)
    PROVE  LET new == Configured(reg, c)
               ngen == NextGeneration(gen, c)
           IN  /\ new \in Registry /\ ngen \in 0 .. MaxGeneration /\ ngen >= gen
               /\ \A g \in Generations : reg[g] # NoKey => new[g] = reg[g]
               /\ \A g \in Generations : new[g] \in {reg[g], c.keys[g]}
               /\ Current(gen, reg) => Current(ngen, new)
               /\ Ordered(gen, reg) => Ordered(ngen, new)
<1> DEFINE new == Configured(reg, c)
           ngen == NextGeneration(gen, c)
<1>1. c.current \in 0 .. MaxGeneration /\ c.keys \in Registry
  BY DEF Credentials
<1>2. ngen \in 0 .. MaxGeneration /\ ngen >= gen /\ gen \in Nat /\ c.current \in Nat
  BY <1>1, KeysAssumption DEF NextGeneration, Configurable
<1>3. new \in Registry /\ \A g \in Generations :
          new[g] = IF c.keys[g] # NoKey THEN c.keys[g] ELSE reg[g]
  BY <1>1 DEF Configured, Registry
<1>4. \A g \in Generations : reg[g] # NoKey => new[g] = reg[g]
  <2> SUFFICES ASSUME NEW g \in Generations, reg[g] # NoKey, c.keys[g] # NoKey
               PROVE  c.keys[g] = reg[g]
    BY <1>3
  <2>1. CASE g = c.current
    BY <2>1 DEF Configurable, Joins, Generations
  <2>2. CASE g # c.current
    BY <2>2 DEF Configurable, Joins
  <2> QED BY <2>1, <2>2
<1>5. Current(gen, reg) => Current(ngen, new)
  <2> HAVE Current(gen, reg)
  <2>1. CASE c.current # 0
    BY <1>1, <1>3, <2>1 DEF Current, NextGeneration, Generations
  <2>2. CASE c.current = 0
    <3>1. ngen = gen /\ (gen # 0 => gen \in Generations)
      BY <1>2, <2>2, KeysAssumption DEF NextGeneration, Generations
    <3> QED BY <1>4, <3>1 DEF Current
  <2> QED BY <2>1, <2>2
<1>6. Ordered(gen, reg) => Ordered(ngen, new)
  <2> SUFFICES ASSUME Ordered(gen, reg), NEW g \in Generations, new[g] # NoKey
               PROVE  g <= ngen
    BY DEF Ordered
  <2>1. g \in Nat /\ ngen \in Nat
    BY <1>2, KeysAssumption DEF Generations
  <2>2. CASE c.keys[g] # NoKey
    <3>1. CASE g = c.current
      BY <2>1, <3>1 DEF NextGeneration, Generations
    <3>2. CASE g # c.current
      <4>1. g < ngen
        BY <2>2, <3>2 DEF Configurable
      <4> QED BY <2>1, <4>1
    <3> QED BY <3>1, <3>2
  <2>3. CASE c.keys[g] = NoKey
    <3>1. g <= gen
      BY <1>3, <2>3 DEF Ordered
    <3> QED BY <1>2, <2>1, <3>1
  <2> QED BY <2>2, <2>3
<1> QED BY <1>2, <1>3, <1>4, <1>5, <1>6

\* The registries of the objects: each has its current keypair, and prior ones lie
\* below it unless they are registered first.
RegsOK ==
    /\ live \in [Objects -> {"none", "making", "ready"}]
    /\ keypairs \in [Objects -> Registry]
    /\ captureGen \in [Objects -> 0 .. MaxGeneration]
    /\ ephemeral \in [Objects -> BOOLEAN]
    /\ \A o \in Objects : /\ Current(captureGen[o], keypairs[o])
                          /\ ~PriorFirst => Ordered(captureGen[o], keypairs[o])

\* What the attaches under way keep.
LocalsOK ==
    /\ attach \in [Objects -> Attaches]
    /\ optEph \in [Objects -> BOOLEAN]
    /\ snap \in [Objects -> [keys : Registry, gen : 0 .. MaxGeneration]]
    /\ recovery \in [Objects -> Credentials]

\* What the application saved, and Pine sealed.
StoreOK ==
    /\ stored \subseteq Credentials /\ \A c \in stored : Current(c.current, c.keys)
    /\ \A o \in Objects : Current(recovery[o].current, recovery[o].keys)
    /\ sealed \subseteq (0 .. MaxGeneration) \X Key

KeysInv == RegsOK /\ LocalsOK /\ StoreOK

\* GenerateCredentials makes Credentials of generation 1.
LEMMA GeneratedType ==
    \A c \in Generated : c \in Credentials /\ Current(c.current, c.keys) /\ c.current = 1
<1> SUFFICES ASSUME NEW c \in Generated
             PROVE  c \in Credentials /\ Current(c.current, c.keys) /\ c.current = 1
  OBVIOUS
<1>1. PICK m \in Materials : c = [current |-> 1, keys |-> [NoKeys EXCEPT ![1] = m], eph |-> FALSE]
  BY DEF Generated
<1>2. 1 \in Generations /\ 1 \in 0 .. MaxGeneration /\ m # NoKey
  BY KeysAssumption DEF Generations
<1>3. [NoKeys EXCEPT ![1] = m] \in Registry /\ [NoKeys EXCEPT ![1] = m][1] = m
  BY <1>2, NoKeysType DEF Registry
<1> QED BY <1>1, <1>2, <1>3 DEF Credentials, Current

\* The invariant holds before anything was generated.
LEMMA KeysInitInv == KeysInit => KeysInv
<1> SUFFICES ASSUME KeysInit PROVE KeysInv
  OBVIOUS
<1>1. 0 \in 0 .. MaxGeneration
  BY KeysAssumption
<1>2. RegsOK
  BY <1>1, NoKeysType DEF KeysInit, RegsOK, Current, Ordered, NoKeys
<1>3. LocalsOK
  BY <1>1, NoKeysType DEF KeysInit, LocalsOK, Attaches, NoSnap
<1>4. StoreOK
  BY DEF KeysInit, StoreOK, Current, NoCreds
<1> QED BY <1>2, <1>3, <1>4 DEF KeysInv

\* An object that becomes a registry in order leaves all registries in order.
LEMMA BecomesOK ==
    ASSUME RegsOK, NEW o \in Objects, NEW stage \in {"none", "making", "ready"},
           NEW reg \in Registry, NEW gen \in 0 .. MaxGeneration, NEW eph \in BOOLEAN,
           Becomes(o, stage, reg, gen, eph), Current(gen, reg), ~PriorFirst => Ordered(gen, reg)
    PROVE  RegsOK' /\ live'[o] = stage /\ keypairs'[o] = reg /\ captureGen'[o] = gen
           /\ \A p \in Objects : p # o => /\ live'[p] = live[p] /\ keypairs'[p] = keypairs[p]
                                          /\ captureGen'[p] = captureGen[p]
BY DEF RegsOK, Becomes, Current, Ordered

\* A new object's registry, from Credentials that pass.
LEMMA NewRegistry ==
    ASSUME NEW c \in Credentials, Configurable(NoKeys, 0, c), Current(c.current, c.keys)
    PROVE  LET reg == Configured(NoKeys, c)
           IN  /\ reg \in Registry /\ c.current \in 0 .. MaxGeneration
               /\ Current(c.current, reg) /\ Ordered(c.current, reg)
               /\ \A g \in Generations : reg[g] = c.keys[g]
<1> DEFINE reg == Configured(NoKeys, c)
<1>1. c.current \in 0 .. MaxGeneration /\ 0 \in 0 .. MaxGeneration
      /\ NextGeneration(0, c) = c.current /\ c.keys \in Registry
  BY KeysAssumption DEF Credentials, NextGeneration
<1>2. Current(0, NoKeys) /\ Ordered(0, NoKeys)
  BY DEF Current, Ordered, NoKeys
<1>3. reg \in Registry /\ Current(c.current, reg) /\ Ordered(c.current, reg)
  BY <1>1, <1>2, NoKeysType, ConfiguredFacts
<1>4. \A g \in Generations : reg[g] = c.keys[g]
  BY <1>1 DEF Configured, NoKeys
<1> QED BY <1>1, <1>3, <1>4

\* The end of an attach leaves the other attaches alone.
LEMMA EndedOK ==
    ASSUME LocalsOK, NEW o \in Objects, Ended(o)
    PROVE  /\ LocalsOK' /\ attach'[o] = "idle" /\ recovery'[o] = NoCreds
           /\ \A p \in Objects : p # o => /\ attach'[p] = attach[p] /\ recovery'[p] = recovery[p]
                                          /\ optEph'[p] = optEph[p] /\ snap'[p] = snap[p]
<1>1. NoSnap \in [keys : Registry, gen : 0 .. MaxGeneration]
  BY NoKeysType, KeysAssumption DEF NoSnap
<1> QED BY <1>1, NoKeysType DEF LocalsOK, Ended, Attaches

\* An object that Create or Start drops leaves the others alone.
LEMMA DroppedOK ==
    ASSUME RegsOK, NEW o \in Objects, Dropped(o)
    PROVE  /\ RegsOK'
           /\ live'[o] = IF live[o] = "making" THEN "none" ELSE live[o]
           /\ live[o] # "making" => keypairs'[o] = keypairs[o] /\ captureGen'[o] = captureGen[o]
           /\ \A p \in Objects : p # o => /\ live'[p] = live[p] /\ keypairs'[p] = keypairs[p]
                                          /\ captureGen'[p] = captureGen[p]
<1>1. Current(0, NoKeys) /\ Ordered(0, NoKeys) /\ 0 \in 0 .. MaxGeneration
  BY KeysAssumption DEF Current, Ordered, NoKeys
<1>2. CASE live[o] = "making"
  BY <1>1, <1>2, NoKeysType, BecomesOK DEF Dropped
<1>3. CASE live[o] # "making"
  BY <1>3 DEF Dropped, RegsOK
<1> QED BY <1>2, <1>3

\* Credentials with their current keypair may join the store.
LEMMA KeepsOK ==
    ASSUME StoreOK, NEW c \in Credentials, Current(c.current, c.keys), Keeps(c),
           UNCHANGED <<recovery, sealed>>
    PROVE  StoreOK'
BY DEF StoreOK, Keeps

\* The keys a caller passes are Credentials with their current keypair.
LEMMA OptionsOK ==
    ASSUME KeysInv
    PROVE  \A c \in Options \cup Loaded \cup Generated :
               c \in Credentials /\ Current(c.current, c.keys)
<1>1. \A c \in stored : c \in Credentials /\ Current(c.current, c.keys)
  BY DEF KeysInv, StoreOK
<1>2. NoCreds \in Credentials /\ Current(NoCreds.current, NoCreds.keys)
  BY NoKeysType DEF NoCreds, Current
<1> QED BY <1>1, <1>2, GeneratedType DEF Options, Loaded

\* The facts about an object an action makes: o is new, its keys are those of c.
Made(o, c, stage) ==
    /\ RegsOK' /\ live'[o] = stage /\ captureGen'[o] = c.current
    /\ \A g \in Generations : keypairs'[o][g] = c.keys[g]
    /\ \A p \in Objects : p # o => /\ live'[p] = live[p] /\ keypairs'[p] = keypairs[p]
                                   /\ captureGen'[p] = captureGen[p]

\* newComputer with keypairs that pass has them, in order.
LEMMA MadeOK ==
    ASSUME KeysInv, NEW o \in Objects, NEW c \in Credentials, Current(c.current, c.keys),
           Configurable(NoKeys, 0, c), NEW stage \in {"none", "making", "ready"}, NEW eph \in BOOLEAN,
           Becomes(o, stage, Configured(NoKeys, c), c.current, eph)
    PROVE  Made(o, c, stage)
BY NewRegistry, BecomesOK DEF KeysInv, Made

\* CreateComputer makes an object of the Credentials it copies for recovery.
LEMMA CreateFacts ==
    ASSUME KeysInv, NEW o \in Objects, CreateComputer(o)
    PROVE  \E c \in Loaded \cup Generated, k \in Credentials, eph \in BOOLEAN :
              /\ ~eph => ~c.eph /\ k = c
              /\ eph => k = NoCreds
              /\ Made(o, k, "making")
              /\ recovery' = [recovery EXCEPT ![o] =
                    [current |-> k.current, keys |-> keypairs'[o], eph |-> eph]]
              /\ optEph' = [optEph EXCEPT ![o] = eph]
<1>1. PICK c \in Loaded \cup Generated, opt \in BOOLEAN :
          LET eph == opt \/ c.eph
              k   == IF eph THEN NoCreds ELSE c
          IN  /\ Configurable(NoKeys, 0, k)
              /\ Becomes(o, "making", Configured(NoKeys, k), k.current, eph)
              /\ recovery' = [recovery EXCEPT ![o] =
                    [current |-> k.current, keys |-> Configured(NoKeys, k), eph |-> eph]]
              /\ optEph' = [optEph EXCEPT ![o] = eph]
  BY DEF CreateComputer
<1> DEFINE eph == opt \/ c.eph
           k   == IF eph THEN NoCreds ELSE c
<1>2. c \in Credentials /\ Current(c.current, c.keys) /\ c.eph \in BOOLEAN
  BY OptionsOK DEF Credentials
<1>3. k \in Credentials /\ Current(k.current, k.keys) /\ eph \in BOOLEAN
  BY <1>2, NoKeysType DEF Current, NoCreds
<1>4. /\ Configurable(NoKeys, 0, k)
      /\ Becomes(o, "making", Configured(NoKeys, k), k.current, eph)
      /\ recovery' = [recovery EXCEPT ![o] =
            [current |-> k.current, keys |-> Configured(NoKeys, k), eph |-> eph]]
      /\ optEph' = [optEph EXCEPT ![o] = eph]
  BY <1>1
<1>5. (~eph => ~c.eph /\ k = c) /\ (eph => k = NoCreds)
  BY <1>2
<1> HIDE DEF eph, k
<1>6. Made(o, k, "making") /\ keypairs'[o] = Configured(NoKeys, k)
  <2>1. keypairs \in [Objects -> Registry]
    BY DEF KeysInv, RegsOK
  <2> QED BY <1>3, <1>4, <2>1, MadeOK DEF Becomes
<1> QED BY <1>3, <1>4, <1>5, <1>6

\* Every registration, attach, save and crash keeps the invariant.
LEMMA KeysNextInv == KeysInv /\ [KeysNext]_keyVars => KeysInv'
<1> SUFFICES ASSUME KeysInv, [KeysNext]_keyVars PROVE KeysInv'
  OBVIOUS
<1> USE DEF KeysInv
<1>1. CASE Generate
  <2>1. PICK c \in Generated, eph \in BOOLEAN : Keeps([c EXCEPT !.eph = eph])
    BY <1>1 DEF Generate
  <2>2. [c EXCEPT !.eph = eph] \in Credentials /\ [c EXCEPT !.eph = eph].current = c.current
        /\ [c EXCEPT !.eph = eph].keys = c.keys
    BY GeneratedType DEF Credentials
  <2>3. StoreOK'
    BY <1>1, <2>1, <2>2, GeneratedType, KeepsOK DEF Generate
  <2> QED BY <1>1, <2>3 DEF Generate, RegsOK, LocalsOK
<1>2. ASSUME NEW c \in stored, NEW m \in Materials, Rotate(c, m) PROVE KeysInv'
  <2> DEFINE d == [c EXCEPT !.current = @ + 1, !.keys[c.current + 1] = m]
  <2>1. c \in Credentials /\ c.current \in 1 .. MaxGeneration - 1 /\ Keeps(d)
    BY <1>2 DEF Rotate, StoreOK
  <2>2. c.current + 1 \in Generations /\ c.current + 1 \in 0 .. MaxGeneration /\ c.keys \in Registry
    BY <2>1, KeysAssumption DEF Generations, Credentials
  <2>3. [c.keys EXCEPT ![c.current + 1] = m] \in Registry
        /\ [c.keys EXCEPT ![c.current + 1] = m][c.current + 1] # NoKey
    BY <2>2, KeysAssumption DEF Registry
  <2>4. d \in Credentials /\ d.current = c.current + 1
        /\ d.keys = [c.keys EXCEPT ![c.current + 1] = m]
    BY <2>1, <2>2, <2>3 DEF Credentials
  <2> HIDE DEF d
  <2>5. StoreOK'
    BY <1>2, <2>1, <2>3, <2>4, KeepsOK DEF Rotate, Current
  <2> QED BY <1>2, <2>5 DEF Rotate, RegsOK, LocalsOK
<1>3. ASSUME NEW o \in Objects, Save(o) PROVE KeysInv'
  <2>1. Export(o) \in Credentials /\ Current(Export(o).current, Export(o).keys)
    BY DEF Export, Credentials, RegsOK
  <2>2. StoreOK'
    BY <1>3, <2>1, KeepsOK DEF Save
  <2> QED BY <1>3, <2>2 DEF Save, RegsOK, LocalsOK
<1>4. ASSUME NEW o \in Objects, CreateComputer(o) PROVE KeysInv'
  <2>1. PICK k \in Credentials, eph \in BOOLEAN :
              /\ Made(o, k, "making")
              /\ recovery' = [recovery EXCEPT ![o] =
                    [current |-> k.current, keys |-> keypairs'[o], eph |-> eph]]
              /\ optEph' = [optEph EXCEPT ![o] = eph]
    BY <1>4, CreateFacts
  <2>2. attach' = [attach EXCEPT ![o] = "configured"] /\ UNCHANGED <<snap, stored, sealed>>
    BY <1>4 DEF CreateComputer
  <2> DEFINE r == [current |-> k.current, keys |-> keypairs'[o], eph |-> eph]
  <2>3. r \in Credentials /\ Current(r.current, r.keys)
    BY <2>1 DEF Made, RegsOK, Credentials
  <2> HIDE DEF r
  <2>4. recovery' \in [Objects -> Credentials]
        /\ \A p \in Objects : Current(recovery'[p].current, recovery'[p].keys)
    BY <2>1, <2>3 DEF r, LocalsOK, StoreOK
  <2>5. LocalsOK'
    BY <2>1, <2>2, <2>4 DEF LocalsOK, Attaches
  <2>6. StoreOK'
    BY <2>2, <2>4 DEF StoreOK
  <2> QED BY <2>1, <2>5, <2>6 DEF Made
<1>5. ASSUME NEW o \in Objects, StartComputer(o) PROVE KeysInv'
  <2>1. PICK c \in Loaded : /\ Configurable(NoKeys, 0, c)
                            /\ Becomes(o, "making", Configured(NoKeys, c), c.current, FALSE)
                            /\ optEph' = [optEph EXCEPT ![o] = c.eph]
    BY <1>5 DEF StartComputer
  <2>2. c \in Credentials /\ Current(c.current, c.keys) /\ c.eph \in BOOLEAN
    BY OptionsOK DEF Credentials
  <2>3. Made(o, c, "making")
    BY <2>1, <2>2, MadeOK
  <2> QED BY <1>5, <2>1, <2>2, <2>3 DEF StartComputer, Made, LocalsOK, StoreOK, Attaches
<1>6. ASSUME NEW o \in Objects, ReconnectComputer(o) PROVE KeysInv'
  <2>1. PICK c \in Loaded : /\ Configurable(NoKeys, 0, c)
                            /\ Becomes(o, "ready", Configured(NoKeys, c), c.current, c.eph)
    BY <1>6 DEF ReconnectComputer
  <2>2. Made(o, c, "ready")
    BY <2>1, OptionsOK, MadeOK DEF Credentials
  <2> QED BY <1>6, <2>2 DEF ReconnectComputer, Made, LocalsOK, StoreOK
<1>7. ASSUME NEW o \in Objects, AdoptExisting(o) PROVE KeysInv'
  <2>1. PICK eph \in BOOLEAN : Becomes(o, "ready", NoKeys, 0, eph)
    BY <1>7 DEF AdoptExisting
  <2>2. Current(0, NoKeys) /\ Ordered(0, NoKeys) /\ 0 \in 0 .. MaxGeneration
    BY KeysAssumption DEF Current, Ordered, NoKeys
  <2>3. RegsOK'
    BY <2>1, <2>2, NoKeysType, BecomesOK
  <2> QED BY <1>7, <2>3 DEF AdoptExisting, LocalsOK, StoreOK
<1>8. ASSUME NEW o \in Objects, NEW g \in Generations, NEW m \in Materials,
             SetCaptureKeypair(o, g, m)
      PROVE  KeysInv'
  <2>1. keypairs[o] \in Registry /\ g \in 0 .. MaxGeneration
    BY KeysAssumption DEF RegsOK, Generations
  <2>2. [keypairs[o] EXCEPT ![g] = m] \in Registry
    BY <2>1 DEF Registry
  <2>3. keypairs' = [keypairs EXCEPT ![o] = [keypairs[o] EXCEPT ![g] = m]]
        /\ captureGen' = [captureGen EXCEPT ![o] = g] /\ g >= captureGen[o]
        /\ UNCHANGED <<live, ephemeral, attach, optEph, snap, recovery, stored, sealed>>
    BY <1>8 DEF SetCaptureKeypair
  <2>4. Current(g, [keypairs[o] EXCEPT ![g] = m])
    BY <2>1, KeysAssumption DEF Current, Registry
  <2>5. ~PriorFirst => Ordered(g, [keypairs[o] EXCEPT ![g] = m])
    <3> SUFFICES ASSUME ~PriorFirst, NEW h \in Generations, [keypairs[o] EXCEPT ![g] = m][h] # NoKey
                 PROVE  h <= g
      BY DEF Ordered
    <3>1. h = g \/ h <= captureGen[o]
      BY <2>1, KeysAssumption DEF RegsOK, Ordered, Registry, Generations
    <3>2. captureGen[o] \in Nat /\ h \in Nat /\ g \in Nat
      BY KeysAssumption DEF RegsOK, Generations
    <3> QED BY <2>3, <3>1, <3>2
  <2>6. RegsOK'
    BY <2>1, <2>2, <2>3, <2>4, <2>5 DEF RegsOK
  <2> QED BY <2>3, <2>6 DEF LocalsOK, StoreOK
<1>9. ASSUME NEW o \in Objects, NEW g \in Generations, NEW m \in Materials,
             AddPriorCaptureKeypair(o, g, m)
      PROVE  KeysInv'
  <2>1. keypairs[o] \in Registry
    BY DEF RegsOK
  <2>2. [keypairs[o] EXCEPT ![g] = m] \in Registry
    BY <2>1 DEF Registry
  <2>3. keypairs' = [keypairs EXCEPT ![o] = [keypairs[o] EXCEPT ![g] = m]]
        /\ UNCHANGED <<live, captureGen, ephemeral, attach, optEph, snap, recovery, stored, sealed>>
    BY <1>9 DEF AddPriorCaptureKeypair
  <2>4. Current(captureGen[o], [keypairs[o] EXCEPT ![g] = m])
    BY <2>1, KeysAssumption DEF RegsOK, Current, Registry
  <2>5. ~PriorFirst => Ordered(captureGen[o], [keypairs[o] EXCEPT ![g] = m])
    <3> SUFFICES ASSUME ~PriorFirst, NEW h \in Generations, [keypairs[o] EXCEPT ![g] = m][h] # NoKey
                 PROVE  h <= captureGen[o]
      BY DEF Ordered
    <3>1. captureGen[o] \in Nat /\ h \in Nat /\ g \in Nat
      BY KeysAssumption DEF RegsOK, Generations
    <3>2. g < captureGen[o]
      BY <1>9 DEF AddPriorCaptureKeypair
    <3>3. h = g \/ h <= captureGen[o]
      BY <2>1 DEF RegsOK, Ordered, Registry
    <3> QED BY <3>1, <3>2, <3>3
  <2>6. RegsOK'
    BY <2>1, <2>2, <2>3, <2>4, <2>5 DEF RegsOK
  <2> QED BY <2>3, <2>6 DEF LocalsOK, StoreOK
<1>10. ASSUME NEW o \in Objects, BeginAttach(o) PROVE KeysInv'
  <2>1. PICK c \in Options, eph \in BOOLEAN :
          /\ Configurable(keypairs[o], captureGen[o], c)
          /\ keypairs' = [keypairs EXCEPT ![o] = Configured(@, c)]
          /\ captureGen' = [captureGen EXCEPT ![o] = NextGeneration(@, c)]
          /\ optEph' = [optEph EXCEPT ![o] = eph]
          /\ attach' = [attach EXCEPT ![o] =
                IF eph \/ NextGeneration(captureGen[o], c) # 0 THEN "configured" ELSE "idle"]
    BY <1>10 DEF BeginAttach
  <2> DEFINE reg == Configured(keypairs[o], c)
             gen == NextGeneration(captureGen[o], c)
  <2>2. reg \in Registry /\ gen \in 0 .. MaxGeneration /\ Current(gen, reg)
        /\ (~PriorFirst => Ordered(gen, reg))
    BY <2>1, OptionsOK, ConfiguredFacts DEF RegsOK
  <2>3. keypairs' = [keypairs EXCEPT ![o] = reg] /\ captureGen' = [captureGen EXCEPT ![o] = gen]
        /\ UNCHANGED <<live, ephemeral, snap, recovery, stored, sealed>>
    BY <1>10, <2>1 DEF BeginAttach
  <2> HIDE DEF reg, gen
  <2>4. RegsOK'
    BY <2>2, <2>3 DEF RegsOK
  <2>5. LocalsOK'
    BY <2>1, <2>3 DEF LocalsOK, Attaches
  <2> QED BY <2>3, <2>4, <2>5 DEF StoreOK
<1>11. ASSUME NEW o \in Objects, Snapshot(o) PROVE KeysInv'
  BY <1>11 DEF Snapshot, RegsOK, LocalsOK, StoreOK, Attaches
<1>12. ASSUME NEW o \in Objects, FailUnauthorized(o) PROVE KeysInv'
  <2>1. RegsOK' /\ LocalsOK'
    BY <1>12, DroppedOK, EndedOK DEF FailUnauthorized
  <2>2. StoreOK'
    BY <1>12, EndedOK DEF FailUnauthorized, StoreOK, Current, NoCreds
  <2> QED BY <2>1, <2>2
<1>13. ASSUME NEW o \in Objects, Authorized(o) PROVE KeysInv'
  BY <1>13 DEF Authorized, RegsOK, LocalsOK, StoreOK, Attaches
<1>14. ASSUME NEW o \in Objects, Seals(o) PROVE KeysInv'
  <2>1. snap[o].gen \in 0 .. MaxGeneration /\ snap[o].keys \in Registry
    BY DEF LocalsOK
  <2>2. (IF snap[o].gen = 0 THEN NoKey ELSE snap[o].keys[snap[o].gen]) \in Key
    BY <2>1, KeysAssumption DEF Registry, Generations, Key
  <2>3. StoreOK'
    BY <1>14, <2>1, <2>2 DEF Seals, StoreOK
  <2> QED BY <1>14, <2>3 DEF Seals, RegsOK, LocalsOK, Attaches
<1>15. ASSUME NEW o \in Objects, FailAuthorized(o) PROVE KeysInv'
  <2>1. RegsOK' /\ LocalsOK'
    BY <1>15, DroppedOK, EndedOK DEF FailAuthorized
  <2>2. recovery[o] \in Credentials
    BY DEF LocalsOK
  <2>3. stored' \subseteq Credentials /\ \A c \in stored' : Current(c.current, c.keys)
    BY <1>15, <2>2 DEF FailAuthorized, Keeps, StoreOK
  <2>4. StoreOK'
    BY <1>15, <2>3, EndedOK DEF FailAuthorized, StoreOK, Current, NoCreds
  <2> QED BY <2>1, <2>4
<1>16. ASSUME NEW o \in Objects, Publish(o) PROVE KeysInv'
  <2>1. RegsOK' /\ LocalsOK'
    BY <1>16, EndedOK DEF Publish, RegsOK, LocalsOK
  <2>2. StoreOK'
    BY <1>16, EndedOK DEF Publish, StoreOK, Current, NoCreds
  <2> QED BY <2>1, <2>2
<1>17. ASSUME NEW o \in Objects, Crash(o) PROVE KeysInv'
  <2>1. Current(0, NoKeys) /\ Ordered(0, NoKeys) /\ 0 \in 0 .. MaxGeneration
    BY KeysAssumption DEF Current, Ordered, NoKeys
  <2>2. RegsOK' /\ LocalsOK'
    BY <1>17, <2>1, NoKeysType, BecomesOK, EndedOK DEF Crash
  <2>3. StoreOK'
    BY <1>17, EndedOK DEF Crash, StoreOK, Current, NoCreds
  <2> QED BY <2>2, <2>3
<1>18. CASE UNCHANGED keyVars
  BY <1>18 DEF keyVars, RegsOK, LocalsOK, StoreOK
<1> HIDE DEF KeysInv
<1> QED BY <1>1, <1>2, <1>3, <1>4, <1>5, <1>6, <1>7, <1>8, <1>9, <1>10, <1>11, <1>12, <1>13,
           <1>14, <1>15, <1>16, <1>17, <1>18 DEF KeysNext

\* The inductive invariant of the key registries: types, and what each stage of an
\* Attach holds (computer.go, client.go).
THEOREM KeysInvariant == KeysSpec => []KeysInv
BY KeysInitInv, KeysNextInv, PTL DEF KeysSpec

\* The registries, the attaches under way and the saved Credentials have their
\* types (computer.go, credentials.go).
THEOREM KeysTypeCorrect == KeysSpec => []KeysTypeOK
<1>1. KeysInv => KeysTypeOK
  BY DEF KeysInv, RegsOK, LocalsOK, StoreOK, KeysTypeOK, Key
<1> QED BY <1>1, KeysInvariant, PTL

\* Credentials can always be stored, for any number of objects, generations and
\* materials, provided that superseded keypairs are registered only on objects that
\* have a current one (Computer.Credentials, AddPriorCaptureKeypair).
THEOREM ExportStorableHolds ==
    ASSUME ~PriorFirst PROVE KeysSpec => []ExportStorable
<1>1. KeysInv => ExportStorable
  BY DEF KeysInv, RegsOK, Ordered, ExportStorable, Valid, Export
<1> QED BY <1>1, KeysInvariant, PTL

\* What KeysForward asks of a step, for one object.
Forward(o) ==
    live[o] # "none" /\ live'[o] # "none" =>
        /\ captureGen'[o] >= captureGen[o]
        /\ \A g \in Generations : keypairs[o][g] # NoKey => keypairs'[o][g] = keypairs[o][g]

\* An object whose registry stays has not gone back.
LEMMA SameForward ==
    ASSUME KeysInv, NEW p \in Objects, keypairs'[p] = keypairs[p], captureGen'[p] = captureGen[p]
    PROVE  Forward(p)
<1>1. captureGen[p] \in Nat
  BY KeysAssumption DEF KeysInv, RegsOK
<1> QED BY <1>1 DEF Forward

\* No step takes a live object's registry back.
LEMMA KeysStepForward ==
    ASSUME KeysInv, [KeysNext]_keyVars
    PROVE  \A p \in Objects : Forward(p)
<1> SUFFICES ASSUME NEW p \in Objects PROVE Forward(p)
  OBVIOUS
<1>1. CASE UNCHANGED <<keypairs, captureGen>>
  BY <1>1, SameForward
<1>2. ASSUME NEW o \in Objects,
             \/ CreateComputer(o) \/ StartComputer(o) \/ ReconnectComputer(o) \/ AdoptExisting(o)
      PROVE  Forward(p)
  <2>1. live[o] = "none"
    BY <1>2 DEF CreateComputer, StartComputer, ReconnectComputer, AdoptExisting
  <2>2. \E stage, reg, gen, eph : Becomes(o, stage, reg, gen, eph)
    BY <1>2 DEF CreateComputer, StartComputer, ReconnectComputer, AdoptExisting
  <2>3. p # o => keypairs'[p] = keypairs[p] /\ captureGen'[p] = captureGen[p]
    BY <2>2 DEF Becomes, KeysInv, RegsOK
  <2> QED BY <2>1, <2>3, SameForward DEF Forward
<1>3. ASSUME NEW o \in Objects, FailUnauthorized(o) \/ FailAuthorized(o) PROVE Forward(p)
  <2>1. Dropped(o)
    BY <1>3 DEF FailUnauthorized, FailAuthorized
  <2> QED BY <2>1, DroppedOK, SameForward DEF Forward, KeysInv
<1>4. ASSUME NEW o \in Objects, Crash(o) PROVE Forward(p)
  <2>1. Becomes(o, "none", NoKeys, 0, FALSE)
    BY <1>4 DEF Crash
  <2>2. live'[o] = "none" /\ (p # o => keypairs'[p] = keypairs[p] /\ captureGen'[p] = captureGen[p])
    BY <2>1 DEF Becomes, KeysInv, RegsOK
  <2> QED BY <2>2, SameForward DEF Forward
<1>5. ASSUME NEW o \in Objects, NEW g \in Generations, NEW m \in Materials,
             SetCaptureKeypair(o, g, m) \/ AddPriorCaptureKeypair(o, g, m)
      PROVE  Forward(p)
  <2>1. keypairs' = [keypairs EXCEPT ![o][g] = m] /\ Joins(keypairs[o], g, m)
        /\ (captureGen' # captureGen =>
              captureGen' = [captureGen EXCEPT ![o] = g] /\ g >= captureGen[o])
    BY <1>5 DEF SetCaptureKeypair, AddPriorCaptureKeypair
  <2>2. CASE p # o
    BY <2>1, <2>2, SameForward DEF KeysInv, RegsOK
  <2>3. CASE p = o
    <3>1. captureGen[o] \in Nat /\ g \in Nat /\ keypairs[o] \in Registry
      BY KeysAssumption DEF KeysInv, RegsOK, Generations
    <3>2. captureGen'[o] >= captureGen[o]
      BY <2>1, <3>1 DEF KeysInv, RegsOK
    <3>3. \A h \in Generations : keypairs[o][h] # NoKey => keypairs'[o][h] = keypairs[o][h]
      BY <2>1, <3>1 DEF KeysInv, RegsOK, Joins, Registry
    <3> QED BY <2>3, <3>2, <3>3 DEF Forward
  <2> QED BY <2>2, <2>3
<1>6. ASSUME NEW o \in Objects, BeginAttach(o) PROVE Forward(p)
  <2>1. PICK c \in Options :
          /\ Configurable(keypairs[o], captureGen[o], c)
          /\ keypairs' = [keypairs EXCEPT ![o] = Configured(@, c)]
          /\ captureGen' = [captureGen EXCEPT ![o] = NextGeneration(@, c)]
    BY <1>6 DEF BeginAttach
  <2>2. keypairs[o] \in Registry /\ captureGen[o] \in 0 .. MaxGeneration
        /\ c \in Credentials /\ Current(c.current, c.keys)
    BY OptionsOK DEF KeysInv, RegsOK
  <2>3. NextGeneration(captureGen[o], c) >= captureGen[o]
        /\ \A g \in Generations : keypairs[o][g] # NoKey =>
              Configured(keypairs[o], c)[g] = keypairs[o][g]
    BY <2>1, <2>2, ConfiguredFacts
  <2>4. CASE p # o
    BY <2>1, <2>4, SameForward DEF KeysInv, RegsOK
  <2>5. CASE p = o
    <3>1. keypairs'[o] = Configured(keypairs[o], c) /\ captureGen'[o] = NextGeneration(captureGen[o], c)
      BY <2>1 DEF KeysInv, RegsOK
    <3> QED BY <2>3, <2>5, <3>1 DEF Forward
  <2> QED BY <2>4, <2>5
<1>7. CASE Generate \/ \E c \in stored, m \in Materials : Rotate(c, m)
  BY <1>1, <1>7 DEF Generate, Rotate
<1>8. CASE \E o \in Objects : Save(o) \/ Snapshot(o) \/ Authorized(o) \/ Seals(o) \/ Publish(o)
  BY <1>1, <1>8 DEF Save, Snapshot, Authorized, Seals, Publish
<1>9. CASE UNCHANGED keyVars
  BY <1>1, <1>9 DEF keyVars
<1> QED BY <1>2, <1>3, <1>4, <1>5, <1>6, <1>7, <1>8, <1>9 DEF KeysNext

\* Rotations never go back and a generation never changes its material, whatever
\* goroutines register keypairs during an Attach (SetCaptureKeypair,
\* AddPriorCaptureKeypair, configureCaptureKeypairs).
THEOREM KeysForwardHolds == KeysSpec => KeysForward
<1>1. KeysInv /\ [KeysNext]_keyVars =>
        [\A o \in Objects : live[o] # "none" /\ live'[o] # "none" =>
            /\ captureGen'[o] >= captureGen[o]
            /\ \A g \in Generations : keypairs[o][g] # NoKey =>
                  keypairs'[o][g] = keypairs[o][g]]_keyVars
  BY KeysStepForward DEF Forward
<1> QED BY <1>1, KeysInvariant, PTL DEF KeysSpec, KeysForward

-----------------------------------------------------------------------------
\* Sealed state can be restored.

\* An attach under way belongs to an object, and what it will bind is a keypair
\* the object holds.
AttachOK(o) ==
    /\ attach[o] # "idle" => live[o] # "none"
    /\ attach[o] = "configured" /\ ~optEph[o] => captureGen[o] # 0
    /\ attach[o] \in {"minting", "bind", "bound"} =>
          /\ \A g \in Generations : snap[o].keys[g] # NoKey => keypairs[o][g] = snap[o].keys[g]
          /\ ~optEph[o] => Current(snap[o].gen, snap[o].keys) /\ snap[o].gen # 0

\* Create of a Computer nothing of which was saved: its Credentials are still the
\* recovery Credentials, and nothing is sealed before it binds.
Lone(o) ==
    /\ stored = {} /\ \A p \in Objects : p # o => live[p] = "none"
    /\ recovery[o].keys = keypairs[o] /\ recovery[o].current # 0
    /\ attach[o] # "bound" => sealed = {}

MakingOK(o) == live[o] = "making" => Saved(o) \/ Lone(o)

RecoverInv ==
    /\ KeysInv
    /\ \A o \in Objects : AttachOK(o) /\ MakingOK(o)
    /\ Recoverable

\* Nothing is sealed at the start.
LEMMA RecoverInitInv == KeysInit => RecoverInv
BY KeysInitInv DEF KeysInit, RecoverInv, AttachOK, MakingOK, Recoverable

\* What one object's step keeps of another.
LEMMA OtherAttach ==
    ASSUME NEW p, AttachOK(p), attach'[p] = attach[p], live'[p] = live[p], snap'[p] = snap[p],
           optEph'[p] = optEph[p], captureGen'[p] = captureGen[p], keypairs'[p] = keypairs[p]
    PROVE  AttachOK(p)'
BY DEF AttachOK, Current

\* Sealed state stays restorable while nothing is sealed or saved keypairs are lost.
LEMMA StaysRecoverable ==
    ASSUME Recoverable, sealed' = sealed, stored \subseteq stored',
           \A o \in Objects, g \in Generations : live[o] # "none" /\ keypairs[o][g] # NoKey =>
               \/ live'[o] # "none" /\ keypairs'[o][g] = keypairs[o][g]
               \/ \E c \in stored' : c.keys[g] = keypairs[o][g],
           sealed \subseteq (0 .. MaxGeneration) \X Key
    PROVE  Recoverable'
<1> SUFFICES ASSUME NEW s \in sealed
             PROVE  /\ s[1] # 0 /\ s[2] # NoKey
                    /\ \/ \E c \in stored' : c.keys[s[1]] = s[2]
                       \/ \E o \in Objects : live'[o] # "none" /\ keypairs'[o][s[1]] = s[2]
  BY DEF Recoverable
<1>1. s[1] # 0 /\ s[2] # NoKey /\ s[1] \in Generations
  BY KeysAssumption DEF Recoverable, Generations
<1>2. CASE \E c \in stored : c.keys[s[1]] = s[2]
  BY <1>1, <1>2
<1>3. CASE \E o \in Objects : live[o] # "none" /\ keypairs[o][s[1]] = s[2]
  BY <1>1, <1>3
<1> QED BY <1>1, <1>2, <1>3 DEF Recoverable

\* Only the store changes: it grows, while no Create is alone.
LEMMA StoreStep ==
    ASSUME RecoverInv, KeysInv', stored \subseteq stored',
           UNCHANGED <<live, keypairs, captureGen, attach, optEph, snap, recovery, sealed>>,
           \A o \in Objects : live[o] = "making" => ~Lone(o)
    PROVE  RecoverInv'
<1>1. \A o \in Objects : AttachOK(o)'
  BY OtherAttach DEF RecoverInv
<1>2. \A o \in Objects : MakingOK(o)'
  BY DEF RecoverInv, MakingOK, Saved
<1>3. Recoverable'
  BY StaysRecoverable DEF RecoverInv, KeysInv, StoreOK
<1> QED BY <1>1, <1>2, <1>3 DEF RecoverInv

\* A new object o, whose keys come from Credentials k.
LEMMA MadeStep ==
    ASSUME RecoverInv, KeysInv', NEW o \in Objects, NEW k, NEW stage, live[o] = "none",
           Made(o, k, stage), UNCHANGED <<snap, stored, sealed>>,
           \A p \in Objects : p # o => attach'[p] = attach[p] /\ optEph'[p] = optEph[p]
                                       /\ recovery'[p] = recovery[p],
           AttachOK(o)', MakingOK(o)', \A p \in Objects : live[p] = "making" => ~Lone(p)
    PROVE  RecoverInv'
<1>1. \A p \in Objects : AttachOK(p)'
  BY OtherAttach DEF RecoverInv, Made
<1>2. \A p \in Objects : MakingOK(p)'
  BY DEF RecoverInv, MakingOK, Saved, Made
<1>3. Recoverable'
  BY StaysRecoverable DEF RecoverInv, KeysInv, StoreOK, Made
<1> QED BY <1>1, <1>2, <1>3 DEF RecoverInv

\* A ready object, or Credentials that were saved, keep a Create from being alone.
LEMMA NotAlone ==
    ASSUME NEW o \in Objects, live[o] = "ready" \/ stored # {}
    PROVE  \A p \in Objects : live[p] = "making" => ~Lone(p)
BY DEF Lone

\* A ready object changes its own keypairs.
LEMMA ReadyStep ==
    ASSUME RecoverInv, KeysInv', NEW o \in Objects, live[o] = "ready", Forward(o), AttachOK(o)',
           UNCHANGED <<live, snap, recovery, stored, sealed>>,
           \A p \in Objects : p # o =>
               /\ attach'[p] = attach[p] /\ optEph'[p] = optEph[p]
               /\ captureGen'[p] = captureGen[p] /\ keypairs'[p] = keypairs[p]
    PROVE  RecoverInv'
<1>1. \A p \in Objects : AttachOK(p)'
  BY OtherAttach DEF RecoverInv
<1>2. \A p \in Objects : MakingOK(p)'
  BY NotAlone DEF RecoverInv, MakingOK, Saved
<1>3. Recoverable'
  BY StaysRecoverable DEF RecoverInv, KeysInv, StoreOK, Forward
<1> QED BY <1>1, <1>2, <1>3 DEF RecoverInv

\* An attach moves on; the registries do not change.
LEMMA AttachStep ==
    ASSUME RecoverInv, KeysInv', NEW o \in Objects, AttachOK(o)', attach'[o] # "bound",
           attach[o] # "bound",
           UNCHANGED <<live, keypairs, captureGen, recovery, stored, sealed>>,
           \A p \in Objects : p # o => attach'[p] = attach[p] /\ optEph'[p] = optEph[p]
                                       /\ snap'[p] = snap[p]
    PROVE  RecoverInv'
<1>1. \A p \in Objects : AttachOK(p)'
  BY OtherAttach DEF RecoverInv
<1>2. \A p \in Objects : MakingOK(p)'
  BY DEF RecoverInv, MakingOK, Saved, Lone
<1>3. Recoverable'
  BY StaysRecoverable DEF RecoverInv, KeysInv, StoreOK
<1> QED BY <1>1, <1>2, <1>3 DEF RecoverInv

\* An object o is dropped or its attach ends: the others were not alone, or there
\* are none, and what o held is in the store or was never sealed.
LEMMA EndStep ==
    ASSUME RecoverInv, KeysInv', NEW o \in Objects, live[o] # "none", attach'[o] = "idle",
           live'[o] # "making", stored \subseteq stored', sealed' = sealed,
           \A p \in Objects : p # o =>
               /\ live'[p] = live[p] /\ keypairs'[p] = keypairs[p] /\ captureGen'[p] = captureGen[p]
               /\ attach'[p] = attach[p] /\ optEph'[p] = optEph[p] /\ snap'[p] = snap[p]
               /\ recovery'[p] = recovery[p],
           \/ sealed = {}
           \/ live'[o] # "none" /\ keypairs'[o] = keypairs[o]
           \/ \A g \in Generations : keypairs[o][g] # NoKey =>
                  \E c \in stored' : c.keys[g] = keypairs[o][g]
    PROVE  RecoverInv'
<1>1. \A p \in Objects : AttachOK(p)'
  <2>1. AttachOK(o)'
    BY DEF AttachOK
  <2> QED BY <2>1, OtherAttach DEF RecoverInv
<1>2. \A p \in Objects : MakingOK(p)'
  <2> SUFFICES ASSUME NEW p \in Objects, live'[p] = "making" PROVE Saved(p)'
    BY DEF MakingOK
  <2>1. p # o /\ live[p] = "making" /\ keypairs'[p] = keypairs[p]
    OBVIOUS
  <2>2. Saved(p)
    BY <2>1 DEF RecoverInv, MakingOK, Lone
  <2> QED BY <2>1, <2>2 DEF Saved
<1>3. Recoverable'
  <2>1. CASE sealed = {}
    BY <2>1 DEF Recoverable
  <2>2. CASE sealed # {}
    BY <2>2, StaysRecoverable DEF RecoverInv, KeysInv, StoreOK
  <2> QED BY <2>1, <2>2
<1> QED BY <1>1, <1>2, <1>3 DEF RecoverInv

\* CreateComputer's object can be recovered from what it copied.
LEMMA CreateRecover ==
    ASSUME RecoverInv, KeysInv', NEW o \in Objects, CreateComputer(o)
    PROVE  RecoverInv'
<1>1. PICK c \in Loaded \cup Generated, k \in Credentials, eph \in BOOLEAN :
          /\ ~eph => ~c.eph /\ k = c
          /\ eph => k = NoCreds
          /\ Made(o, k, "making")
          /\ recovery' = [recovery EXCEPT ![o] =
                [current |-> k.current, keys |-> keypairs'[o], eph |-> eph]]
          /\ optEph' = [optEph EXCEPT ![o] = eph]
  BY CreateFacts DEF RecoverInv
<1>2. live[o] = "none" /\ attach' = [attach EXCEPT ![o] = "configured"]
      /\ UNCHANGED <<snap, stored, sealed>>
  BY DEF CreateComputer
<1>3. /\ attach'[o] = "configured" /\ optEph'[o] = eph
      /\ recovery'[o].keys = keypairs'[o] /\ recovery'[o].current = k.current
      /\ \A p \in Objects : p # o => attach'[p] = attach[p] /\ optEph'[p] = optEph[p]
                                     /\ recovery'[p] = recovery[p]
  BY <1>1, <1>2 DEF RecoverInv, KeysInv, LocalsOK
<1>4. c \in Generated => stored = {} /\ \A p \in Objects : live[p] = "none"
  BY DEF Generated
<1>5. c \in Loaded => c \in stored /\ Valid(c)
  BY DEF Loaded
<1>6. AttachOK(o)'
  <2>1. ~eph => k.current # 0
    BY <1>1, <1>5, GeneratedType DEF Valid
  <2> QED BY <1>1, <1>3, <2>1 DEF AttachOK, Made
<1>7. MakingOK(o)'
  <2>1. CASE eph
    <3>1. \A g \in Generations : keypairs'[o][g] = NoKey
      BY <1>1, <2>1 DEF Made, NoCreds, NoKeys
    <3> QED BY <3>1 DEF MakingOK, Saved
  <2>2. CASE ~eph /\ c \in Loaded
    BY <1>1, <1>2, <1>5, <2>2 DEF Made, MakingOK, Saved
  <2>3. CASE ~eph /\ c \in Generated
    <3>1. sealed = {}
      BY <1>4, <2>3 DEF RecoverInv, Recoverable
    <3>2. k.current # 0
      BY <1>1, <2>3, GeneratedType
    <3> QED BY <1>1, <1>2, <1>3, <1>4, <2>3, <3>1, <3>2 DEF Made, MakingOK, Lone
  <2> QED BY <2>1, <2>2, <2>3
<1>8. \A p \in Objects : live[p] = "making" => ~Lone(p)
  BY <1>4, <1>5, NotAlone
<1> QED BY <1>1, <1>2, <1>3, <1>6, <1>7, <1>8, MadeStep

\* No step loses the keypair of sealed state.
LEMMA RecoverNextInv == RecoverInv /\ [KeysNext]_keyVars => RecoverInv'
<1> SUFFICES ASSUME RecoverInv, [KeysNext]_keyVars PROVE RecoverInv'
  OBVIOUS
<1>a. KeysInv /\ KeysInv' /\ (\A o \in Objects : Forward(o))
      /\ RegsOK /\ LocalsOK /\ StoreOK
  BY KeysNextInv, KeysStepForward DEF RecoverInv, KeysInv
<1>b. \A o \in Objects : AttachOK(o) /\ MakingOK(o)
  BY DEF RecoverInv
<1>1. CASE Generate
  <2>1. (\A o \in Objects : live[o] = "none") /\ stored \subseteq stored'
        /\ UNCHANGED <<live, keypairs, captureGen, attach, optEph, snap, recovery, sealed>>
    BY <1>1 DEF Generate, Generated, Keeps
  <2> QED BY <1>a, <2>1, StoreStep
<1>2. ASSUME NEW c \in stored, NEW m \in Materials, Rotate(c, m) PROVE RecoverInv'
  <2>1. stored # {} /\ stored \subseteq stored'
        /\ UNCHANGED <<live, keypairs, captureGen, attach, optEph, snap, recovery, sealed>>
    BY <1>2 DEF Rotate, Keeps
  <2>2. \A o \in Objects : live[o] = "making" => ~Lone(o)
    BY <2>1, NotAlone
  <2> QED BY <1>a, <2>1, <2>2, StoreStep
<1>3. ASSUME NEW o \in Objects, Save(o) PROVE RecoverInv'
  <2>1. live[o] = "ready" /\ stored \subseteq stored'
        /\ UNCHANGED <<live, keypairs, captureGen, attach, optEph, snap, recovery, sealed>>
    BY <1>3 DEF Save, Keeps
  <2>2. \A p \in Objects : live[p] = "making" => ~Lone(p)
    BY <2>1, NotAlone
  <2> QED BY <1>a, <2>1, <2>2, StoreStep
<1>4. ASSUME NEW o \in Objects, CreateComputer(o) PROVE RecoverInv'
  BY <1>a, <1>4, CreateRecover
<1>5. ASSUME NEW o \in Objects, StartComputer(o) PROVE RecoverInv'
  <2>1. PICK c \in Loaded : /\ Configurable(NoKeys, 0, c)
                            /\ Becomes(o, "making", Configured(NoKeys, c), c.current, FALSE)
                            /\ optEph' = [optEph EXCEPT ![o] = c.eph]
    BY <1>5 DEF StartComputer
  <2>2. c \in Credentials /\ Current(c.current, c.keys) /\ c \in stored /\ Valid(c)
    BY <1>a, OptionsOK DEF Loaded
  <2>3. Made(o, c, "making")
    BY <1>a, <2>1, <2>2, MadeOK
  <2>4. live[o] = "none" /\ attach' = [attach EXCEPT ![o] = "configured"]
        /\ UNCHANGED <<snap, recovery, stored, sealed>>
    BY <1>5 DEF StartComputer
  <2>5. /\ attach'[o] = "configured" /\ optEph'[o] = c.eph
        /\ \A p \in Objects : p # o => attach'[p] = attach[p] /\ optEph'[p] = optEph[p]
                                       /\ recovery'[p] = recovery[p]
    BY <1>a, <2>1, <2>4 DEF LocalsOK
  <2>6. AttachOK(o)' /\ MakingOK(o)'
    BY <2>2, <2>3, <2>4, <2>5 DEF AttachOK, MakingOK, Saved, Made, Valid
  <2>7. \A p \in Objects : live[p] = "making" => ~Lone(p)
    BY <2>2, NotAlone
  <2> QED BY <1>a, <2>3, <2>4, <2>5, <2>6, <2>7, MadeStep
<1>6. ASSUME NEW o \in Objects, ReconnectComputer(o) \/ AdoptExisting(o) PROVE RecoverInv'
  <2>1. live[o] = "none" /\ UNCHANGED <<attach, optEph, snap, recovery, stored, sealed>>
        /\ stored # {}
    BY <1>6 DEF ReconnectComputer, AdoptExisting, Loaded
  <2>2. \E k : Made(o, k, "ready")
    <3>1. CASE ReconnectComputer(o)
      <4>1. PICK c \in Loaded : /\ Configurable(NoKeys, 0, c)
                                /\ Becomes(o, "ready", Configured(NoKeys, c), c.current, c.eph)
        BY <3>1 DEF ReconnectComputer
      <4>2. c \in Credentials /\ Current(c.current, c.keys) /\ c.eph \in BOOLEAN
        BY <1>a, OptionsOK DEF Credentials
      <4> QED BY <1>a, <4>1, <4>2, MadeOK
    <3>2. CASE AdoptExisting(o)
      <4>1. PICK eph \in BOOLEAN : Becomes(o, "ready", NoKeys, 0, eph)
        BY <3>2 DEF AdoptExisting
      <4>2. Current(0, NoKeys) /\ Ordered(0, NoKeys) /\ 0 \in 0 .. MaxGeneration
        BY KeysAssumption DEF Current, Ordered, NoKeys
      <4>3. Made(o, NoCreds, "ready")
        BY <1>a, <4>1, <4>2, NoKeysType, BecomesOK DEF Made, NoCreds
      <4> QED BY <4>3
    <3> QED BY <1>6, <3>1, <3>2
  <2>3. AttachOK(o)' /\ MakingOK(o)'
    BY <1>b, <2>1, <2>2 DEF AttachOK, MakingOK, Made
  <2>4. \A p \in Objects : live[p] = "making" => ~Lone(p)
    BY <2>1, NotAlone
  <2> QED BY <1>a, <2>1, <2>2, <2>3, <2>4, MadeStep
<1>7. ASSUME NEW o \in Objects, NEW g \in Generations, NEW m \in Materials,
             SetCaptureKeypair(o, g, m) \/ AddPriorCaptureKeypair(o, g, m)
      PROVE  RecoverInv'
  <2>1. live[o] = "ready"
        /\ UNCHANGED <<live, attach, optEph, snap, recovery, stored, sealed>>
        /\ \A p \in Objects : p # o => captureGen'[p] = captureGen[p] /\ keypairs'[p] = keypairs[p]
    BY <1>a, <1>7 DEF SetCaptureKeypair, AddPriorCaptureKeypair, RegsOK
  <2>2. captureGen[o] \in Nat /\ captureGen'[o] \in Nat /\ captureGen'[o] >= captureGen[o]
        /\ \A h \in Generations : keypairs[o][h] # NoKey => keypairs'[o][h] = keypairs[o][h]
    BY <1>a, <2>1, KeysAssumption DEF Forward, KeysInv, RegsOK
  <2>3. AttachOK(o)'
    BY <1>b, <2>1, <2>2 DEF AttachOK, Current
  <2> QED BY <1>a, <2>1, <2>3, ReadyStep
<1>8. ASSUME NEW o \in Objects, BeginAttach(o) PROVE RecoverInv'
  <2>1. live[o] = "ready" /\ UNCHANGED <<live, snap, recovery, stored, sealed>>
        /\ \A p \in Objects : p # o =>
               /\ attach'[p] = attach[p] /\ optEph'[p] = optEph[p]
               /\ captureGen'[p] = captureGen[p] /\ keypairs'[p] = keypairs[p]
    BY <1>a, <1>8 DEF BeginAttach, RegsOK, LocalsOK
  <2>2. attach'[o] \in {"configured", "idle"}
        /\ (attach'[o] = "configured" /\ ~optEph'[o] => captureGen'[o] # 0)
    BY <1>a, <1>8 DEF BeginAttach, RegsOK, LocalsOK
  <2>3. AttachOK(o)'
    BY <2>1, <2>2 DEF AttachOK
  <2> QED BY <1>a, <2>1, <2>3, ReadyStep
<1>9. ASSUME NEW o \in Objects, Snapshot(o) PROVE RecoverInv'
  <2>1. attach[o] = "configured" /\ attach'[o] = "minting"
        /\ snap'[o] = [keys |-> keypairs[o], gen |-> captureGen[o]]
        /\ UNCHANGED <<live, keypairs, captureGen, optEph, recovery, stored, sealed>>
        /\ \A p \in Objects : p # o => attach'[p] = attach[p] /\ optEph'[p] = optEph[p]
                                       /\ snap'[p] = snap[p]
    BY <1>a, <1>9 DEF Snapshot, LocalsOK
  <2>2. AttachOK(o)'
    BY <1>a, <1>b, <2>1 DEF AttachOK, RegsOK
  <2> QED BY <1>a, <2>1, <2>2, AttachStep
<1>10. ASSUME NEW o \in Objects, Authorized(o) PROVE RecoverInv'
  <2>1. attach[o] = "minting" /\ attach'[o] = "bind"
        /\ UNCHANGED <<live, keypairs, captureGen, optEph, snap, recovery, stored, sealed>>
        /\ \A p \in Objects : p # o => attach'[p] = attach[p] /\ optEph'[p] = optEph[p]
                                       /\ snap'[p] = snap[p]
    BY <1>a, <1>10 DEF Authorized, LocalsOK
  <2>2. AttachOK(o)'
    BY <1>b, <2>1 DEF AttachOK, Current
  <2> QED BY <1>a, <2>1, <2>2, AttachStep
<1>11. ASSUME NEW o \in Objects, Seals(o) PROVE RecoverInv'
  <2>1. attach[o] = "bind" /\ attach' = [attach EXCEPT ![o] = "bound"]
        /\ UNCHANGED <<live, keypairs, captureGen, optEph, snap, recovery, stored>>
    BY <1>11 DEF Seals
  <2>2. attach'[o] = "bound" /\ \A p \in Objects : p # o => attach'[p] = attach[p]
    BY <1>a, <2>1 DEF LocalsOK
  <2>3. \A p \in Objects : AttachOK(p)'
    BY <1>b, <2>1, <2>2 DEF AttachOK, Current
  <2>4. live[o] # "none"
    BY <1>b, <2>1 DEF AttachOK
  <2>5. \A p \in Objects : MakingOK(p)'
    BY <1>b, <2>1, <2>2, <2>4 DEF MakingOK, Saved, Lone
  <2>6. Recoverable'
    <3>1. CASE optEph[o]
      <4>1. sealed' = sealed
        BY <1>11, <3>1 DEF Seals
      <4> QED BY <2>1, <4>1 DEF RecoverInv, Recoverable
    <3>2. CASE ~optEph[o]
      <4> DEFINE g == snap[o].gen
                 s == <<g, snap[o].keys[g]>>
      <4>1. g # 0 /\ snap[o].keys[g] # NoKey
            /\ \A h \in Generations : snap[o].keys[h] # NoKey => keypairs[o][h] = snap[o].keys[h]
        BY <1>b, <2>1, <3>2 DEF AttachOK, Current
      <4>2. sealed' = sealed \cup {s}
        BY <1>11, <3>2, <4>1 DEF Seals
      <4>3. g \in Generations
        BY <1>a, <4>1, KeysAssumption DEF LocalsOK, Generations
      <4>4. s[1] # 0 /\ s[2] # NoKey /\ keypairs[o][s[1]] = s[2]
        BY <4>1, <4>3
      <4> HIDE DEF s
      <4> QED BY <2>1, <2>4, <4>2, <4>4 DEF RecoverInv, Recoverable
    <3> QED BY <3>1, <3>2
  <2> QED BY <1>a, <2>3, <2>5, <2>6 DEF RecoverInv
<1>12. ASSUME NEW o \in Objects, FailUnauthorized(o) \/ FailAuthorized(o) PROVE RecoverInv'
  <2>1. Dropped(o) /\ Ended(o) /\ stored \subseteq stored' /\ sealed' = sealed /\ attach[o] # "idle"
    BY <1>12 DEF FailUnauthorized, FailAuthorized, Keeps
  <2>2. live[o] # "none" /\ live[o] \in {"none", "making", "ready"}
    BY <1>a, <1>b, <2>1 DEF AttachOK, RegsOK
  <2>3. /\ attach'[o] = "idle" /\ live'[o] # "making"
        /\ \A p \in Objects : p # o =>
               /\ live'[p] = live[p] /\ keypairs'[p] = keypairs[p] /\ captureGen'[p] = captureGen[p]
               /\ attach'[p] = attach[p] /\ optEph'[p] = optEph[p] /\ snap'[p] = snap[p]
               /\ recovery'[p] = recovery[p]
    BY <1>a, <2>1, DroppedOK, EndedOK
  <2>4. CASE live[o] = "ready"
    <3>1. live'[o] # "none" /\ keypairs'[o] = keypairs[o]
      BY <1>a, <2>1, <2>4, DroppedOK
    <3> QED BY <1>a, <2>1, <2>2, <2>3, <3>1, EndStep
  <2>5. CASE Saved(o)
    <3>1. \A g \in Generations : keypairs[o][g] # NoKey =>
              \E c \in stored' : c.keys[g] = keypairs[o][g]
      BY <2>1, <2>5 DEF Saved
    <3> QED BY <1>a, <2>1, <2>2, <2>3, <3>1, EndStep
  <2>6. CASE live[o] = "making" /\ Lone(o) /\ FailUnauthorized(o)
    <3>1. sealed = {}
      BY <2>6 DEF Lone, FailUnauthorized
    <3> QED BY <1>a, <2>1, <2>2, <2>3, <3>1, EndStep
  <2>7. CASE live[o] = "making" /\ Lone(o) /\ FailAuthorized(o)
    <3>1. recovery[o] # NoCreds
      BY <2>7 DEF Lone, NoCreds
    <3>2. recovery[o] \in stored'
      BY <2>7, <3>1 DEF FailAuthorized, Keeps
    <3>3. \A g \in Generations : keypairs[o][g] # NoKey =>
              \E c \in stored' : c.keys[g] = keypairs[o][g]
      BY <2>7, <3>2 DEF Lone
    <3> QED BY <1>a, <2>1, <2>2, <2>3, <3>3, EndStep
  <2> QED BY <1>12, <1>b, <2>2, <2>4, <2>5, <2>6, <2>7 DEF MakingOK
<1>13. ASSUME NEW o \in Objects, Publish(o) PROVE RecoverInv'
  <2>1. Ended(o) /\ attach[o] # "idle" /\ live' = [live EXCEPT ![o] = "ready"]
        /\ UNCHANGED <<keypairs, captureGen, stored, sealed>>
    BY <1>13 DEF Publish
  <2>2. live[o] # "none"
    BY <1>b, <2>1 DEF AttachOK
  <2>3. /\ attach'[o] = "idle" /\ live'[o] = "ready"
        /\ \A p \in Objects : p # o =>
               /\ live'[p] = live[p]
               /\ attach'[p] = attach[p] /\ optEph'[p] = optEph[p] /\ snap'[p] = snap[p]
               /\ recovery'[p] = recovery[p]
    BY <1>a, <2>1, EndedOK DEF RegsOK
  <2> QED BY <1>a, <2>1, <2>2, <2>3, EndStep
<1>14. ASSUME NEW o \in Objects, Crash(o) PROVE RecoverInv'
  <2>1. Ended(o) /\ Becomes(o, "none", NoKeys, 0, FALSE) /\ live[o] # "none"
        /\ UNCHANGED <<stored, sealed>> /\ Saved(o)
    BY <1>14 DEF Crash
  <2>2. /\ attach'[o] = "idle" /\ live'[o] = "none"
        /\ \A p \in Objects : p # o =>
               /\ live'[p] = live[p] /\ keypairs'[p] = keypairs[p] /\ captureGen'[p] = captureGen[p]
               /\ attach'[p] = attach[p] /\ optEph'[p] = optEph[p] /\ snap'[p] = snap[p]
               /\ recovery'[p] = recovery[p]
    BY <1>a, <2>1, EndedOK DEF RegsOK, Becomes
  <2>3. \A g \in Generations : keypairs[o][g] # NoKey =>
            \E c \in stored' : c.keys[g] = keypairs[o][g]
    BY <2>1 DEF Saved
  <2> QED BY <1>a, <2>1, <2>2, <2>3, EndStep
<1>15. CASE UNCHANGED keyVars
  <2>1. UNCHANGED <<live, keypairs, captureGen, attach, optEph, snap, recovery, stored, sealed>>
    BY <1>15 DEF keyVars
  <2>2. \A p \in Objects : AttachOK(p)' /\ MakingOK(p)'
    BY <1>b, <2>1 DEF AttachOK, Current, MakingOK, Saved, Lone
  <2> QED BY <1>a, <2>1, <2>2 DEF RecoverInv, Recoverable
<1> QED BY <1>1, <1>2, <1>3, <1>4, <1>5, <1>6, <1>7, <1>8, <1>9, <1>10, <1>11, <1>12, <1>13,
           <1>14, <1>15 DEF KeysNext

\* The private half of the keypair any sealed state needs is never lost, for any
\* number of objects, rotations, failed attaches and crashes (Computer.Attach,
\* CreateComputer's recovery Credentials, attachClientError).
THEOREM RecoverableHolds == KeysSpec => []Recoverable
<1>1. RecoverInv => Recoverable
  BY DEF RecoverInv
<1> QED BY <1>1, RecoverInitInv, RecoverNextInv, PTL DEF KeysSpec
=============================================================================
