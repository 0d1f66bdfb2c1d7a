---------------------------- MODULE ControlLease ----------------------------
(***************************************************************************)
(* The control lease of one session (control.go,                           *)
(* internal/coordinator/control.go): TakeControl and ReleaseControl read   *)
(* the control state, patch it under its ETag and start over once when it  *)
(* moved in between; UpdateControl and NotifyHuman act under an ETag the   *)
(* caller read earlier, NotifyHuman under a fresh one if it has none.      *)
(* Who holds the lease is left out: every transition counts as a new       *)
(* epoch, and the epoch is what an ETag names.                             *)
(*                                                                         *)
(* The coordinator is external: it acts on a request that is forced or     *)
(* names the current epoch, and refuses the others with 412.  It gives an  *)
(* ETag with every control state, so no PATCH goes out without If-Match.   *)
(***************************************************************************)
EXTENDS Naturals, FiniteSets

CONSTANTS
    Callers,   \* goroutines, each with one call in progress
    MaxEpoch,  \* bound: transitions of the session
    MaxAstray  \* bound: requests under way whose senders gave up

ASSUME LeaseAssumption == MaxEpoch \in Nat /\ MaxAstray \in Nat

VARIABLES
    epoch,     \* coordinator: control transitions so far
    order,     \* calls: the operation and whether the caller asked for force
    step,      \* calls: idle, about to read the state, about to send
    tag, tries, \* calls: the ETag read last or given, attempts made
    effects,   \* calls: requests of the last call that took effect or still may
    astray,    \* requests their senders gave up that may still arrive
    onto       \* the last effect: forced by its caller, the epoch its sender
               \* had read, the epoch it met

leaseCalls == <<order, step, tag, tries, effects>>
leaseVars  == <<epoch, leaseCalls, astray, onto>>

Epochs  == 0 .. MaxEpoch
Orders  == [op : {"none", "set", "update", "notify"}, force : BOOLEAN]
NoOrder == [op |-> "none", force |-> FALSE]
\* A request on the wire: a notification changes no control, asked is what the
\* caller wanted, force what is sent.
Patches == [notify : BOOLEAN, asked : BOOLEAN, force : BOOLEAN, tag : Epochs]
Effects == [asked : BOOLEAN, seen : Epochs, met : Epochs]

LeaseTypeOK ==
    /\ epoch \in Epochs
    /\ order \in [Callers -> Orders]
    /\ step \in [Callers -> {"idle", "read", "send"}]
    /\ tag \in [Callers -> Epochs] /\ tries \in [Callers -> 0 .. 1]
    /\ effects \in [Callers -> Nat]
    /\ astray \subseteq Patches
    /\ onto \in Effects

LeaseInit ==
    /\ epoch = 0
    /\ order = [c \in Callers |-> NoOrder] /\ step = [c \in Callers |-> "idle"]
    /\ tag = [c \in Callers |-> 0] /\ tries = [c \in Callers |-> 0]
    /\ effects = [c \in Callers |-> 0]
    /\ astray = {} /\ onto = [asked |-> FALSE, seen |-> 0, met |-> 0]

-----------------------------------------------------------------------------
\* The coordinator.

Admits(p) == p.force \/ p.tag = epoch

\* The coordinator acts on request p.
Acts(p) ==
    /\ Admits(p)
    /\ p.notify \/ epoch < MaxEpoch
    /\ epoch' = IF p.notify THEN epoch ELSE epoch + 1
    /\ onto' = [asked |-> p.asked, seen |-> p.tag, met |-> epoch]

\* Control moves on its own: the idle deadline passes, the agent asks for help,
\* another session of the Computer changes hands.
ControlMoves ==
    /\ epoch < MaxEpoch /\ epoch' = epoch + 1
    /\ UNCHANGED <<leaseCalls, astray, onto>>

\* A request its sender no longer waits for arrives after all, or never will.
PatchArrives(p) ==
    /\ Acts(p) \/ UNCHANGED <<epoch, onto>>
    /\ astray' = astray \ {p}
    /\ UNCHANGED leaseCalls

-----------------------------------------------------------------------------
\* The calls.

\* TakeControl and ReleaseControl: force exactly when the actor is admin_override.
BeginSet(c, force) ==
    /\ step[c] = "idle"
    /\ order' = [order EXCEPT ![c] = [op |-> "set", force |-> force]]
    /\ step' = [step EXCEPT ![c] = "read"]
    /\ effects' = [effects EXCEPT ![c] = 0]
    /\ UNCHANGED <<epoch, tag, tries, astray, onto>>

\* UpdateControl, and NotifyHuman with an ETag the caller read at any time before;
\* without one NotifyHuman reads first.
BeginUpdate(c, t, force) ==
    /\ step[c] = "idle" /\ t <= epoch
    /\ order' = [order EXCEPT ![c] = [op |-> "update", force |-> force]]
    /\ tag' = [tag EXCEPT ![c] = t] /\ step' = [step EXCEPT ![c] = "send"]
    /\ effects' = [effects EXCEPT ![c] = 0]
    /\ UNCHANGED <<epoch, tries, astray, onto>>

BeginNotify(c, t) ==
    /\ step[c] = "idle" /\ t <= epoch
    /\ order' = [order EXCEPT ![c] = [op |-> "notify", force |-> FALSE]]
    /\ \/ tag' = [tag EXCEPT ![c] = t] /\ step' = [step EXCEPT ![c] = "send"]
       \/ step' = [step EXCEPT ![c] = "read"] /\ UNCHANGED tag
    /\ effects' = [effects EXCEPT ![c] = 0]
    /\ UNCHANGED <<epoch, tries, astray, onto>>

EndCall(c) ==
    /\ step' = [step EXCEPT ![c] = "idle"] /\ order' = [order EXCEPT ![c] = NoOrder]
    /\ tag' = [tag EXCEPT ![c] = 0] /\ tries' = [tries EXCEPT ![c] = 0]

\* GetControl: the state's ETag, or the error ends the call.
ReadControl(c) ==
    /\ step[c] = "read"
    /\ \/ /\ tag' = [tag EXCEPT ![c] = epoch] /\ step' = [step EXCEPT ![c] = "send"]
          /\ UNCHANGED <<order, tries>>
       \/ EndCall(c)
    /\ UNCHANGED <<epoch, effects, astray, onto>>

\* Mutant: the second attempt insists.
ForcesRetry(c) == order[c].force \/ tries[c] = 1

\* Whether the PATCH carries force=true.
Forces(c) == order[c].force

Patch(c) == [notify |-> order[c].op = "notify", asked |-> order[c].force,
             force |-> Forces(c), tag |-> tag[c]]

\* Mutant: a lost answer is retried like a stale ETag.
RetriesLost(c, status) ==
    /\ order[c].op = "set" /\ tries[c] = 0 /\ ~order[c].force
    /\ status \in {"precondition", "lost"}

\* setController's one repetition.
Retries(c, status) ==
    /\ order[c].op = "set" /\ tries[c] = 0 /\ ~order[c].force
    /\ status = "precondition"

\* The attempt failed: the call reads the state again, or returns the error.
\* taken: its request took effect or still may.
Failed(c, status, taken) ==
    /\ IF Retries(c, status)
       THEN /\ tries' = [tries EXCEPT ![c] = 1] /\ step' = [step EXCEPT ![c] = "read"]
            /\ UNCHANGED <<order, tag>>
       ELSE EndCall(c)
    /\ effects' = [effects EXCEPT ![c] = @ + taken]

\* The request is carried out and answered.
Done(c) ==
    /\ step[c] = "send"
    /\ Acts(Patch(c)) /\ EndCall(c)
    /\ effects' = [effects EXCEPT ![c] = @ + 1]
    /\ UNCHANGED astray

\* 412.
Stale(c) ==
    /\ step[c] = "send" /\ ~Admits(Patch(c))
    /\ Failed(c, "precondition", 0)
    /\ UNCHANGED <<epoch, astray, onto>>

\* Any other refusal.
Refused(c) ==
    /\ step[c] = "send"
    /\ Failed(c, "refused", 0)
    /\ UNCHANGED <<epoch, astray, onto>>

\* No answer, by a fault or because the caller's context ends: the request was
\* carried out, never arrives or is still on its way.  The transport does not
\* repeat a PATCH or a POST without being told to.
Unknown(c) ==
    /\ step[c] = "send"
    /\ \/ Acts(Patch(c)) /\ Failed(c, "lost", 1) /\ UNCHANGED astray
       \/ Failed(c, "lost", 0) /\ UNCHANGED <<epoch, onto, astray>>
       \/ /\ Cardinality(astray) < MaxAstray /\ astray' = astray \cup {Patch(c)}
          /\ Failed(c, "lost", 1) /\ UNCHANGED <<epoch, onto>>

-----------------------------------------------------------------------------
LeaseNext ==
    \/ \E c \in Callers :
          \/ \E f \in BOOLEAN : BeginSet(c, f)
          \/ \E t \in Epochs : BeginNotify(c, t) \/ \E f \in BOOLEAN : BeginUpdate(c, t, f)
          \/ ReadControl(c) \/ Done(c) \/ Stale(c) \/ Refused(c) \/ Unknown(c)
    \/ ControlMoves
    \/ \E p \in astray : PatchArrives(p)

LeaseSpec == LeaseInit /\ [][LeaseNext]_leaseVars

-----------------------------------------------------------------------------
\* Properties.

\* Control is never changed, nor a person called, over a state its caller has not
\* seen, unless that caller asked for force: not by the second attempt after a
\* 412, and not by a request that arrives after its call has returned.
NoBlindOverwrite == onto.asked \/ onto.seen = onto.met

\* A call has at most one effect: when an answer is lost the transition may have
\* happened, and setController's repetition does not make a second one.
OneEffectPerCall == \A c \in Callers : effects[c] <= 1
=============================================================================
