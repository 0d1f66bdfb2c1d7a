----------------------- MODULE SandboxLifecycleProofs -----------------------
(***************************************************************************)
(* Proofs about SandboxLifecycle, for any number of backends, any of the   *)
(* calls, both kinds of server and any bound on its versions.              *)
(***************************************************************************)
EXTENDS SandboxLifecycle, TLAPS

Waits == {"pause", "resume", "ready"}

\* A call that has not begun has observed and returned nothing.
IdleInv == \A p \in Procs : pc[p] = "idle" => info[p] = NoInfo /\ res[p] = "none"

\* An observation is of the past: its version is not above the server's, one of
\* the same version is the same record, and a release it shows is final.
InfoInv ==
    \A p \in Procs :
        /\ info[p].ver <= srv.ver
        /\ info[p].ver = srv.ver => info[p].st = srv.st
        /\ info[p].st = "released" => srv.st \in Released

\* A release is only sent for a sandbox observed broken.
RecoverInv == \A p \in Procs : Running(p, "recover", "post") => info[p].st \in Broken

\* The history variable of a wait covers the server's record and what the wait
\* holds of it.
HitInv ==
    \A p \in Procs : op[p] \in Waits =>
        /\ srv.st \in Watched(op[p]) => hit[p]
        /\ info[p].st \in Watched(op[p]) => hit[p]

OkInv == \A p \in Procs : res[p] = "ok" =>
             op[p] \in Waits /\ (hit[p] \/ (op[p] = "ready" /\ made = "running"))

SafetyInv == /\ TypeOK /\ IdleInv /\ InfoInv /\ RecoverInv /\ HitInv /\ OkInv
             /\ ConfirmedIsReleased

USE LifecycleAssumption

\* The initial record and the idle calls satisfy the invariant.
LEMMA InitSafe == Init => SafetyInv
  BY DEF Init, SafetyInv, TypeOK, IdleInv, InfoInv, RecoverInv, HitInv, OkInv,
         ConfirmedIsReleased, Info, NoInfo, States, Healthy, Broken, Released, SaveFailed,
         Watched, Waits, Running

\* A server step keeps it: versions grow and a release is final.
LEMMA ServerMovesSafe == SafetyInv /\ ServerMoves => SafetyInv'
  <1> SUFFICES ASSUME SafetyInv, ServerMoves PROVE SafetyInv'  OBVIOUS
  <1> PICK state \in Moves[srv.st] : Becomes(state) /\ Witness(state)  BY DEF ServerMoves
  <1>1. state \in States /\ (srv.st \in Released => state \in Released)
    BY DEF SafetyInv, TypeOK, Info, Moves, States, Healthy, Broken, Released, SaveFailed
  <1>2. /\ hit' \in [Procs -> BOOLEAN]
        /\ \A p \in Procs : hit[p] => hit'[p]
        /\ \A p \in Procs : state \in Watched(op[p]) => hit'[p]
    BY Zenon DEF SafetyInv, TypeOK, Witness
  <1>3. /\ srv' = [st |-> state, ver |-> srv.ver + 1] /\ srv' \in Info /\ srv'.ver > 0
        /\ srv.ver \in Nat
        /\ UNCHANGED <<pc, op, late, made, info, res>>
    BY <1>1 DEF SafetyInv, TypeOK, Info, Becomes, ServerMoves, mine
  <1>4. TypeOK'  BY <1>2, <1>3 DEF SafetyInv, TypeOK
  <1>5. IdleInv' /\ RecoverInv'  BY <1>3 DEF SafetyInv, IdleInv, RecoverInv, Running
  <1>6. InfoInv'  BY <1>1, <1>3 DEF SafetyInv, TypeOK, InfoInv, Info
  <1>7. HitInv' /\ OkInv'  BY <1>2, <1>3 DEF SafetyInv, HitInv, OkInv
  <1>8. ConfirmedIsReleased'  BY <1>1, <1>3 DEF SafetyInv, ConfirmedIsReleased
  <1> QED  BY <1>4, <1>5, <1>6, <1>7, <1>8 DEF SafetyInv

\* What a step of call p may do without touching the server: it holds on to
\* nothing but the server's record or what it held, and returns what is true.
QuietStep(p) ==
    /\ UNCHANGED <<srv, op, late, made, hit>>
    /\ pc' \in [Procs -> {"get", "post", "reget", "known", "loop", "done"} \cup {"idle"}]
    /\ info' \in [Procs -> Info]
    /\ res' \in [Procs -> {"none", "true", "false", "err", "saveerr", "ok", "failed",
                            "timeout", "retained"}]
    /\ \A q \in Procs \ {p} : pc'[q] = pc[q] /\ info'[q] = info[q] /\ res'[q] = res[q]
    /\ pc'[p] \notin {"idle", "known"} /\ (pc'[p] = "post" => op[p] \notin {"start", "ready"})
    /\ info'[p] \in {info[p], srv, NoInfo}
    /\ res'[p] = "true" => srv.st \in Released \/ res[p] = "true"
    /\ res'[p] = "ok" => \/ op[p] \in Waits /\ (hit[p] \/ (op[p] = "ready" /\ made = "running"))
                         \/ res[p] = "ok"
    /\ pc'[p] = "post" /\ op[p] = "recover" => info'[p].st \in Broken

\* Such a step keeps the invariant.
LEMMA QuietSafe == ASSUME SafetyInv, NEW p \in Procs, QuietStep(p) PROVE SafetyInv'
  <1>1. TypeOK'  BY DEF SafetyInv, TypeOK, QuietStep
  <1>2. IdleInv'  BY DEF SafetyInv, IdleInv, QuietStep
  <1>3. InfoInv'
    BY DEF SafetyInv, TypeOK, InfoInv, QuietStep, NoInfo, Info, Released
  <1>4. RecoverInv'  BY DEF SafetyInv, RecoverInv, QuietStep, Running
  <1>5. HitInv'
    <2>1. NoInfo.st \notin Watched("pause") \cup Watched("resume") \cup Watched("ready")
      BY DEF NoInfo, Watched
    <2> QED  BY <2>1 DEF SafetyInv, HitInv, QuietStep, Waits
  <1>6. OkInv'  BY DEF SafetyInv, OkInv, QuietStep
  <1>7. ConfirmedIsReleased'  BY DEF SafetyInv, ConfirmedIsReleased, QuietStep
  <1> QED  BY <1>1, <1>2, <1>3, <1>4, <1>5, <1>6, <1>7 DEF SafetyInv

\* The reads of the calls are such steps: Stop's first read, ...
LEMMA StopGetSafe == ASSUME SafetyInv, NEW p \in Procs, StopGet(p) PROVE SafetyInv'
  <1>1. QuietStep(p)
    BY DEF QuietStep, SafetyInv, TypeOK, StopGet, Running, Return, Keep, Goto, mine, Released
  <1> QED  BY <1>1, QuietSafe

\* ... its second, after a conflict, ...
LEMMA StopRegetSafe == ASSUME SafetyInv, NEW p \in Procs, StopReget(p) PROVE SafetyInv'
  <1>1. QuietStep(p)
    BY DEF QuietStep, SafetyInv, TypeOK, StopReget, Running, Return, Goto, mine
  <1> QED  BY <1>1, QuietSafe

\* What observe returns is the server's record or the observation it began with.
LEMMA ObservedIs == ASSUME NEW p \in Procs, NEW i \in Observed(p) PROVE i \in {srv, info[p]}
  BY DEF Observed, Get

\* The missing observation shows no release.
LEMMA NoInfoFacts == NoInfo \in Info /\ NoInfo.st # "released"
  BY DEF NoInfo, Info, States, Released

\* Stop's wait.
LEMMA StopLoopSafe == ASSUME SafetyInv, NEW p \in Procs, StopLoop(p) PROVE SafetyInv'
  <1>1. QuietStep(p)
    BY ObservedIs DEF QuietStep, SafetyInv, TypeOK, InfoInv, StopLoop, Running, Return, Keep, Goto,
         mine, Released
  <1> QED  BY <1>1, QuietSafe

\* Terminate's wait.
LEMMA TerminateLoopSafe == ASSUME SafetyInv, NEW p \in Procs, TerminateLoop(p) PROVE SafetyInv'
  <1>1. QuietStep(p)
    BY ObservedIs, NoInfoFacts DEF QuietStep, SafetyInv, TypeOK, InfoInv, TerminateLoop, Running, Return,
         Keep, Goto, mine, Released
  <1> QED  BY <1>1, QuietSafe

\* The look of Start and Recover at the bound sandbox.
LEMMA StartGetSafe == ASSUME SafetyInv, NEW p \in Procs, StartGet(p) PROVE SafetyInv'
  <1>1. QuietStep(p)
    BY DEF QuietStep, SafetyInv, TypeOK, StartGet, Return, Keep, Goto, mine
  <1> QED  BY <1>1, QuietSafe

\* Their wait for its release.
LEMMA ReleaseLoopSafe == ASSUME SafetyInv, NEW p \in Procs, ReleaseLoop(p) PROVE SafetyInv'
  <1>1. QuietStep(p)
    BY ObservedIs, NoInfoFacts DEF QuietStep, SafetyInv, TypeOK, InfoInv, ReleaseLoop, Return,
         Keep, Goto, mine, Released
  <1> QED  BY <1>1, QuietSafe

\* The second look of Pause and Resume.
LEMMA MemoryRegetSafe == ASSUME SafetyInv, NEW p \in Procs, MemoryReget(p) PROVE SafetyInv'
  <1>1. QuietStep(p)
    BY DEF QuietStep, SafetyInv, TypeOK, HitInv, MemoryReget, Return, mine, Waits
  <1> QED  BY <1>1, QuietSafe

\* Readiness known from the create.
LEMMA ReadyKnownSafe == ASSUME SafetyInv, NEW p \in Procs, ReadyKnown(p) PROVE SafetyInv'
  <1>1. QuietStep(p)
    BY DEF QuietStep, SafetyInv, TypeOK, ReadyKnown, Return, mine, Waits
  <1> QED  BY <1>1, QuietSafe

\* The wait of Pause, Resume and readiness.
LEMMA WaitLoopSafe == ASSUME SafetyInv, NEW p \in Procs, WaitLoop(p) PROVE SafetyInv'
  <1>1. QuietStep(p)
    BY ObservedIs DEF QuietStep, SafetyInv, TypeOK, HitInv, WaitLoop, Return, Keep, Goto,
         mine, Waits
  <1> QED  BY <1>1, QuietSafe

-----------------------------------------------------------------------------
\* What a request of call p may do: move an unreleased sandbox to a state that
\* no wait is for, and go on to wait or return an error.
RequestStep(p) ==
    /\ UNCHANGED <<op, late, made, info>>
    /\ srv.st \notin Released /\ srv.ver < MaxVersion
    /\ srv' = [st |-> srv'.st, ver |-> srv.ver + 1]
    /\ srv'.st \in {"saving", "stopping", "pausing", "resuming"}
    /\ hit' \in [Procs -> BOOLEAN]
    /\ \A q \in Procs : op[q] \in Waits => (hit[q] => hit'[q])
    /\ pc' \in [Procs -> {"get", "post", "reget", "known", "loop", "done"} \cup {"idle"}]
    /\ res' \in [Procs -> {"none", "true", "false", "err", "saveerr", "ok", "failed",
                            "timeout", "retained"}]
    /\ \A q \in Procs \ {p} : pc'[q] = pc[q] /\ res'[q] = res[q]
    /\ pc'[p] \in {"loop", "done"}
    /\ res'[p] \in {res[p], "err"}

\* Such a step keeps the invariant.
LEMMA RequestSafe == ASSUME SafetyInv, NEW p \in Procs, RequestStep(p) PROVE SafetyInv'
  <1>1. TypeOK'
    <2>1. srv' \in Info /\ srv'.ver > 0
      BY DEF SafetyInv, TypeOK, RequestStep, Info, States, Healthy
    <2> QED  BY <2>1 DEF SafetyInv, TypeOK, RequestStep
  <1>2. IdleInv'  BY DEF SafetyInv, IdleInv, RequestStep
  <1>3. InfoInv'  BY DEF SafetyInv, TypeOK, InfoInv, RequestStep, Info
  <1>4. RecoverInv'  BY DEF SafetyInv, RecoverInv, RequestStep, Running
  <1>5. HitInv'  BY DEF SafetyInv, HitInv, RequestStep, Waits, Watched
  <1>6. OkInv'  BY DEF SafetyInv, OkInv, RequestStep
  <1>7. ConfirmedIsReleased'
    BY DEF SafetyInv, ConfirmedIsReleased, RequestStep
  <1> QED  BY <1>1, <1>2, <1>3, <1>4, <1>5, <1>6, <1>7 DEF SafetyInv

\* Witness never forgets.
LEMMA WitnessGrows ==
    ASSUME SafetyInv, NEW state, Witness(state)
    PROVE  hit' \in [Procs -> BOOLEAN] /\ \A q \in Procs : hit[q] => hit'[q]
  BY Zenon DEF SafetyInv, TypeOK, Witness

\* Stop's request: only its own history is restarted, and Stop is no wait.
LEMMA StopPostSafe == ASSUME SafetyInv, NEW p \in Procs, StopPost(p) PROVE SafetyInv'
  <1>1. CASE UNCHANGED <<srv, hit>>
    <2>0. /\ Goto(p, "loop") \/ Goto(p, "reget") \/ Return(p, "err")
          /\ op[p] = "stop" /\ UNCHANGED <<op, late, made, info>>
      BY DEF StopPost, Running, mine
    <2>1. QuietStep(p)
      BY <1>1, <2>0 DEF QuietStep, SafetyInv, TypeOK, Return, Goto
    <2> QED  BY <2>1, QuietSafe
  <1>2. CASE /\ Admits("stop") /\ Becomes(Leads("stop"))
             /\ hit' = [hit EXCEPT ![p] = FALSE]
             /\ Goto(p, "loop") \/ Return(p, "err")
    <2>1. /\ hit' \in [Procs -> BOOLEAN] /\ op[p] = "stop"
          /\ \A q \in Procs \ {p} : hit'[q] = hit[q]
      BY <1>2 DEF SafetyInv, TypeOK, StopPost, Running
    <2>2. RequestStep(p)
      BY <1>2, <2>1 DEF RequestStep, SafetyInv, TypeOK, StopPost, Running, Return, Goto, mine,
           Becomes, Admits, Leads, Released, Waits
    <2> QED  BY <2>2, RequestSafe
  <1> QED  BY <1>1, <1>2 DEF StopPost

\* Terminate's delete.
LEMMA TerminatePostSafe == ASSUME SafetyInv, NEW p \in Procs, TerminatePost(p) PROVE SafetyInv'
  <1>1. CASE UNCHANGED <<srv, hit>>
    <2>1. QuietStep(p)
      BY <1>1 DEF QuietStep, SafetyInv, TypeOK, TerminatePost, Running, Return, Goto, mine
    <2> QED  BY <2>1, QuietSafe
  <1>2. CASE /\ Teardown /\ (Goto(p, "loop") \/ Return(p, "err")) /\ Witness("stopping")
    <2>0. \A q \in Procs : "stopping" \notin Watched(op[q])
      BY DEF Watched, SaveFailed
    <2>1. hit' = hit
      BY <1>2, <2>0, Zenon DEF SafetyInv, TypeOK, Witness
    <2>2. CASE srv' = srv  BY <2>2, <2>1, <1>1
    <2>3. CASE srv.st \notin Released \cup {"stopping"} /\ Becomes("stopping")
      <3>1. RequestStep(p)
        BY <1>2, <2>1, <2>3 DEF RequestStep, SafetyInv, TypeOK, TerminatePost, Running, Return,
             Goto, mine, Becomes
      <3> QED  BY <3>1, RequestSafe
    <2> QED  BY <1>2, <2>2, <2>3 DEF Teardown
  <1> QED  BY <1>1, <1>2 DEF TerminatePost

\* Recover's conditional release: the sandbox is the broken one it observed.
LEMMA ReleasePostSafe == ASSUME SafetyInv, NEW p \in Procs, ReleasePost(p) PROVE SafetyInv'
  <1>1. CASE UNCHANGED <<srv, hit>>
    <2>1. QuietStep(p)
      BY <1>1 DEF QuietStep, SafetyInv, TypeOK, ReleasePost, Running, Return, Goto, mine,
           RecoverInv
    <2> QED  BY <2>1, QuietSafe
  <1>2. CASE /\ srv.ver = info[p].ver /\ Becomes("stopping") /\ Witness("stopping")
             /\ Goto(p, "loop") \/ Return(p, "err")
    <2>1. srv.st \notin Released
      BY <1>2 DEF SafetyInv, InfoInv, RecoverInv, ReleasePost, Running, Broken, Released, SaveFailed
    <2>2. RequestStep(p)
      BY <1>2, <2>1, WitnessGrows DEF RequestStep, SafetyInv, TypeOK, ReleasePost, Return, Goto,
           mine, Becomes
    <2> QED  BY <2>2, RequestSafe
  <1> QED  BY <1>1, <1>2 DEF ReleasePost

\* The requests of Pause and Resume.
LEMMA MemoryPostSafe == ASSUME SafetyInv, NEW p \in Procs, MemoryPost(p) PROVE SafetyInv'
  <1>1. CASE UNCHANGED <<srv, hit>>
    <2>1. QuietStep(p)
      BY <1>1 DEF QuietStep, SafetyInv, TypeOK, MemoryPost, Return, Goto, mine
    <2> QED  BY <2>1, QuietSafe
  <1>2. CASE /\ Admits(op[p]) /\ Becomes(Leads(op[p])) /\ Witness(Leads(op[p]))
             /\ Goto(p, "loop") \/ Return(p, "err")
    <2>1. hit' \in [Procs -> BOOLEAN] /\ \A q \in Procs : hit[q] => hit'[q]
      BY <1>2, WitnessGrows
    <2>2. /\ srv.st \in {"running", "paused"} /\ op[p] \in {"pause", "resume"}
          /\ Leads(op[p]) \in {"pausing", "resuming"}
      BY <1>2 DEF MemoryPost, Admits, Leads
    <2>3. RequestStep(p)
      BY <1>2, <2>1, <2>2 DEF RequestStep, SafetyInv, TypeOK, MemoryPost, Return, Goto,
           mine, Becomes, Released
    <2> QED  BY <2>3, RequestSafe
  <1> QED  BY <1>1, <1>2 DEF MemoryPost

-----------------------------------------------------------------------------
\* A call begins: its history starts from the server's record.
LEMMA BeginSafe ==
    ASSUME SafetyInv, NEW p \in Procs, NEW o \in Ops, Begin(p, o) PROVE SafetyInv'
  <1>1. /\ UNCHANGED <<srv, info, late, made, res>> /\ pc[p] = "idle"
        /\ op' \in [Procs -> Ops \cup {"none"}] /\ op'[p] = o
        /\ \A q \in Procs \ {p} : op'[q] = op[q] /\ pc'[q] = pc[q]
        /\ pc' \in [Procs -> {"idle", "get", "post", "reget", "known", "loop", "done"}]
        /\ pc'[p] # "idle" /\ (o \in {"start", "recover", "ready"} => pc'[p] # "post")
        /\ pc'[p] = "known" => o = "ready" /\ made = "running"
    BY DEF SafetyInv, TypeOK, Begin, Goto
  <1>2. /\ hit' \in [Procs -> BOOLEAN]
        /\ hit'[p] <=> srv.st \in Watched(o)
        /\ \A q \in Procs \ {p} : hit'[q] <=> hit[q]
    <2>1. (srv.st \in Watched(o)) \in BOOLEAN  OBVIOUS
    <2> QED  BY <2>1, Zenon DEF SafetyInv, TypeOK, Begin
  <1>3. info[p] = NoInfo /\ res[p] = "none"  BY <1>1 DEF SafetyInv, IdleInv
  <1>4. TypeOK'  BY <1>1, <1>2 DEF SafetyInv, TypeOK
  <1>5. IdleInv' /\ RecoverInv'
    BY <1>1 DEF SafetyInv, IdleInv, RecoverInv, Running
  <1>6. InfoInv' /\ ConfirmedIsReleased'
    BY <1>1 DEF SafetyInv, InfoInv, ConfirmedIsReleased
  <1>7. HitInv'
    <2>1. o \in Waits => NoInfo.st \notin Watched(o)  BY DEF NoInfo, Watched, Waits
    <2> QED  BY <1>1, <1>2, <1>3, <2>1 DEF SafetyInv, HitInv
  <1>8. OkInv'  BY <1>1, <1>2, <1>3 DEF SafetyInv, OkInv
  <1> QED  BY <1>4, <1>5, <1>6, <1>7, <1>8 DEF SafetyInv

\* Deadlines and stuttering touch nothing the invariant is about.
LEMMA RestSafe ==
    ASSUME SafetyInv, (\E p \in Procs : Deadline(p)) \/ UNCHANGED vars PROVE SafetyInv'
  <1>1. UNCHANGED <<srv, pc, op, info, made, res, hit>> /\ late' \in [Procs -> BOOLEAN]
    BY DEF SafetyInv, TypeOK, Deadline, vars
  <1>2. TypeOK'  BY <1>1 DEF SafetyInv, TypeOK
  <1> QED
    BY <1>1, <1>2 DEF SafetyInv, IdleInv, InfoInv, RecoverInv, HitInv, OkInv,
         ConfirmedIsReleased, Running

\* Every step of the system keeps the invariant.
LEMMA StepSafe == SafetyInv /\ [Next]_vars => SafetyInv'
  <1> SUFFICES ASSUME SafetyInv, [Next]_vars PROVE SafetyInv'  OBVIOUS
  <1>1. CASE ServerMoves  BY <1>1, ServerMovesSafe
  <1>2. CASE \E p \in Procs, o \in Ops : Begin(p, o)  BY <1>2, BeginSafe
  <1>3. CASE (\E p \in Procs : Deadline(p)) \/ UNCHANGED vars  BY <1>3, RestSafe
  <1>4. ASSUME NEW p \in Procs, Call(p) PROVE SafetyInv'
    BY <1>4, StopGetSafe, StopPostSafe, StopRegetSafe, StopLoopSafe, TerminatePostSafe,
       TerminateLoopSafe, StartGetSafe, ReleasePostSafe, ReleaseLoopSafe, MemoryPostSafe,
       MemoryRegetSafe, ReadyKnownSafe, WaitLoopSafe DEF Call
  <1> QED  BY <1>1, <1>2, <1>3, <1>4 DEF Next

\* So it always holds.
LEMMA AlwaysSafe == Spec => []SafetyInv
  BY InitSafe, StepSafe, PTL DEF Spec

-----------------------------------------------------------------------------
\* Variables stay within their types, whatever the server and the calls do.
THEOREM LifecycleTypeCorrect == Spec => []TypeOK
  <1>1. SafetyInv => TypeOK  BY DEF SafetyInv
  <1> QED  BY <1>1, AlwaysSafe, PTL

\* A Stop, Terminate or release that answers true is never wrong, however many
\* backends act on the sandbox and however old their observations are.
THEOREM ConfirmedIsReleasedHolds == Spec => []ConfirmedIsReleased
  <1>1. SafetyInv => ConfirmedIsReleased  BY DEF SafetyInv
  <1> QED  BY <1>1, AlwaysSafe, PTL

\* Pause and Resume only succeed when the target state was reached during the call,
\* and the wait for readiness when the sandbox ran during the call or, of a prewarmed
\* one, at its creation.
THEOREM TargetWasReachedHolds == Spec => []TargetWasReached
  <1>1. SafetyInv => TargetWasReached  BY DEF SafetyInv, OkInv, TargetWasReached
  <1> QED  BY <1>1, AlwaysSafe, PTL

\* While a release waits to be sent, only its own step or another actor moves
\* the sandbox; the step that sends it finds the sandbox broken.
LEMMA ReleaseFindsBroken ==
    ASSUME SafetyInv, NEW p \in Procs, Running(p, "recover", "post"), pc'[p] # "post",
           [Next]_vars, srv' # srv
    PROVE  srv.st \notin Healthy
  <1>1. \A q \in Procs \ {p} : ~Call(q)
    <2> SUFFICES ASSUME NEW q \in Procs \ {p}, Call(q) PROVE FALSE  OBVIOUS
    <2>1. pc'[p] = pc[p]
      BY DEF Call, SafetyInv, TypeOK, StopGet, StopPost, StopReget, StopLoop, TerminatePost,
           TerminateLoop, StartGet, ReleasePost, ReleaseLoop, MemoryPost, MemoryReget, ReadyKnown, WaitLoop,
           Return, Goto
    <2> QED  BY <2>1 DEF Running
  <1>2. Call(p)
    BY <1>1 DEF Next, ServerMoves, Begin, Deadline, vars, Running
  <1>3. ReleasePost(p)
    BY <1>2 DEF Call, Running, StopGet, StopPost, StopReget, StopLoop, TerminatePost,
         TerminateLoop, StartGet, ReleaseLoop, MemoryPost, MemoryReget, ReadyKnown, WaitLoop
  <1>4. srv.st = info[p].st /\ info[p].st \in Broken
    BY <1>3 DEF ReleasePost, SafetyInv, InfoInv, RecoverInv
  <1> QED  BY <1>4 DEF Broken, Healthy, SaveFailed

\* Recover never tears down a sandbox that is healthy when the release arrives.
THEOREM RecoverSparesHealthyHolds == Spec => RecoverSparesHealthy
  <1>1. SafetyInv /\ [Next]_vars =>
            [\A p \in Procs : Running(p, "recover", "post") /\ srv' # srv /\ pc'[p] # "post" =>
                srv.st \notin Healthy]_vars
    BY ReleaseFindsBroken
  <1> QED  BY <1>1, AlwaysSafe, PTL DEF Spec, RecoverSparesHealthy
-----------------------------------------------------------------------------
\* What a call leaves alone: the other calls, and the absence of a failed save
\* (only the server itself can fail to save).
LEMMA CallFrame ==
    ASSUME SafetyInv, NEW p \in Procs, Call(p)
    PROVE  /\ \A q \in Procs \ {p} : pc'[q] = pc[q] /\ info'[q] = info[q] /\ res'[q] = res[q]
           /\ UNCHANGED <<op, late>>
           /\ srv' = srv \/ srv'.st \notin SaveFailed
  <1>1. \A q \in Procs \ {p} : pc'[q] = pc[q] /\ res'[q] = res[q]
    BY DEF Call, SafetyInv, TypeOK, StopGet, StopPost, StopReget, StopLoop, TerminatePost,
         TerminateLoop, StartGet, ReleasePost, ReleaseLoop, MemoryPost, MemoryReget, ReadyKnown, WaitLoop,
         Return, Goto
  <1>2. \A q \in Procs \ {p} : info'[q] = info[q]
    BY DEF Call, SafetyInv, TypeOK, StopGet, StopPost, StopReget, StopLoop, TerminatePost,
         TerminateLoop, StartGet, ReleasePost, ReleaseLoop, MemoryPost, MemoryReget, ReadyKnown, WaitLoop,
         Keep
  <1>3. UNCHANGED <<op, late>>
    BY DEF Call, StopGet, StopPost, StopReget, StopLoop, TerminatePost,
         TerminateLoop, StartGet, ReleasePost, ReleaseLoop, MemoryPost, MemoryReget, ReadyKnown, WaitLoop,
         mine
  <1>4. srv' = srv \/ srv'.st \notin SaveFailed
    BY DEF Call, StopGet, StopPost, StopReget, StopLoop, TerminatePost, Teardown,
         TerminateLoop, StartGet, ReleasePost, ReleaseLoop, MemoryPost, MemoryReget, ReadyKnown, WaitLoop,
         Becomes, Leads, SaveFailed
  <1> QED  BY <1>1, <1>2, <1>3, <1>4

\* Only a Stop whose request is admitted starts a history over, and only its own.
LEMMA CallHistory ==
    ASSUME SafetyInv, NEW p \in Procs, Call(p)
    PROVE  /\ hit' \in [Procs -> BOOLEAN]
           /\ \A q \in Procs \ {p} : hit[q] => hit'[q]
           /\ hit[p] => hit'[p] \/ (StopPost(p) /\ srv' # srv)
  <1>0. hit \in [Procs -> BOOLEAN] /\ srv.ver \in Nat  BY DEF SafetyInv, TypeOK, Info
  <1>1. CASE hit' = hit  BY <1>0, <1>1, Zenon
  <1>2. CASE \E state : Witness(state)  BY <1>2, WitnessGrows, Zenon
  <1>3. CASE StopPost(p) /\ Becomes(Leads("stop")) /\ hit' = [hit EXCEPT ![p] = FALSE]
    <2>1. srv' # srv  BY <1>0, <1>3 DEF Becomes
    <2> QED  BY <1>0, <1>3, <2>1, Zenon
  <1> QED
    BY <1>1, <1>2, <1>3 DEF Call, StopGet, StopPost, StopReget, StopLoop, TerminatePost,
         TerminateLoop, StartGet, ReleasePost, ReleaseLoop, MemoryPost, MemoryReget, ReadyKnown, WaitLoop

\* The steps of Stop that are still to come.
Stopping(p) == op[p] = "stop" /\ pc[p] \in {"get", "post", "reget", "loop"}

\* Where a save error can come from: the history covers the server's record, and
\* the one failed save a Stop keeps from before its request is a retryable one.
SaveInv ==
    \A p \in Procs :
        /\ Stopping(p) /\ srv.st \in SaveFailed => hit[p]
        /\ Stopping(p) /\ info[p].st \in SaveFailed => info[p].st = "save_retry"
        /\ res[p] = "saveerr" => pc[p] = "done"

\* A save error is current, except on a server with ETags when the Stop retries a
\* save it has itself observed failed: a transient fault of the wait is then read
\* as that earlier observation.
SaveErrorExplained ==
    \A p \in Procs : res[p] = "saveerr" =>
        hit[p] \/ (HasETag /\ info[p].st = "save_retry")

\* A step of another actor keeps what SaveInv and SaveErrorExplained say of a call.
LEMMA SaveOthers ==
    ASSUME SafetyInv, SaveInv, SaveErrorExplained, NEW q \in Procs,
           pc'[q] = pc[q], op'[q] = op[q], info'[q] = info[q], res'[q] = res[q],
           hit[q] => hit'[q],
           srv'.st \in SaveFailed => srv' = srv \/ hit'[q]
    PROVE  /\ (Stopping(q) /\ srv.st \in SaveFailed => hit[q])'
           /\ (Stopping(q) /\ info[q].st \in SaveFailed => info[q].st = "save_retry")'
           /\ (res[q] = "saveerr" => pc[q] = "done")'
           /\ (res[q] = "saveerr" => hit[q] \/ (HasETag /\ info[q].st = "save_retry"))'
  BY DEF SaveInv, SaveErrorExplained, Stopping

\* Stop's own steps: what it keeps and what it reports.
LEMMA SaveStops ==
    ASSUME SafetyInv, SaveInv, SaveErrorExplained, NEW p \in Procs, op[p] = "stop", Call(p)
    PROVE  /\ (Stopping(p) /\ srv.st \in SaveFailed => hit[p])'
           /\ (Stopping(p) /\ info[p].st \in SaveFailed => info[p].st = "save_retry")'
           /\ (res[p] = "saveerr" => pc[p] = "done")'
           /\ (res[p] = "saveerr" => hit[p] \/ (HasETag /\ info[p].st = "save_retry"))'
  <1> USE DEF SafetyInv, TypeOK, Stopping, Running
  <1>0. StopGet(p) \/ StopPost(p) \/ StopReget(p) \/ StopLoop(p)
    BY DEF Call, TerminatePost, TerminateLoop, StartGet, ReleasePost, ReleaseLoop, MemoryPost,
         MemoryReget, ReadyKnown, WaitLoop
  <1>1. op'[p] = "stop" /\ Stopping(p) /\ res[p] # "saveerr"
    BY <1>0, CallFrame DEF StopGet, StopPost, StopReget, StopLoop, SaveInv
  <1>2. /\ srv.st \in SaveFailed => hit[p]
        /\ info[p].st \in SaveFailed => info[p].st = "save_retry"
    BY <1>1 DEF SaveInv
  <1>3. CASE StopGet(p)
    BY <1>1, <1>2, <1>3 DEF StopGet, Return, Goto, Keep, SaveFailed
  <1>4. CASE StopPost(p)
    <2>1. (srv' = srv /\ hit' = hit) \/ srv'.st = "saving"
      BY <1>4 DEF StopPost, Becomes, Leads
    <2>2. info' = info /\ res'[p] \in {res[p], "err"}
      BY <1>4 DEF StopPost, Return, Goto
    <2> QED  BY <1>1, <1>2, <2>1, <2>2 DEF SaveFailed
  <1>5. CASE StopReget(p)
    BY <1>1, <1>2, <1>5 DEF StopReget, Return, Goto
  <1>6. CASE StopLoop(p)
    <2>0. UNCHANGED <<srv, hit>>  BY <1>6 DEF StopLoop
    <2>1. CASE UNCHANGED info /\ \E r \in {"true", "false", "err"} : Return(p, r)
      BY <1>1, <1>2, <2>0, <2>1 DEF Return
    <2>2. ASSUME NEW i \in Observed(p), Keep(p, i),
                 CASE i.st = "released"    -> Return(p, "true")
                   [] i.st \in SaveFailed  -> Return(p, "saveerr")
                   [] OTHER                -> Goto(p, "loop")
          PROVE  /\ (Stopping(p) /\ srv.st \in SaveFailed => hit[p])'
                 /\ (Stopping(p) /\ info[p].st \in SaveFailed => info[p].st = "save_retry")'
                 /\ (res[p] = "saveerr" => pc[p] = "done")'
                 /\ (res[p] = "saveerr" => hit[p] \/ (HasETag /\ info[p].st = "save_retry"))'
      <3>1. i = srv \/ (i = info[p] /\ HasETag)
        BY <2>2 DEF Observed, Get, ETag
      <3>2. info'[p] = i  BY <2>2 DEF Keep
      <3>3. CASE i.st = "released"
        BY <1>1, <1>2, <2>0, <2>2, <3>2, <3>3 DEF Return, SaveFailed
      <3>4. CASE i.st \in SaveFailed
        BY <1>1, <1>2, <2>0, <2>2, <3>1, <3>2, <3>4 DEF Return, SaveFailed
      <3>5. CASE i.st # "released" /\ i.st \notin SaveFailed
        BY <1>1, <1>2, <2>0, <2>2, <3>2, <3>5 DEF Goto
      <3> QED  BY <3>3, <3>4, <3>5
    <2> QED  BY <1>6, <2>1, <2>2 DEF StopLoop
  <1> QED  BY <1>0, <1>3, <1>4, <1>5, <1>6

\* The steps of the other calls: none of them reports a save error.
LEMMA SaveElse ==
    ASSUME SafetyInv, SaveInv, NEW p \in Procs, op[p] # "stop", Call(p)
    PROVE  /\ (Stopping(p) /\ srv.st \in SaveFailed => hit[p])'
           /\ (Stopping(p) /\ info[p].st \in SaveFailed => info[p].st = "save_retry")'
           /\ (res[p] = "saveerr" => pc[p] = "done")'
           /\ (res[p] = "saveerr" => hit[p] \/ (HasETag /\ info[p].st = "save_retry"))'
  <1>1. op'[p] # "stop"  BY CallFrame
  <1>2. pc[p] # "done" /\ res[p] # "saveerr"
    BY DEF Call, StopGet, StopPost, StopReget, StopLoop, TerminatePost, Running,
         TerminateLoop, StartGet, ReleasePost, ReleaseLoop, MemoryPost, MemoryReget, ReadyKnown, WaitLoop, SaveInv
  <1>3. res'[p] # "saveerr"
    BY <1>2 DEF SafetyInv, TypeOK, Call, StopGet, StopPost, StopReget, StopLoop, TerminatePost,
         Running, TerminateLoop, StartGet, ReleasePost, ReleaseLoop, MemoryPost, MemoryReget, ReadyKnown,
         WaitLoop, Return, Goto
  <1> QED  BY <1>1, <1>3 DEF Stopping

\* The step lemma of SaveErrorExplained.
LEMMA SaveStep ==
    SafetyInv /\ SaveInv /\ SaveErrorExplained /\ [Next]_vars => (SaveInv /\ SaveErrorExplained)'
  <1> SUFFICES ASSUME SafetyInv, SaveInv, SaveErrorExplained, [Next]_vars, NEW q \in Procs
               PROVE  /\ (Stopping(q) /\ srv.st \in SaveFailed => hit[q])'
                      /\ (Stopping(q) /\ info[q].st \in SaveFailed => info[q].st = "save_retry")'
                      /\ (res[q] = "saveerr" => pc[q] = "done")'
                      /\ (res[q] = "saveerr" => hit[q] \/ (HasETag /\ info[q].st = "save_retry"))'
    BY DEF SaveInv, SaveErrorExplained
  <1>1. CASE ServerMoves
    <2>1. PICK state \in Moves[srv.st] : Becomes(state) /\ Witness(state)  BY <1>1 DEF ServerMoves
    <2>2. /\ srv'.st = state /\ UNCHANGED <<pc, op, info, res>>
      BY <1>1, <2>1 DEF ServerMoves, mine, Becomes
    <2>3. hit[q] => hit'[q]  BY <2>1, WitnessGrows, Zenon
    <2>4. state \in Watched(op[q]) => hit'[q]
      BY <2>1, Zenon DEF Witness
    <2>5. CASE Stopping(q)
      <3>1. state \in SaveFailed => hit'[q]  BY <2>4, <2>5 DEF Watched, Stopping
      <3> QED  BY <2>2, <2>3, <3>1, SaveOthers
    <2>6. CASE ~Stopping(q)
      BY <2>2, <2>3, <2>6 DEF Stopping, SaveInv, SaveErrorExplained
    <2> QED  BY <2>5, <2>6
  <1>2. ASSUME NEW p \in Procs, NEW o \in Ops, Begin(p, o), q # p
        PROVE  /\ pc'[q] = pc[q] /\ op'[q] = op[q] /\ info'[q] = info[q] /\ res'[q] = res[q]
               /\ (hit[q] => hit'[q]) /\ srv' = srv
    <2>1. pc'[q] = pc[q] /\ op'[q] = op[q] /\ info'[q] = info[q] /\ res'[q] = res[q] /\ srv' = srv
      BY <1>2 DEF SafetyInv, TypeOK, Begin, Goto
    <2>2. hit[q] => hit'[q]  BY <1>2, Zenon DEF SafetyInv, TypeOK, Begin
    <2> QED  BY <2>1, <2>2
  <1>3. ASSUME NEW o \in Ops, Begin(q, o)
        PROVE  /\ (Stopping(q) /\ srv.st \in SaveFailed => hit[q])'
               /\ (Stopping(q) /\ info[q].st \in SaveFailed => info[q].st = "save_retry")'
               /\ (res[q] = "saveerr" => pc[q] = "done")'
               /\ (res[q] = "saveerr" => hit[q] \/ (HasETag /\ info[q].st = "save_retry"))'
    <2>1. /\ srv' = srv /\ info' = info /\ res' = res /\ op'[q] = o
          /\ info[q] = NoInfo /\ res[q] = "none"
      BY <1>3 DEF SafetyInv, TypeOK, IdleInv, Begin, Goto
    <2>2. srv.st \in Watched(o) => hit'[q]
      BY <1>3, Zenon DEF SafetyInv, TypeOK, Begin
    <2>3. o = "stop" /\ srv.st \in SaveFailed => hit'[q]  BY <2>2 DEF Watched
    <2> QED  BY <2>1, <2>3 DEF Stopping, NoInfo, SaveFailed
  <1>4. CASE (\E p \in Procs : Deadline(p)) \/ UNCHANGED vars
    BY <1>4, SaveOthers DEF Deadline, vars
  <1>5. ASSUME NEW p \in Procs, Call(p), q # p
        PROVE  /\ pc'[q] = pc[q] /\ op'[q] = op[q] /\ info'[q] = info[q] /\ res'[q] = res[q]
               /\ (hit[q] => hit'[q]) /\ (srv' = srv \/ srv'.st \notin SaveFailed)
    BY <1>5, CallFrame, CallHistory
  <1>6. CASE \E o \in Ops : Begin(q, o)  BY <1>3, <1>6
  <1>7. CASE \E p \in Procs \ {q} : Call(p) \/ \E o \in Ops : Begin(p, o)
    BY <1>2, <1>5, <1>7, SaveOthers
  <1>8. CASE Call(q)  BY <1>8, SaveStops, SaveElse
  <1> QED  BY <1>1, <1>4, <1>6, <1>7, <1>8 DEF Next

\* When a StopSaveError is about the past: never on a server without ETags, and
\* otherwise only of a Stop that retries a retryable save failure (the second half
\* of what SaveErrorIsCurrent asks, for every number of backends).
THEOREM SaveErrorExplainedHolds == Spec => []SaveErrorExplained
  <1>1. Init => SaveInv /\ SaveErrorExplained
    BY DEF Init, SaveInv, SaveErrorExplained, Stopping
  <1> QED  BY <1>1, SaveStep, AlwaysSafe, PTL DEF Spec

\* On a server without ETags every StopSaveError is current.
THEOREM OlderServerSaveError == ASSUME ~HasETag PROVE Spec => []SaveErrorIsCurrent
  <1>1. SaveErrorExplained => SaveErrorIsCurrent
    BY DEF SaveErrorExplained, SaveErrorIsCurrent
  <1> QED  BY <1>1, SaveErrorExplainedHolds, PTL

-----------------------------------------------------------------------------
\* The steps a call still has to make once its deadline has passed.
StepsLeft(p) == CASE pc[p] = "get"   -> 4
                  [] pc[p] = "post"  -> 3
                  [] pc[p] = "reget" -> 2
                  [] pc[p] \in {"known", "loop"} -> 1
                  [] OTHER           -> 0

\* A late call only moves towards its return, and no other backend, nor the
\* server, moves it: it makes at most four more steps.
LateCallsEnd ==
    [][\A p \in Procs : late[p] =>
          /\ Call(p) => StepsLeft(p)' < StepsLeft(p)
          /\ pc'[p] # pc[p] => Call(p)]_vars

\* Only a call that has begun has a deadline.
LateInv == \A p \in Procs : late[p] => pc[p] # "idle"

\* No step puts a call back to idle.
LEMMA LateStep == SafetyInv /\ LateInv /\ [Next]_vars => LateInv'
  <1> SUFFICES ASSUME SafetyInv, LateInv, [Next]_vars, NEW p \in Procs, late'[p]
               PROVE  pc'[p] # "idle"
    BY DEF LateInv
  <1> USE DEF SafetyInv, TypeOK
  <1>1. ASSUME NEW q \in Procs, Call(q) PROVE pc'[p] # "idle"
    <2>1. pc'[q] # "idle"
      BY <1>1 DEF Call, StopGet, StopPost, StopReget, StopLoop, TerminatePost,
         TerminateLoop, StartGet, ReleasePost, ReleaseLoop, MemoryPost, MemoryReget, ReadyKnown, WaitLoop,
         Return, Goto
    <2>2. (q # p => pc'[p] = pc[p]) /\ late' = late  BY <1>1, CallFrame
    <2> QED  BY <2>1, <2>2 DEF LateInv
  <1>2. ASSUME NEW q \in Procs, NEW o \in Ops, Begin(q, o) PROVE pc'[p] # "idle"
    BY <1>2 DEF Begin, Goto, LateInv
  <1>3. ASSUME NEW q \in Procs, Deadline(q) PROVE pc'[p] # "idle"
    BY <1>3 DEF Deadline, LateInv
  <1>4. CASE ServerMoves \/ UNCHANGED vars
    BY <1>4 DEF ServerMoves, vars, mine, LateInv
  <1> QED  BY <1>1, <1>2, <1>3, <1>4 DEF Next

\* Every loop of Stop, Terminate, the release and the waits ends at its deadline,
\* and no call goes back to an earlier request.
THEOREM LateCallsEndHolds == Spec => LateCallsEnd
  <1>1. ASSUME SafetyInv, NEW p \in Procs, late[p], Call(p)
        PROVE  StepsLeft(p)' < StepsLeft(p)
    <2> USE DEF SafetyInv, TypeOK, Return, Goto, Running
    <2>1. CASE StopGet(p) \/ StartGet(p)
      <3>1. pc[p] = "get" /\ pc'[p] \in {"post", "loop", "done"}
        BY <1>1, <2>1 DEF StopGet, StartGet
      <3> QED  BY <3>1 DEF StepsLeft
    <2>2. CASE StopPost(p) \/ TerminatePost(p) \/ ReleasePost(p) \/ MemoryPost(p)
      <3>1. pc[p] = "post" /\ pc'[p] \in {"reget", "loop", "done"}
        BY <1>1, <2>2 DEF StopPost, TerminatePost, ReleasePost, MemoryPost
      <3> QED  BY <3>1 DEF StepsLeft
    <2>3. CASE StopReget(p) \/ MemoryReget(p)
      <3>1. pc[p] = "reget" /\ pc'[p] \in {"loop", "done"}
        BY <1>1, <2>3 DEF StopReget, MemoryReget
      <3> QED  BY <3>1 DEF StepsLeft
    <2>4. CASE StopLoop(p) \/ TerminateLoop(p) \/ ReleaseLoop(p) \/ ReadyKnown(p) \/ WaitLoop(p)
      <3>1. pc[p] \in {"known", "loop"} /\ pc'[p] = "done"
        BY <1>1, <2>4 DEF StopLoop, TerminateLoop, ReleaseLoop, ReadyKnown, WaitLoop
      <3> QED  BY <3>1 DEF StepsLeft
    <2> QED  BY <1>1, <2>1, <2>2, <2>3, <2>4 DEF Call
  <1>2. ASSUME SafetyInv, LateInv, [Next]_vars, NEW p \in Procs, late[p], pc'[p] # pc[p]
        PROVE  Call(p)
    <2>1. pc[p] # "idle"
      BY <1>2 DEF LateInv
    <2>2. \A q \in Procs \ {p} : Call(q) => pc'[p] = pc[p]
      BY <1>2, CallFrame
    <2>3. \A q \in Procs, o \in Ops : Begin(q, o) => pc'[p] = pc[p]
      BY <1>2, <2>1 DEF SafetyInv, TypeOK, Begin, Goto
    <2> QED  BY <1>2, <2>2, <2>3 DEF Next, ServerMoves, Deadline, vars
  <1>3. Init => LateInv  BY DEF Init, LateInv
  <1>4. SafetyInv /\ LateInv /\ [Next]_vars =>
            [\A p \in Procs : late[p] =>
                /\ Call(p) => StepsLeft(p)' < StepsLeft(p)
                /\ pc'[p] # pc[p] => Call(p)]_vars
    BY <1>1, <1>2
  <1> QED  BY <1>3, <1>4, LateStep, AlwaysSafe, PTL DEF Spec, LateCallsEnd

-----------------------------------------------------------------------------
\* SandboxLifecycle implements SandboxContract.

\* A backend has made a call exactly when it is no longer idle, and has no result
\* before its return.
CallOnce(p) == /\ pc[p] = "idle" <=> op[p] = "none"
               /\ pc[p] # "done" => res[p] = "none"
CallInv == \A p \in Procs : CallOnce(p)

\* Calls begin and return once.
LEMMA CallInvStep == SafetyInv /\ CallInv /\ [Next]_vars => CallInv'
  <1> SUFFICES ASSUME SafetyInv, CallInv, [Next]_vars, NEW p \in Procs
               PROVE  CallOnce(p)'
    BY DEF CallInv
  <1> USE DEF SafetyInv, TypeOK, CallOnce
  <1>0. CallOnce(p) /\ "none" \notin Ops  BY DEF CallInv
  <1>1. ASSUME NEW q \in Procs, Call(q)
        PROVE  CallOnce(p)'
    <2>1. /\ pc[q] \notin {"idle", "done"} /\ pc'[q] # "idle"
          /\ pc'[q] # "done" => res'[q] = res[q]
      BY <1>1 DEF Call, StopGet, StopPost, StopReget, StopLoop, TerminatePost,
         TerminateLoop, StartGet, ReleasePost, ReleaseLoop, MemoryPost, MemoryReget, ReadyKnown, WaitLoop,
         Return, Goto, Running
    <2>2. (q # p => pc'[p] = pc[p] /\ res'[p] = res[p]) /\ op' = op  BY <1>1, CallFrame
    <2> QED  BY <1>0, <2>1, <2>2 DEF CallInv
  <1>2. ASSUME NEW q \in Procs, NEW o \in Ops, Begin(q, o)
        PROVE  CallOnce(p)'
    <2>1. /\ pc[q] = "idle" /\ pc'[q] \in {"get", "post", "known", "loop"} /\ op'[q] = o
          /\ q # p => pc'[p] = pc[p] /\ op'[p] = op[p]
          /\ res' = res
      BY <1>2 DEF Begin, Goto
    <2> QED  BY <1>0, <2>1
  <1>3. CASE ServerMoves \/ UNCHANGED vars \/ \E q \in Procs : Deadline(q)
    BY <1>0, <1>3 DEF ServerMoves, Deadline, vars, mine
  <1> QED  BY <1>1, <1>2, <1>3 DEF Next

\* What a call's step does to the sandbox: nothing the contract sees, or what Stop
\* and a DELETE may do; then it does not succeed in the same step.
LEMMA CallEffect ==
    ASSUME SafetyInv, NEW p \in Procs, Call(p)
    PROVE  \/ View(srv'.st) = View(srv.st)
           \/ /\ op[p] = "stop" /\ View(srv.st) \in Contract!Stoppable
              /\ View(srv'.st) = "stopping" /\ res'[p] \in {res[p], "err"}
           \/ /\ op[p] = "terminate" \/ (op[p] = "recover" /\ View(srv.st) \in Contract!Releasable)
              /\ View(srv'.st) \in Contract!Torn(View(srv.st)) /\ res'[p] \in {res[p], "err"}
  <1> USE DEF SafetyInv, TypeOK
  <1>0. srv.st \in States  BY DEF Info
  <1>1. CASE StopPost(p)
    <2>1. CASE UNCHANGED srv  BY <2>1
    <2>2. CASE Admits("stop") /\ Becomes(Leads("stop")) /\ (Goto(p, "loop") \/ Return(p, "err"))
      <3>1. srv.st \in {"running", "paused", "save_retry"} /\ srv'.st = "saving"
        BY <2>2 DEF Admits, Becomes, Leads
      <3>2. op[p] = "stop" /\ res'[p] \in {res[p], "err"}
        BY <1>1, <2>2 DEF StopPost, Running, Goto, Return
      <3> QED  BY <3>1, <3>2 DEF View, Contract!Stoppable, Healthy, SaveFailed, Released
    <2> QED  BY <1>1, <2>1, <2>2 DEF StopPost
  <1>2. CASE TerminatePost(p)
    BY <1>0, <1>2 DEF TerminatePost, Running, Teardown, Becomes, Goto, Return, View,
       Contract!Torn, States, Healthy, Broken, SaveFailed, Released
  <1>3. CASE ReleasePost(p)
    <2>1. CASE UNCHANGED srv  BY <2>1
    <2>2. CASE srv.ver = info[p].ver /\ Becomes("stopping") /\ (Goto(p, "loop") \/ Return(p, "err"))
      <3>1. srv.st \in Broken
        BY <1>3, <2>2 DEF ReleasePost, InfoInv, RecoverInv
      <3>2. op[p] = "recover" /\ srv'.st = "stopping" /\ res'[p] \in {res[p], "err"}
        BY <1>3, <2>2 DEF ReleasePost, Running, Becomes, Goto, Return
      <3> QED  BY <3>1, <3>2 DEF View, Contract!Torn, Contract!Releasable, Healthy, Broken,
                  SaveFailed, Released
    <2> QED  BY <1>3, <2>1, <2>2 DEF ReleasePost
  <1>4. CASE MemoryPost(p)
    <2>1. CASE UNCHANGED srv  BY <2>1
    <2>2. CASE op[p] \in {"pause", "resume"} /\ Admits(op[p]) /\ Becomes(Leads(op[p]))
      <3>1. srv.st \in {"running", "paused"} /\ srv'.st \in {"pausing", "resuming"}
        <4>1. CASE op[p] = "pause"  BY <2>2, <4>1 DEF Admits, Becomes, Leads
        <4>2. CASE op[p] = "resume"  BY <2>2, <4>2 DEF Admits, Becomes, Leads
        <4> QED  BY <2>2, <4>1, <4>2
      <3> QED  BY <3>1 DEF View, Healthy, SaveFailed, Released
    <2> QED  BY <1>4, <2>1, <2>2 DEF MemoryPost
  <1>5. CASE UNCHANGED srv  BY <1>5
  <1> QED  BY <1>1, <1>2, <1>3, <1>4, <1>5 DEF Call, StopGet, StopReget, StopLoop, TerminateLoop,
              StartGet, ReleaseLoop, MemoryReget, ReadyKnown, WaitLoop

\* A call that reports the release is one that waits for it, and changes nothing.
LEMMA CallConfirms ==
    ASSUME SafetyInv, NEW p \in Procs, Call(p), res[p] = "none", res'[p] = "true"
    PROVE  op[p] \in {"stop", "terminate", "start", "recover"} /\ View(srv.st) = "gone"
  <1> USE DEF SafetyInv, TypeOK
  <1>1. op[p] \in {"stop", "terminate", "start", "recover"} /\ srv' = srv
    BY DEF Call, StopGet, StopPost, StopReget, StopLoop, TerminatePost,
         TerminateLoop, StartGet, ReleasePost, ReleaseLoop, MemoryPost, MemoryReget, ReadyKnown, WaitLoop,
         Return, Goto, Running
  <1>2. SafetyInv'  BY StepSafe DEF Next
  <1>3. srv'.st \in Released  BY <1>2 DEF ConfirmedIsReleased
  <1> QED  BY <1>1, <1>3 DEF View, Released, Healthy, SaveFailed

\* Each step of a call is a step of the contract.
LEMMA ContractCall ==
    ASSUME SafetyInv, CallInv, NEW p \in Procs, Call(p)
    PROVE  [Contract!Next]_(Contract!vars)
  <1> DEFINE ans == [q \in Procs |-> Answered(res[q])]
  <1>1. op' = op /\ \A q \in Procs \ {p} : res'[q] = res[q]  BY CallFrame
  <1>2. op[p] # "none" /\ res[p] = "none"
    <2>1. pc[p] \notin {"idle", "done"}
      BY DEF Call, StopGet, StopPost, StopReget, StopLoop, TerminatePost,
         TerminateLoop, StartGet, ReleasePost, ReleaseLoop, MemoryPost, MemoryReget, ReadyKnown, WaitLoop, Running
    <2> QED  BY <2>1 DEF CallInv, CallOnce
  <1>3. ans' = [ans EXCEPT ![p] = Answered(res'[p])]  BY <1>1
  <1>4. Contract!Underway(p)  BY <1>2 DEF Contract!Underway, Answered
  <1>5. res'[p] = "none" => ans' = ans  BY <1>1, <1>2
  <1>6. CASE View(srv'.st) = View(srv.st)
    <2>1. CASE res'[p] = "none"
      BY <1>1, <1>5, <1>6, <2>1 DEF Contract!vars
    <2>2. CASE res'[p] = "true"
      <3>1. Contract!Confirm(p)
        BY <1>1, <1>2, <1>3, <1>4, <1>6, <2>2, CallConfirms
           DEF Contract!Confirm, Contract!Answer, Answered
      <3> QED  BY <3>1 DEF Contract!Next
    <2>3. CASE res'[p] \notin {"none", "true"}
      <3>1. Contract!GiveUp(p)
        BY <1>1, <1>3, <1>4, <1>6, <2>3 DEF Contract!GiveUp, Contract!Answer, Answered
      <3> QED  BY <3>1 DEF Contract!Next
    <2> QED  BY <2>1, <2>2, <2>3
  <1>7. CASE View(srv'.st) # View(srv.st)
    <2>1. res'[p] \in {"none", "err"}  BY <1>2, <1>7, CallEffect
    <2>2. Contract!CarriedOut(p)
      BY <1>1, <1>3, <1>4, <1>5, <2>1 DEF Contract!CarriedOut, Contract!Answer, Answered
    <2>3. Contract!Stop(p) \/ Contract!Destroy(p)
      BY <1>7, <2>2, CallEffect DEF Contract!Stop, Contract!Destroy
    <2> QED  BY <2>3 DEF Contract!Next
  <1> QED  BY <1>6, <1>7

\* What the server does by itself, as the contract sees it.
LEMMA ContractDrift ==
    ASSUME SafetyInv, ServerMoves PROVE [Contract!Next]_(Contract!vars)
  <1> PICK state \in Moves[srv.st] : Becomes(state)  BY DEF ServerMoves
  <1>1. srv.st \in States  BY DEF SafetyInv, TypeOK, Info
  <1>2. View(state) = View(srv.st) \/ View(state) \in Contract!Drifts[View(srv.st)]
    BY <1>1 DEF Moves, View, Contract!Drifts, States, Healthy, Broken, Released, SaveFailed
  <1>3. srv'.st = state /\ UNCHANGED <<op, res>>  BY DEF Becomes, ServerMoves, mine
  <1> QED  BY <1>2, <1>3 DEF Contract!Next, Contract!Drift, Contract!vars

\* Stop, Terminate, the release before a Start or Recover, Pause and Resume keep what
\* Computer's calls rely on: for any number of backends, every step is one that
\* SandboxContract allows of the sandbox that ComputerHandle works with.
THEOREM LifecycleRefinement == Spec => ImplementsContract
  <1>1. Init => Contract!Init /\ CallInv
    <2> SUFFICES ASSUME Init PROVE Contract!Init /\ CallInv  OBVIOUS
    <2>0. srv.st \in {"pending", "running"}  BY DEF Init
    <2>1. View(srv.st) = "up"  BY <2>0 DEF View, Healthy, SaveFailed, Released
    <2>2. [p \in Procs |-> Answered(res[p])] = [p \in Procs |-> "none"]  BY DEF Init, Answered
    <2>3. op = [p \in Procs |-> "none"] /\ CallInv  BY DEF Init, CallInv, CallOnce
    <2> QED  BY <2>1, <2>2, <2>3 DEF Contract!Init
  <1>2. SafetyInv /\ CallInv /\ [Next]_vars => [Contract!Next]_(Contract!vars)
    <2> SUFFICES ASSUME SafetyInv, CallInv, [Next]_vars PROVE [Contract!Next]_(Contract!vars)
      OBVIOUS
    <2>1. ASSUME NEW p \in Procs, NEW o \in Ops, Begin(p, o)
          PROVE  [Contract!Next]_(Contract!vars)
      <3>1. Contract!Begin(p, o)
        BY <2>1 DEF Begin, Goto, CallInv, CallOnce, Contract!Begin
      <3> QED  BY <3>1 DEF Contract!Next
    <2>2. CASE UNCHANGED vars \/ \E p \in Procs : Deadline(p)
      BY <2>2 DEF vars, Deadline, Contract!vars
    <2> QED  BY <2>1, <2>2, ContractCall, ContractDrift DEF Next
  <1> QED  BY <1>1, <1>2, CallInvStep, AlwaysSafe, PTL DEF Spec, ImplementsContract, Contract!Spec
=============================================================================
