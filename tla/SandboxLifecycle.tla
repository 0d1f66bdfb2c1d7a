-------------------------- MODULE SandboxLifecycle --------------------------
(***************************************************************************)
(* Lifecycle calls on one sandbox (sandbox_handle.go, and the lifecycle    *)
(* part of client.go and internal/controlplane): Stop, Terminate, the      *)
(* release of a failed sandbox by Start and Recover, Pause, Resume, and    *)
(* the wait for readiness, from several backends at once, against a server *)
(* whose state moves on its own and is read through versioned, delayed and *)
(* failing observations.                                                   *)
(***************************************************************************)
EXTENDS Naturals

CONSTANTS
    Procs,      \* backends, each makes one call
    Ops,        \* the calls they make
    HasETag,    \* FALSE: an older server that sends no ETag
    MaxVersion  \* bound: state changes of the sandbox

ASSUME LifecycleAssumption ==
    /\ Ops \subseteq {"stop", "terminate", "start", "recover", "pause", "resume", "ready"}
    /\ HasETag \in BOOLEAN
    /\ MaxVersion \in Nat \ {0}

VARIABLES
    srv,   \* the server's record: state and version
    pc,    \* where each call stands
    op,    \* which call it is
    info,  \* its last observation, or NoInfo (the nil SandboxInfo)
    late,  \* its own deadline or the caller's has passed
    made,  \* the status the create answered, in the handle Attach waits with
    res,   \* how it returned
    hit    \* history: the server was in a state of Watched(op) meanwhile

vars == <<srv, pc, op, info, late, made, res, hit>>
mine == <<op, late, made>>

\* What a read reports; status, reason and retryable folded into one label.
\* save_retry: save_failed and retryable; capturing: a capture that timed out
\* and is still observed; released: terminated with COMPUTE_RELEASED; absent: 404.
SaveFailed == {"save_failed", "save_retry"}
Healthy    == {"pending", "running", "pausing", "paused", "resuming"}
Broken     == {"unavailable", "failed", "terminated"} \cup SaveFailed
Released   == {"released", "absent"}
States     == Healthy \cup Broken \cup Released \cup {"capturing", "saving", "stopping"}

Info   == [st : States, ver : 0 .. MaxVersion]
NoInfo == [st |-> "absent", ver |-> 0]

\* What a call's outcome is about: a save error, or the state it waits for.
Watched(o) == CASE o = "stop"              -> SaveFailed
                [] o = "pause"             -> {"paused"}
                [] o \in {"resume", "ready"} -> {"running"}
                [] OTHER                   -> {}

TypeOK ==
    /\ srv \in Info /\ srv.ver > 0
    /\ pc \in [Procs -> {"idle", "get", "post", "reget", "known", "loop", "done"}]
    /\ op \in [Procs -> Ops \cup {"none"}]
    /\ info \in [Procs -> Info]
    /\ late \in [Procs -> BOOLEAN] /\ hit \in [Procs -> BOOLEAN]
    /\ res \in [Procs -> {"none", "true", "false", "err", "saveerr", "ok", "failed",
                          "timeout", "retained"}]
    /\ made \in {"pending", "running"}
    /\ \A p \in Procs : pc[p] = "known" => op[p] = "ready" /\ made = "running"
    \* Start and the wait for readiness change nothing at the server.
    /\ \A p \in Procs : pc[p] = "post" => op[p] \notin {"start", "ready"}

Init ==
    /\ srv \in [st : {"pending", "running"}, ver : {1}] /\ made = srv.st
    /\ pc = [p \in Procs |-> "idle"] /\ op = [p \in Procs |-> "none"]
    /\ info = [p \in Procs |-> NoInfo]
    /\ late = [p \in Procs |-> FALSE] /\ hit = [p \in Procs |-> FALSE]
    /\ res = [p \in Procs |-> "none"]

-----------------------------------------------------------------------------
\* The server (external): its record changes and with it the version.

Witness(state) == hit' = [p \in Procs |-> hit[p] \/ state \in Watched(op[p])]

Becomes(state) == /\ srv.ver < MaxVersion
                  /\ srv' = [st |-> state, ver |-> srv.ver + 1]

Moves == [ pending     |-> {"running", "failed"},
           running     |-> {"unavailable", "capturing", "failed"},
           pausing     |-> {"paused", "unavailable"},
           paused      |-> {"unavailable"},
           resuming    |-> {"running", "unavailable"},
           capturing   |-> {"running", "unavailable"},
           unavailable |-> {"running", "failed"},
           saving      |-> {"stopping", "save_failed", "save_retry"},
           save_failed |-> {"running"},
           save_retry  |-> {"running"},
           stopping    |-> {"terminated", "released"},
           failed      |-> {"terminated"},
           terminated  |-> {"released"},
           released    |-> {"absent"},
           absent      |-> {} ]

ServerMoves ==
    /\ \E state \in Moves[srv.st] : Becomes(state) /\ Witness(state)
    /\ UNCHANGED <<pc, mine, info, res>>

\* Requests the server admits, and the state they lead to; otherwise it answers
\* 409, or 404 once the sandbox is absent.
Admits(o) == CASE o = "stop"   -> srv.st \in {"running", "paused", "save_retry"}
               [] o = "pause"  -> srv.st = "running"
               [] o = "resume" -> srv.st = "paused"
Leads(o)  == CASE o = "stop" -> "saving" [] o = "pause" -> "pausing" [] o = "resume" -> "resuming"

\* A DELETE starts the teardown of whatever is still there.
Teardown == \/ srv.st \notin Released \cup {"stopping"} /\ Becomes("stopping")
            \/ srv.st \in Released \cup {"stopping"} /\ UNCHANGED srv

-----------------------------------------------------------------------------
\* Steps every call shares.

Running(p, o, label) == pc[p] = label /\ op[p] = o
Goto(p, label)       == pc' = [pc EXCEPT ![p] = label] /\ UNCHANGED res
Return(p, r)         == /\ pc' = [pc EXCEPT ![p] = "done"]
                        /\ res' = [res EXCEPT ![p] = r]
Keep(p, i)           == info' = [info EXCEPT ![p] = i]

\* ETag of an observation: none on an older server, none without one.
ETag(i) == IF HasETag THEN i.ver ELSE 0

\* Get: the current record, of a sandbox that is still there.
Get == { i \in {srv} : i.st # "absent" }

\* observe: with an earlier observation and its ETag, WaitForChange answers with
\* the current record (or 304, which is the same one), and a transient fault is
\* read as the earlier observation; otherwise a plain Get.
Observed(p) == Get \cup (IF ETag(info[p]) # 0 THEN {info[p]} ELSE {})

Begin(p, o) ==
    /\ pc[p] = "idle" /\ o \in Ops
    /\ op' = [op EXCEPT ![p] = o]
    /\ hit' = [hit EXCEPT ![p] = srv.st \in Watched(o)]
    /\ Goto(p, CASE o \in {"stop", "start", "recover"}    -> "get"
                 [] o \in {"terminate", "pause", "resume"} -> "post"
                 [] o = "ready" -> IF made = "running" THEN "known" ELSE "loop")
    /\ UNCHANGED <<srv, info, late, made>>

\* The deadline of a call passes, or its caller cancels it.
Deadline(p) ==
    /\ pc[p] \notin {"idle", "done"} /\ ~late[p]
    /\ late' = [late EXCEPT ![p] = TRUE]
    /\ UNCHANGED <<srv, pc, op, info, made, res, hit>>

-----------------------------------------------------------------------------
\* SandboxHandle.Stop.

StopGet(p) ==
    /\ Running(p, "stop", "get")
    /\ \/ srv.st \in Released /\ Return(p, "true") /\ UNCHANGED info
       \/ srv.st = "save_failed" /\ Return(p, "saveerr") /\ UNCHANGED info
       \/ srv.st \in {"saving", "stopping"} /\ Keep(p, srv) /\ Goto(p, "loop")
       \/ /\ srv.st \notin Released \cup {"save_failed", "saving", "stopping"}
          /\ Keep(p, srv) /\ Goto(p, "post")
       \/ Return(p, "err") /\ UNCHANGED info
    /\ UNCHANGED <<srv, mine, hit>>

\* Mutant: a refused stop is followed by a DELETE, which saves nothing.
StopPostDeletes(p) ==
    /\ Running(p, "stop", "post") /\ ~Admits("stop") /\ Teardown /\ Goto(p, "loop")
    /\ UNCHANGED <<mine, info, hit>>

\* The stop is admitted (and its answer may be lost), absent counts as admitted,
\* and a conflict is looked into.
StopPost(p) ==
    /\ Running(p, "stop", "post")
    /\ \/ /\ Admits("stop") /\ Becomes(Leads("stop"))
          /\ hit' = [hit EXCEPT ![p] = FALSE]
          /\ Goto(p, "loop") \/ Return(p, "err")
       \/ srv.st = "absent" /\ Goto(p, "loop") /\ UNCHANGED <<srv, hit>>
       \/ ~Admits("stop") /\ srv.st # "absent" /\ Goto(p, "reget") /\ UNCHANGED <<srv, hit>>
       \/ Return(p, "err") /\ UNCHANGED <<srv, hit>>
    /\ UNCHANGED <<mine, info>>

\* A stop already under way is joined; the earlier observation stays.
StopReget(p) ==
    /\ Running(p, "stop", "reget")
    /\ \/ srv.st \in {"saving", "stopping"} /\ Goto(p, "loop")
       \/ Return(p, "err")
    /\ UNCHANGED <<srv, mine, info, hit>>

\* Mutant: terminated is taken for released.
StopLoopTerminated(p) ==
    /\ Running(p, "stop", "loop")
    /\ \/ late[p] /\ Return(p, "false") /\ UNCHANGED info
       \/ /\ ~late[p]
          /\ \E i \in Observed(p) : /\ i.st \in {"terminated", "released"}
                                    /\ Return(p, "true") /\ UNCHANGED info
       \/ ~late[p] /\ \E i \in Observed(p) : Keep(p, i) /\ Goto(p, "loop")
    /\ UNCHANGED <<srv, mine, hit>>

\* Mutant: the wait for the shutdown has no deadline of its own.
StopLoopForever(p) ==
    /\ Running(p, "stop", "loop")
    /\ \/ srv.st \in Released /\ Return(p, "true")
       \/ srv.st \in SaveFailed /\ Return(p, "saveerr")
    /\ UNCHANGED <<srv, mine, info, hit>>

\* The wait: its own deadline ends it unconfirmed, the caller's with an error.
StopLoop(p) ==
    /\ Running(p, "stop", "loop")
    /\ \/ late[p] /\ (Return(p, "false") \/ Return(p, "err")) /\ UNCHANGED info
       \/ ~late[p] /\ srv.st = "absent" /\ Return(p, "true") /\ UNCHANGED info
       \/ /\ ~late[p]
          /\ \E i \in Observed(p) :
                /\ Keep(p, i)
                /\ CASE i.st = "released"    -> Return(p, "true")
                     [] i.st \in SaveFailed  -> Return(p, "saveerr")
                     [] OTHER                -> Goto(p, "loop")
       \/ ~late[p] /\ Return(p, "err") /\ UNCHANGED info
    /\ UNCHANGED <<srv, mine, hit>>

-----------------------------------------------------------------------------
\* SandboxHandle.Terminate.

TerminatePost(p) ==
    /\ Running(p, "terminate", "post")
    /\ \/ Teardown /\ (Goto(p, "loop") \/ Return(p, "err")) /\ Witness("stopping")
       \/ UNCHANGED <<srv, hit>> /\ (Return(p, "err") \/ (late[p] /\ Return(p, "false")))
    /\ UNCHANGED <<mine, info>>

\* A failed observation leaves no earlier one, so the next is a plain Get.
TerminateLoop(p) ==
    /\ Running(p, "terminate", "loop")
    /\ \/ late[p] /\ (Return(p, "false") \/ Return(p, "err")) /\ UNCHANGED info
       \/ ~late[p] /\ srv.st = "absent" /\ Return(p, "true") /\ UNCHANGED info
       \/ /\ ~late[p]
          /\ \E i \in Observed(p) \cup {NoInfo} :
                /\ Keep(p, i)
                /\ \/ i.st = "released" /\ Return(p, "true")
                   \/ i.st # "released" /\ Goto(p, "loop")
    /\ UNCHANGED <<srv, mine, hit>>

-----------------------------------------------------------------------------
\* Client.startComputer's look at the bound sandbox, and releaseFailedSandbox.

\* A released sandbox needs nothing, a stopping one is awaited; Start reports any
\* other as retained, and Recover releases one with a recorded failure.
StartGet(p) ==
    /\ pc[p] = "get" /\ op[p] \in {"start", "recover"}
    /\ \/ srv.st \in Released /\ Return(p, "true") /\ UNCHANGED info
       \/ srv.st = "stopping" /\ Keep(p, srv) /\ Goto(p, "loop")
       \/ /\ op[p] = "start" /\ srv.st \notin Released \cup {"stopping"}
          /\ Return(p, "retained") /\ UNCHANGED info
       \/ /\ op[p] = "recover" /\ srv.st \in Broken /\ ETag(srv) # 0
          /\ Keep(p, srv) /\ Goto(p, "post")
       \/ Return(p, "err") /\ UNCHANGED info
    /\ UNCHANGED <<srv, mine, hit>>

\* Mutant: the release is not conditional on the observed version.
ReleasePostAny(p) ==
    /\ Running(p, "recover", "post")
    /\ Becomes("stopping") /\ Witness("stopping") /\ Goto(p, "loop")
    /\ UNCHANGED <<mine, info>>

\* Release: the DELETE carries If-Match, so a sandbox that moved is left alone.
ReleasePost(p) ==
    /\ Running(p, "recover", "post")
    /\ \/ /\ srv.ver = info[p].ver /\ Becomes("stopping") /\ Witness("stopping")
          /\ Goto(p, "loop") \/ Return(p, "err")
       \/ srv.st = "absent" /\ Goto(p, "loop") /\ UNCHANGED <<srv, hit>>
       \/ Return(p, "err") /\ UNCHANGED <<srv, hit>>
    /\ UNCHANGED <<mine, info>>

ReleaseLoop(p) ==
    /\ pc[p] = "loop" /\ op[p] \in {"start", "recover"}
    /\ \/ late[p] /\ Return(p, "err") /\ UNCHANGED info
       \/ ~late[p] /\ srv.st = "absent" /\ Return(p, "true") /\ UNCHANGED info
       \/ /\ ~late[p]
          /\ \E i \in Observed(p) \cup {NoInfo} :
                /\ Keep(p, i)
                /\ \/ i.st = "released" /\ Return(p, "true")
                   \/ i.st # "released" /\ Goto(p, "loop")
    /\ UNCHANGED <<srv, mine, hit>>

-----------------------------------------------------------------------------
\* transitionMemory (Pause, Resume) and waitUntilState.

MemoryPost(p) ==
    /\ pc[p] = "post" /\ op[p] \in {"pause", "resume"}
    /\ \/ /\ Admits(op[p]) /\ Becomes(Leads(op[p])) /\ Witness(Leads(op[p]))
          /\ Goto(p, "loop") \/ Return(p, "err")
       \/ /\ ~Admits(op[p]) /\ srv.st # "absent"
          /\ Goto(p, "reget") /\ UNCHANGED <<srv, hit>>
       \/ Return(p, "err") /\ UNCHANGED <<srv, hit>>
    /\ UNCHANGED <<mine, info>>

\* Mutant: a conflict is taken for an operation already done.
MemoryRegetTrusting(p) ==
    /\ pc[p] = "reget" /\ op[p] \in {"pause", "resume"} /\ Return(p, "ok")
    /\ UNCHANGED <<srv, mine, info, hit>>

\* A conflict succeeds only if a fresh read shows the target.
MemoryReget(p) ==
    /\ pc[p] = "reget" /\ op[p] \in {"pause", "resume"}
    /\ \/ srv.st \in Watched(op[p]) /\ Return(p, "ok")
       \/ Return(p, "err")
    /\ UNCHANGED <<srv, mine, info, hit>>

\* WaitUntilRunning of a sandbox that was running when it was created sends nothing.
ReadyKnown(p) ==
    /\ pc[p] = "known" /\ Return(p, "ok")
    /\ UNCHANGED <<srv, mine, info, hit>>

WaitLoop(p) ==
    /\ pc[p] = "loop" /\ op[p] \in {"pause", "resume", "ready"}
    /\ \/ late[p] /\ (Return(p, "timeout") \/ Return(p, "err")) /\ UNCHANGED info
       \/ /\ ~late[p]
          /\ \E i \in Observed(p) :
                /\ Keep(p, i)
                /\ CASE i.st \in Watched(op[p]) -> Return(p, "ok")
                     [] i.st \in {"failed", "terminated", "released", "unavailable", "capturing"} ->
                            Return(p, "failed")
                     [] OTHER -> Goto(p, "loop")
       \/ ~late[p] /\ Return(p, "err") /\ UNCHANGED info
    /\ UNCHANGED <<srv, mine, hit>>

-----------------------------------------------------------------------------
Call(p) == \/ StopGet(p) \/ StopPost(p) \/ StopReget(p) \/ StopLoop(p)
           \/ TerminatePost(p) \/ TerminateLoop(p)
           \/ StartGet(p) \/ ReleasePost(p) \/ ReleaseLoop(p)
           \/ MemoryPost(p) \/ MemoryReget(p) \/ ReadyKnown(p) \/ WaitLoop(p)

Next == \/ ServerMoves
        \/ \E p \in Procs : (\E o \in Ops : Begin(p, o)) \/ Deadline(p) \/ Call(p)

\* A call keeps running and its deadline comes; nothing is assumed of the server.
Spec == /\ Init /\ [][Next]_vars
        /\ \A p \in Procs : WF_vars(Call(p)) /\ WF_vars(Deadline(p))

-----------------------------------------------------------------------------
\* Properties.

\* A confirmed shutdown is real: when Stop, Terminate, or the release before a
\* Start or Recover answers true, the sandbox's compute has been released or its
\* record is gone, although every observation behind the answer was old by then.
ConfirmedIsReleased == \A p \in Procs : res[p] = "true" => srv.st \in Released

\* Pause, Resume and the wait for readiness succeed only if the sandbox was in
\* the target state at some moment after the call began: neither an accepted
\* request, nor a conflict, nor an earlier observation is taken for the result.  The
\* one exception is readiness of a sandbox that was running when it was created:
\* that answer is taken however the sandbox has changed since.
TargetWasReached ==
    \A p \in Procs : res[p] = "ok" => hit[p] \/ (op[p] = "ready" /\ made = "running")

\* Recover never tears down a healthy sandbox, also when the one it looked at has
\* recovered on its own, or was resumed or restarted, before the release arrives.
RecoverSparesHealthy ==
    [][\A p \in Procs : Running(p, "recover", "post") /\ srv' # srv /\ pc'[p] # "post" =>
          srv.st \notin Healthy]_vars

\* A StopSaveError from the wait reports a save that failed after this Stop was
\* admitted (or that Stop found failed), not one that failed before.
SaveErrorIsCurrent == \A p \in Procs : res[p] = "saveerr" => hit[p]

\* Every call returns by its deadline, whatever the server does.
CallsReturn == \A p \in Procs : pc[p] \notin {"idle", "done"} ~> pc[p] = "done"

\* What SandboxContract tells apart of the server's record and of a call's result.
View(state) == CASE state \in Healthy \cup {"capturing"}  -> "up"
                 [] state \in {"unavailable", "failed"} \cup SaveFailed -> "failed"
                 [] state = "saving"                      -> "stopping"
                 [] state \in {"stopping", "terminated"}  -> "leaving"
                 [] state \in Released                    -> "gone"

Answered(r) == CASE r = "none" -> "none" [] r = "true" -> "released" [] OTHER -> "other"

Contract == INSTANCE SandboxContract WITH
    sb     <- View(srv.st),
    call   <- op,
    answer <- [p \in Procs |-> Answered(res[p])]

\* The lifecycle calls keep what Start, Recover, Stop and Attach rely on: whatever they
\* observe and however late, each of their steps is one that SandboxContract allows.
ImplementsContract == Contract!Spec
=============================================================================
