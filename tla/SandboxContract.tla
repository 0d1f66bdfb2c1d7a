--------------------------- MODULE SandboxContract ---------------------------
(***************************************************************************)
(* What the calls on one sandbox promise Start, Recover, Stop and Attach   *)
(* (sandbox_handle.go, as computer.go and client.go use it): a Stop or a   *)
(* DELETE is carried out only on a sandbox that may be stopped or deleted, *)
(* even when its answer is lost, and the release of a sandbox is reported  *)
(* only of one that is gone, which it then is for ever.                    *)
(***************************************************************************)
EXTENDS SandboxStates

CONSTANTS Procs, \* backends, each makes one call
          Ops    \* the calls they make

VARIABLES sb,     \* the sandbox
          call,   \* what each backend has called, "none" before
          answer  \* "none", then "released" or "other"

vars == <<sb, call, answer>>

Init == /\ sb = "up"
        /\ call = [p \in Procs |-> "none"] /\ answer = [p \in Procs |-> "none"]

\* The server changes the sandbox by itself.
Drift == sb' \in Drifts[sb] /\ UNCHANGED <<call, answer>>

Begin(p, o) == /\ call[p] = "none" /\ call' = [call EXCEPT ![p] = o]
               /\ UNCHANGED <<sb, answer>>

Underway(p)  == call[p] # "none" /\ answer[p] = "none"
Answer(p, a) == answer' = [answer EXCEPT ![p] = a]

\* A request is carried out: its call goes on, or fails for want of an answer.
CarriedOut(p) == Underway(p) /\ (UNCHANGED answer \/ Answer(p, "other")) /\ UNCHANGED call

Stop(p) == CarriedOut(p) /\ call[p] = "stop" /\ sb \in Stoppable /\ sb' = "stopping"

\* Recover's release is conditional, Terminate's DELETE is not.
Destroy(p) == /\ CarriedOut(p) /\ sb' \in Torn(sb)
              /\ call[p] = "terminate" \/ (call[p] = "recover" /\ sb \in Releasable)

Confirm(p) == /\ Underway(p) /\ call[p] \in {"stop", "terminate", "start", "recover"}
              /\ sb = "gone" /\ Answer(p, "released") /\ UNCHANGED <<sb, call>>

\* Any other answer says nothing of the sandbox.
GiveUp(p) == Underway(p) /\ Answer(p, "other") /\ UNCHANGED <<sb, call>>

Next == \/ Drift
        \/ \E p \in Procs : \/ \E o \in Ops : Begin(p, o)
                            \/ Stop(p) \/ Destroy(p) \/ Confirm(p) \/ GiveUp(p)

Spec == Init /\ [][Next]_vars
=============================================================================
