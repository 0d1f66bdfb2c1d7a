--------------------------- MODULE ComputerHandle ---------------------------
(***************************************************************************)
(* Computer handles of one Computer id (computer.go, client.go): Attach,   *)
(* Start, Recover, Stop, Kill, Delete, Reconnect, run by goroutines over   *)
(* handles that live in different backends, against Portal (the binding    *)
(* revision and its compare-and-swap) and the lifecycle server (the        *)
(* sandboxes).  Each call's critical sections under Computer.mu are steps  *)
(* of their own; between them anything else may happen.  A bind is its     *)
(* contract (BindContract): one authorization, then success or failure.    *)
(***************************************************************************)
EXTENDS Naturals, SandboxStates

CONSTANTS
    Procs,       \* goroutines, each with one call in progress
    Handles,     \* Computer objects
    HandleOf,    \* the handle a goroutine works on
    Starters,    \* goroutines that use Client.StartComputer / RecoverComputer
    Deleters,    \* goroutines that use Computer.Delete
    MaxSandboxes, MaxRevision \* bounds

ASSUME HandleAssumption ==
    /\ HandleOf \in [Procs -> Handles]
    /\ Starters \subseteq Procs /\ Deleters \subseteq Procs
    /\ MaxSandboxes \in Nat /\ MaxRevision \in Nat
    \* A Start makes a Computer of its own; no other goroutine shares it yet.
    /\ \A p \in Starters, q \in Procs : HandleOf[p] = HandleOf[q] => p = q

VARIABLES
    \* Portal: revision, the sandbox it authorized, and its history
    rev, cur, authRev, deleted,
    \* lifecycle server: sandboxes made so far and their states
    made, sb,
    \* handles: Computer.sandbox, .bindingRevision, and whether .conn is set
    hs, hrev, hconn,
    \* calls: position, and the locals: expected revision, sandbox observed at
    \* the start, sandbox made or stopped
    pc, froz, old, my,
    \* bindings exported with Computer.Binding and stored by the application
    saved

portal == <<rev, cur, authRev, deleted>>
server == <<made, sb>>
handle == <<hs, hrev, hconn>>
locals == <<froz, old, my>>
call   == <<pc, locals>>
vars   == <<portal, server, handle, call, saved>>

Sandboxes == 1 .. MaxSandboxes

Pcs       == {"idle", "inspect", "recover", "await", "fresh", "revision", "create",
              "ready", "mint", "bind", "publish", "cleanup",
              "stop", "stopping", "kill", "killreset", "killed", "tombstone", "reset"}

TypeOK ==
    /\ rev \in 0 .. MaxRevision /\ cur \in 0 .. MaxSandboxes
    /\ authRev \in [Sandboxes -> 0 .. MaxRevision] /\ deleted \in BOOLEAN
    /\ made \in 0 .. MaxSandboxes /\ sb \in [Sandboxes -> States]
    /\ hs \in [Handles -> 0 .. MaxSandboxes]
    /\ hrev \in [Handles -> 0 .. MaxRevision]
    /\ hconn \in [Handles -> BOOLEAN]
    /\ pc \in [Procs -> Pcs] /\ froz \in [Procs -> 0 .. MaxRevision]
    /\ old \in [Procs -> 0 .. MaxSandboxes] /\ my \in [Procs -> 0 .. MaxSandboxes]
    /\ saved \subseteq (Sandboxes \X (0 .. MaxRevision))
    /\ \A h \in Handles : hs[h] # 0 => hconn[h]

Init ==
    /\ rev = 0 /\ cur = 0 /\ deleted = FALSE
    /\ authRev = [s \in Sandboxes |-> 0]
    /\ made = 0 /\ sb = [s \in Sandboxes |-> "none"]
    /\ hs = [h \in Handles |-> 0] /\ hrev = [h \in Handles |-> 0]
    /\ hconn = [h \in Handles |-> FALSE]
    /\ pc = [p \in Procs |-> "idle"] /\ froz = [p \in Procs |-> 0]
    /\ old = [p \in Procs |-> 0] /\ my = [p \in Procs |-> 0]
    /\ saved = {}

-----------------------------------------------------------------------------
Goto(p, label) == pc' = [pc EXCEPT ![p] = label]

\* The call returns and its locals are gone.
Return(p) == /\ Goto(p, "idle")
             /\ froz' = [froz EXCEPT ![p] = 0]
             /\ old'  = [old EXCEPT ![p] = 0]
             /\ my'   = [my EXCEPT ![p] = 0]
Step(p, label) == Goto(p, label) /\ UNCHANGED locals

H(p) == HandleOf[p]

\* Goroutines of the same handle; none of them inside a call; none in Attach.
Peers(p)     == { q \in Procs : H(q) = H(p) }
Attaching    == {"revision", "create", "ready", "mint", "bind", "publish", "cleanup"}
Quiescent(p) == \A q \in Peers(p) : pc[q] = "idle"
NoAttach(p)  == \A q \in Peers(p) : pc[q] \notin Attaching

\* A DELETE of a sandbox is carried out.
Destroyed(s) == \E to \in Torn(sb[s]) : sb' = [sb EXCEPT ![s] = to]

-----------------------------------------------------------------------------
\* Client.startComputer.

\* Portal's answer to CurrentBinding; 0 for no sandbox.  A deleted id is unknown.
CurrentBinding == [revision |-> rev, sandbox |-> cur]

\* The revision is frozen for the whole call.  An application starts a Computer
\* when it holds no attached handle of it.
BeginStart(p) ==
    /\ p \in Starters /\ Quiescent(p) /\ hs[H(p)] = 0 /\ ~deleted
    /\ froz' = [froz EXCEPT ![p] = CurrentBinding.revision]
    /\ old' = [old EXCEPT ![p] = CurrentBinding.sandbox]
    /\ \E label \in IF CurrentBinding.sandbox = 0 THEN {"fresh"} ELSE {"inspect", "recover"} : Goto(p, label)
    /\ UNCHANGED <<portal, server, handle, my, saved>>

\* The sandbox of the observed binding: gone is fine, a teardown is awaited, and
\* otherwise Start refuses, also one that saves.  Recover releases one with a recorded
\* failure, conditional on the observed version, and refuses any other.  The lookup
\* itself may fail.
Inspect(p) ==
    /\ pc[p] \in {"inspect", "recover"}
    /\ \/ sb[old[p]] = "gone" /\ Step(p, "fresh") /\ UNCHANGED sb
       \/ sb[old[p]] = "leaving" /\ Step(p, "await") /\ UNCHANGED sb
       \/ /\ pc[p] = "recover" /\ sb[old[p]] \in Releasable
          /\ Destroyed(old[p]) /\ (Step(p, "await") \/ Return(p))
       \/ Return(p) /\ UNCHANGED sb
    /\ UNCHANGED <<portal, made, handle, saved>>

\* releaseFailedSandbox waits until the release is confirmed, or gives up.
AwaitReleased(p) ==
    /\ pc[p] = "await"
    /\ (sb[old[p]] = "gone" /\ Step(p, "fresh")) \/ Return(p)
    /\ UNCHANGED <<portal, server, handle, saved>>

\* newComputer with the frozen revision; Attach follows.
Fresh(p) ==
    /\ pc[p] = "fresh"
    /\ hs' = [hs EXCEPT ![H(p)] = 0]
    /\ hrev' = [hrev EXCEPT ![H(p)] = froz[p]]
    /\ hconn' = [hconn EXCEPT ![H(p)] = FALSE]
    /\ Step(p, "revision")
    /\ UNCHANGED <<portal, server, saved>>

-----------------------------------------------------------------------------
\* Computer.Attach.

\* Direct Attach: first critical section, an attached handle is refused; another
\* attach of the same handle, still under way, is not seen.  The caller's
\* BindingRevision waits in froz for the second critical section.
BeginAttach(p) ==
    /\ p \notin Starters /\ pc[p] = "idle"
    /\ hs[H(p)] = 0
    /\ \E opt \in 0 .. rev : froz' = [froz EXCEPT ![p] = opt]
    /\ Goto(p, "revision")
    /\ UNCHANGED <<portal, server, handle, old, my, saved>>

\* Second critical section: the handle's revision, or the caller's if it has
\* none, becomes the revision this attach expects; two that differ are refused.
AttachRevision(p) ==
    /\ pc[p] = "revision"
    /\ \/ /\ hrev[H(p)] = 0 /\ Step(p, "create")
          /\ hrev' = [hrev EXCEPT ![H(p)] = froz[p]]
       \/ /\ hrev[H(p)] # 0 /\ froz[p] \in {0, hrev[H(p)]}
          /\ froz' = [froz EXCEPT ![p] = hrev[H(p)]]
          /\ Goto(p, "create") /\ UNCHANGED <<old, my, hrev>>
       \/ hrev[H(p)] # 0 /\ froz[p] \notin {0, hrev[H(p)]} /\ Return(p) /\ UNCHANGED hrev
    /\ UNCHANGED <<portal, server, hs, hconn, saved>>

\* CreateComputer: provisioned, refused, or provisioned with the answer lost
\* for good (nobody holds that sandbox; it runs until it expires).  An answer that
\* already says running leaves nothing to wait for.
AttachCreate(p) ==
    /\ pc[p] = "create"
    /\ \/ /\ made < MaxSandboxes
          /\ made' = made + 1 /\ sb' = [sb EXCEPT ![made + 1] = "up"]
          /\ \/ /\ my' = [my EXCEPT ![p] = made + 1]
                /\ \E label \in {"ready", "mint"} : Goto(p, label)
                /\ UNCHANGED <<froz, old>>
             \/ Return(p)
       \/ Return(p) /\ UNCHANGED server
    /\ UNCHANGED <<portal, handle, saved>>

\* WaitUntilRunning succeeds on a running sandbox; otherwise, or when its budget
\* ends, the deferred cleanup follows.
AttachReady(p) ==
    /\ pc[p] = "ready"
    /\ (sb[my[p]] = "up" /\ Step(p, "mint")) \/ Step(p, "cleanup")
    /\ UNCHANGED <<portal, server, handle, saved>>

\* Portal commits a receipt for p's sandbox.
Commit(p) == /\ rev < MaxRevision /\ ~deleted
             /\ rev' = rev + 1 /\ cur' = my[p] /\ UNCHANGED deleted
             /\ authRev' = [authRev EXCEPT ![my[p]] = rev + 1]

\* Mutant: a revision conflict is retried with Portal's newer revision.
AuthorizeFollows(p) ==
    /\ pc[p] = "mint" /\ Commit(p)
    /\ hrev' = [hrev EXCEPT ![H(p)] = rev + 1]
    /\ Step(p, "bind")
    /\ UNCHANGED <<server, hs, hconn, saved>>

\* Mutant: the receipt's revision is not stored in the handle.
AuthorizeUnrecorded(p) ==
    /\ pc[p] = "mint" /\ Commit(p) /\ rev = froz[p]
    /\ Step(p, "bind")
    /\ UNCHANGED <<server, handle, saved>>

\* The bind's mint: Portal commits only onto the expected revision.  The receipt
\* runs OnAuthorized under the lock; a lost receipt leaves the handle behind.
Authorize(p) ==
    /\ pc[p] = "mint"
    /\ \/ /\ rev = froz[p] /\ Commit(p)
          /\ \/ hrev' = [hrev EXCEPT ![H(p)] = rev + 1] /\ Step(p, "bind")
             \/ Step(p, "cleanup") /\ UNCHANGED hrev
       \/ Step(p, "cleanup") /\ UNCHANGED <<portal, hrev>>
    /\ UNCHANGED <<server, hs, hconn, saved>>

\* The rest of the handshake: the coordinator of a running sandbox may accept.
AttachBind(p) ==
    /\ pc[p] = "bind"
    /\ (sb[my[p]] = "up" /\ Step(p, "publish")) \/ Step(p, "cleanup")
    /\ UNCHANGED <<portal, server, handle, saved>>

\* Last critical section: the handle becomes attached.
AttachPublish(p) ==
    /\ pc[p] = "publish"
    /\ hs' = [hs EXCEPT ![H(p)] = my[p]] /\ hconn' = [hconn EXCEPT ![H(p)] = TRUE]
    /\ Return(p)
    /\ UNCHANGED <<portal, server, hrev, saved>>

\* The deferred, best-effort Kill of a sandbox that was not attached.
AttachCleanup(p) ==
    /\ pc[p] = "cleanup"
    /\ Destroyed(my[p]) \/ UNCHANGED sb
    /\ Return(p)
    /\ UNCHANGED <<portal, made, handle, saved>>

-----------------------------------------------------------------------------
\* Stop, Kill, Delete, and Client.StopComputer.

\* Stop or Kill: the sandbox is read under the lock and used after it.
BeginStop(p) ==
    /\ pc[p] = "idle" /\ hs[H(p)] # 0
    /\ my' = [my EXCEPT ![p] = hs[H(p)]]
    /\ \E label \in {"stop", "kill"} : Goto(p, label)
    /\ UNCHANGED <<portal, server, handle, froz, old, saved>>

\* StopComputer by id: the binding Portal names now, and no handle (the handle
\* of p holds nothing, so the reset this shares with Stop changes nothing).
BeginStopByID(p) ==
    /\ p \in Starters /\ Quiescent(p) /\ hs[H(p)] = 0 /\ ~deleted
    /\ CurrentBinding.sandbox # 0
    /\ my' = [my EXCEPT ![p] = CurrentBinding.sandbox] /\ Goto(p, "stop")
    /\ UNCHANGED <<portal, server, handle, froz, old, saved>>

\* Stop is admitted, joins a shutdown under way, is refused, or is not heard of.
StopAdmit(p) ==
    /\ pc[p] = "stop"
    /\ \/ sb[my[p]] \in Stoppable /\ sb' = [sb EXCEPT ![my[p]] = "stopping"]
             /\ (Step(p, "stopping") \/ Return(p))
       \/ sb[my[p]] \in {"stopping", "leaving", "gone"} /\ Step(p, "stopping") /\ UNCHANGED sb
       \/ Return(p) /\ UNCHANGED sb
    /\ UNCHANGED <<portal, made, handle, saved>>

\* Mutant: the end of the wait counts as the end of the sandbox.
StopWaitAssumes(p) ==
    /\ pc[p] = "stopping" /\ Step(p, "reset")
    /\ UNCHANGED <<portal, server, handle, saved>>

\* The wait ends: release confirmed, or unconfirmed.
StopWait(p) ==
    /\ pc[p] = "stopping"
    /\ (sb[my[p]] = "gone" /\ Step(p, "reset")) \/ Return(p)
    /\ UNCHANGED <<portal, server, handle, saved>>

\* Kill: the delete is answered, or fails with or without an effect.
KillDestroy(p) ==
    /\ pc[p] = "kill"
    /\ \/ Destroyed(my[p]) /\ Step(p, "reset")
       \/ (Destroyed(my[p]) \/ UNCHANGED sb) /\ Return(p)
    /\ UNCHANGED <<portal, made, handle, saved>>

\* reset: whatever the handle holds now is dropped.
Reset(p) ==
    /\ pc[p] = "reset"
    /\ hs' = [hs EXCEPT ![H(p)] = 0]
    /\ Return(p)
    /\ UNCHANGED <<portal, server, hrev, hconn, saved>>

\* Delete: Kill (its reset only if the kill succeeded), then the tombstone at
\* Portal, then reset again.  A handle that was never attached has no conn.
BeginDelete(p) ==
    /\ p \in Deleters /\ pc[p] = "idle" /\ hconn[H(p)]
    /\ my' = [my EXCEPT ![p] = hs[H(p)]]
    /\ Goto(p, IF hs[H(p)] = 0 THEN "tombstone" ELSE "killreset")
    /\ UNCHANGED <<portal, server, handle, froz, old, saved>>

DeleteKill(p) ==
    /\ pc[p] = "killreset"
    /\ \/ Destroyed(my[p]) /\ Step(p, "killed")
       \/ (Destroyed(my[p]) \/ UNCHANGED sb) /\ Step(p, "tombstone")
    /\ UNCHANGED <<portal, made, handle, saved>>

DeleteReset(p) ==
    /\ pc[p] = "killed"
    /\ hs' = [hs EXCEPT ![H(p)] = 0]
    /\ Step(p, "tombstone")
    /\ UNCHANGED <<portal, server, hrev, hconn, saved>>

\* AttachCredentialsSource.DeleteComputer: Portal never accepts the id again.
Tombstone == deleted' = TRUE

DeleteTombstone(p) ==
    /\ pc[p] = "tombstone"
    /\ \/ Tombstone /\ (Step(p, "reset") \/ Return(p))
       \/ UNCHANGED deleted /\ Return(p)
    /\ UNCHANGED <<rev, cur, authRev, server, handle, saved>>

\* Client.DeleteComputer: by id, with or without an answer; a sandbox that runs is
\* shut down by Portal later.
DeleteByID(p) ==
    /\ p \in Starters /\ Quiescent(p) /\ Tombstone
    /\ UNCHANGED <<rev, cur, authRev, server, handle, call, saved>>

-----------------------------------------------------------------------------
\* Binding, ReconnectComputer, and a crash of the backend that holds a handle.

Export(h) ==
    /\ hs[h] # 0
    /\ saved' = saved \cup {<<hs[h], hrev[h]>>}
    /\ UNCHANGED <<portal, server, handle, call>>

\* adopt: the new object holds the binding's sandbox and a connection.
Adopt(h, b) == /\ hs' = [hs EXCEPT ![h] = b[1]] /\ hrev' = [hrev EXCEPT ![h] = b[2]]
               /\ hconn' = [hconn EXCEPT ![h] = TRUE]

\* A new Computer object from a stored binding, stale or not (AdoptExisting is given
\* the stored revision; without one the object would hold none).
Reconnect(p) ==
    /\ Quiescent(p) /\ hs[H(p)] = 0
    /\ \E b \in saved : Adopt(H(p), b)
    /\ UNCHANGED <<portal, server, call, saved>>

Crash(h) ==
    /\ hs' = [hs EXCEPT ![h] = 0] /\ hrev' = [hrev EXCEPT ![h] = 0]
    /\ hconn' = [hconn EXCEPT ![h] = FALSE]
    /\ LET Lost(f, none) == [p \in Procs |-> IF H(p) = h THEN none ELSE f[p]]
       IN  pc' = Lost(pc, "idle") /\ froz' = Lost(froz, 0) /\ old' = Lost(old, 0)
           /\ my' = Lost(my, 0)
    /\ UNCHANGED <<portal, server, saved>>

\* The lifecycle server changes a sandbox by itself.
SandboxMoves(s) ==
    /\ \E to \in Drifts[sb[s]] : sb' = [sb EXCEPT ![s] = to]
    /\ UNCHANGED <<portal, made, handle, call, saved>>

-----------------------------------------------------------------------------
Call(p) ==
    \/ Inspect(p) \/ AwaitReleased(p) \/ Fresh(p)
    \/ AttachRevision(p) \/ AttachCreate(p) \/ AttachReady(p) \/ Authorize(p)
    \/ AttachBind(p) \/ AttachPublish(p) \/ AttachCleanup(p)
    \/ StopAdmit(p) \/ StopWait(p) \/ KillDestroy(p) \/ Reset(p)
    \/ DeleteKill(p) \/ DeleteReset(p) \/ DeleteTombstone(p)

\* An application that serializes its attaches per Computer object, as the README
\* asks for Create and Start; stops, kills and deletes may overlap an attach.
BeginAttachAlone(p) == NoAttach(p) /\ BeginAttach(p)

Begin(p) == \/ BeginStart(p) \/ BeginAttachAlone(p) \/ BeginStop(p) \/ BeginStopByID(p)
            \/ BeginDelete(p) \/ DeleteByID(p) \/ Reconnect(p)

Next == \/ \E p \in Procs : Begin(p) \/ Call(p)
        \/ \E h \in Handles : Export(h) \/ Crash(h)
        \/ \E s \in Sandboxes : SandboxMoves(s)

Spec == Init /\ [][Next]_vars

\* The same, and goroutines may also call Attach on a handle that another of them
\* is attaching: Attach states no such precondition.
OverlapNext == Next \/ \E p \in Procs : BeginAttach(p)
OverlapSpec == Init /\ [][OverlapNext]_vars

-----------------------------------------------------------------------------
\* Properties.

\* Every binding an application ever stored pairs a sandbox with the revision
\* Portal committed for that very sandbox: failed attaches that advanced the
\* handle's revision, stops that overlap, crashes and reconnects never leave a
\* handle whose sandbox and revision come from different authorizations.
SavedConsistent == \A b \in saved : authRev[b[1]] = b[2]

\* Start and Recover never take a Computer away from a sandbox that still runs:
\* when Portal authorizes their sandbox, the one it supersedes is gone, however
\* the binding moved between the first lookup and the mint.
NoLiveReplacement ==
    [][\A p \in Starters :
          pc[p] = "mint" /\ rev' # rev /\ cur' = my[p] =>
              cur = 0 \/ sb[cur] = "gone"]_vars

\* A handle that is attached is never re-pointed at another sandbox: Attach
\* refuses, and only after a stop, kill or delete may it attach again.  Two attaches
\* of one handle that overlap both pass the check (OverlapSpec).
RefusesAttached ==
    [][\A h \in Handles : hs[h] # 0 /\ hs'[h] # 0 => hs'[h] = hs[h]]_vars

\* The binding is kept until release: a live handle lets go of its sandbox only
\* when that sandbox's deletion has begun or is complete, or the whole Computer
\* is deleted (a crash loses the object itself).
KeptUntilReleased ==
    [][\A h \in Handles : hs[h] # 0 /\ hs'[h] = 0 =>
          \/ sb[hs[h]] \in {"leaving", "gone"}
          \/ deleted
          \/ ~hconn'[h]]_vars

SoleUser(h) == \A p, q \in Procs : H(p) = h /\ H(q) = h => p = q

\* KeptUntilReleased of the handles that no two goroutines share: whatever other
\* backends do with the same Computer, and whatever answers are lost, a Stop, Kill or
\* Delete that lets go has seen the release of that very sandbox.
KeptBySoleUser ==
    [][\A h \in Handles : hs[h] # 0 /\ hs'[h] = 0 /\ SoleUser(h) =>
          \/ sb[hs[h]] \in {"leaving", "gone"}
          \/ deleted
          \/ ~hconn'[h]]_vars
=============================================================================
