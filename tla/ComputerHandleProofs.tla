------------------------- MODULE ComputerHandleProofs -------------------------
(***************************************************************************)
(* Proofs about Computer handles, for any number of goroutines, handles,   *)
(* sandboxes and revisions.  The argument: a sandbox an attach has made    *)
(* and not yet published belongs to that attach alone, so the receipt it   *)
(* obtains can be paired with no other handle or stored binding; and a     *)
(* Start whose frozen revision is still Portal's has seen the sandbox that *)
(* Portal names gone, and gone is for ever.                                *)
(***************************************************************************)
EXTENDS ComputerHandle, TLAPS

\* Where an attach owns the sandbox in my; where it has its receipt.
Holding  == {"ready", "mint", "bind", "publish", "cleanup"}
Receipt  == {"bind", "publish"}

\* Where a Start looks at the old sandbox, and where it has seen it gone.
Looking  == {"inspect", "recover", "await"}
Cleared  == {"fresh", "revision", "create", "ready", "mint"}

\* Nobody names a sandbox that has not been made.
Bounded ==
    /\ cur <= made
    /\ \A h \in Handles : hs[h] <= made
    /\ \A p \in Procs : old[p] <= made /\ my[p] <= made
    /\ \A b \in saved : b[1] <= made

\* One attach per handle, and none on an attached one.
Attachers ==
    /\ \A p \in Procs : pc[p] \in Attaching => hs[H(p)] = 0
    /\ \A p, q \in Procs : H(p) = H(q) /\ pc[p] \in Attaching /\ pc[q] \in Attaching => p = q

\* The sandbox of an attach is its own.
Holders ==
    \A p \in Procs : pc[p] \in Holding =>
        /\ my[p] # 0
        /\ \A h \in Handles : hs[h] # my[p]
        /\ \A b \in saved : b[1] # my[p]
        /\ \A q \in Procs : pc[q] \in Holding /\ my[q] = my[p] => q = p

\* Sandboxes and revisions are paired as Portal committed them.
Paired ==
    /\ \A p \in Procs : pc[p] \in Receipt => authRev[my[p]] = hrev[H(p)]
    /\ \A h \in Handles : hs[h] # 0 => authRev[hs[h]] = hrev[h]
    /\ SavedConsistent

\* What a Start or Recover has established.
StartOK(p) ==
    /\ pc[p] \in Looking \cup Cleared => froz[p] <= rev /\ (froz[p] = rev => cur = old[p])
    /\ pc[p] \in Cleared => old[p] = 0 \/ sb[old[p]] = "gone"
    /\ pc[p] = "revision" => hrev[H(p)] = froz[p]
Starts ==
    /\ \A p \in Starters : StartOK(p)
    /\ \A p \in Procs : pc[p] \in Looking \cup {"fresh"} => p \in Starters

\* A release that is about to reset the handle has seen its own sandbox go.
ReleaseConfirmed ==
    \A p \in Procs : pc[p] \in {"reset", "killed"} =>
        my[p] = 0 \/ deleted \/ sb[my[p]] \in {"leaving", "gone"}

HandleInv ==
    /\ TypeOK /\ Bounded /\ Attachers /\ Holders /\ Paired /\ Starts /\ ReleaseConfirmed

\* The invariant holds before the first call (newComputer).
LEMMA HandleInitInv == Init => HandleInv
<1> SUFFICES ASSUME Init PROVE HandleInv
  OBVIOUS
<1>1. TypeOK
  <2>1. 0 \in 0 .. MaxRevision /\ 0 \in 0 .. MaxSandboxes /\ "idle" \in Pcs /\ "none" \in States
    BY HandleAssumption DEF Pcs, States
  <2> QED BY <2>1 DEF Init, TypeOK
<1>2. Bounded /\ Attachers /\ Holders /\ Paired /\ Starts /\ ReleaseConfirmed
  BY HandleAssumption DEF Init, Bounded, Attachers, Holders, Paired, Starts, StartOK, ReleaseConfirmed,
     SavedConsistent, Attaching, Holding, Receipt, Looking, Cleared
<1> QED BY <1>1, <1>2 DEF HandleInv

-----------------------------------------------------------------------------
\* How sandboxes move: gone is for ever, a teardown is not undone.
Moves == /\ sb' \in [Sandboxes -> States]
         /\ \A s \in Sandboxes : sb[s] = "gone" => sb'[s] = "gone"
         /\ \A s \in Sandboxes : sb[s] = "leaving" => sb'[s] \in {"leaving", "gone"}

\* A sandbox that no step touches stays as it is.
LEMMA UnchangedMoves == TypeOK /\ UNCHANGED sb => Moves
BY DEF TypeOK, Moves

\* A DELETE brings a sandbox nowhere but on its way out, and gone stays gone.
LEMMA DestroyedMoves ==
    ASSUME TypeOK, NEW s \in 0 .. MaxSandboxes, Destroyed(s)
    PROVE  Moves /\ (s # 0 => sb'[s] \in {"leaving", "gone"})
<1>1. PICK to \in {"leaving", "gone"} :
          sb' = [sb EXCEPT ![s] = to] /\ (sb[s] = "gone" => to = "gone")
  BY DEF Destroyed, Torn
<1>2. sb \in [Sandboxes -> States] /\ to \in States /\ "gone" \in States
  BY DEF TypeOK, States
<1>3. sb' \in [Sandboxes -> States]
  BY <1>1, <1>2
<1>4. \A r \in Sandboxes : r # s => sb'[r] = sb[r]
  BY <1>1, <1>2
<1>5. s \in Sandboxes => sb'[s] = to
  BY <1>1, <1>2
<1>6. s # 0 => s \in Sandboxes
  BY HandleAssumption DEF Sandboxes
<1> QED BY <1>1, <1>3, <1>4, <1>5, <1>6 DEF Moves

\* The locals after a step of p that takes it to a label, or out of its call.
LEMMA StepLocals ==
    ASSUME TypeOK, NEW p \in Procs, NEW l \in Pcs, Step(p, l)
    PROVE  /\ pc' \in [Procs -> Pcs] /\ pc'[p] = l /\ UNCHANGED <<froz, old, my>>
           /\ \A q \in Procs : q # p => pc'[q] = pc[q]
BY DEF TypeOK, Step, Goto, locals

\* A call that returns leaves no locals and disturbs no other call.
LEMMA ReturnLocals ==
    ASSUME TypeOK, NEW p \in Procs, Return(p)
    PROVE  /\ pc' \in [Procs -> Pcs] /\ pc'[p] = "idle" /\ my'[p] = 0 /\ old'[p] = 0
           /\ froz' \in [Procs -> 0 .. MaxRevision]
           /\ old' \in [Procs -> 0 .. MaxSandboxes] /\ my' \in [Procs -> 0 .. MaxSandboxes]
           /\ \A q \in Procs : q # p => /\ pc'[q] = pc[q] /\ froz'[q] = froz[q]
                                        /\ old'[q] = old[q] /\ my'[q] = my[q]
BY HandleAssumption DEF TypeOK, Return, Goto, Pcs

\* A step that makes no sandbox, commits no revision and leaves saved bindings and
\* handles as they are, except that a handle may let go: p moves to a label at
\* which the invariant asks for no more than before.
Quiet(p) ==
    /\ UNCHANGED <<rev, cur, authRev, made, hrev, hconn, saved>>
    /\ deleted' \in BOOLEAN /\ (deleted => deleted')
    /\ Moves
    /\ hs' \in [Handles -> 0 .. MaxSandboxes] /\ \A h \in Handles : hs'[h] \in {0, hs[h]}
    /\ pc' \in [Procs -> Pcs] /\ \A q \in Procs : q # p => pc'[q] = pc[q]
    /\ \/ UNCHANGED <<froz, old, my>>
       \/ Return(p)
    /\ pc'[p] \in Attaching => pc[p] \in Attaching
    /\ pc'[p] \in Holding => pc[p] \in Holding
    /\ pc'[p] \in Receipt => pc[p] \in Receipt
    /\ pc'[p] \in Looking \cup Cleared => pc[p] \in Looking \cup Cleared
    /\ pc'[p] \in Cleared => pc[p] \in Cleared \/ old[p] = 0 \/ sb'[old[p]] = "gone"
    /\ pc'[p] = "revision" => pc[p] = "revision"
    /\ pc'[p] \in Looking \cup {"fresh"} => pc[p] \in Looking \cup {"fresh"}
    /\ pc'[p] \in {"reset", "killed"} => my[p] = 0 \/ deleted' \/ sb'[my[p]] \in {"leaving", "gone"}

\* A step of one call that makes, authorizes and publishes nothing keeps the invariant.
LEMMA QuietInv ==
    ASSUME HandleInv, NEW p \in Procs, Quiet(p)
    PROVE  HandleInv'
<1> USE DEF HandleInv
<1>1. \A q \in Procs : q # p => my'[q] = my[q] /\ old'[q] = old[q] /\ froz'[q] = froz[q]
  BY ReturnLocals DEF Quiet
<1>2. /\ froz' \in [Procs -> 0 .. MaxRevision] /\ old' \in [Procs -> 0 .. MaxSandboxes]
      /\ my' \in [Procs -> 0 .. MaxSandboxes]
  BY ReturnLocals DEF Quiet, TypeOK
<1>3. (my'[p] = my[p] /\ old'[p] = old[p] /\ froz'[p] = froz[p])
      \/ (my'[p] = 0 /\ old'[p] = 0 /\ pc'[p] = "idle")
  BY ReturnLocals DEF Quiet
<1>4. TypeOK'
  BY <1>2 DEF TypeOK, Quiet, Moves
<1>5. made \in Nat /\ 0 <= made
  BY HandleAssumption DEF TypeOK
<1>6. Bounded'
  BY <1>1, <1>3, <1>5 DEF Bounded, Quiet
<1>7. Attachers'
  <2>1. \A q \in Procs : pc'[q] \in Attaching => pc[q] \in Attaching
    BY DEF Quiet
  <2>2. \A h \in Handles : hs[h] = 0 => hs'[h] = 0
    BY DEF Quiet
  <2>3. \A q \in Procs : H(q) \in Handles
    BY HandleAssumption DEF H
  <2> QED BY <2>1, <2>2, <2>3 DEF Attachers, H
<1>8. Holders'
  <2>1. \A q \in Procs : pc'[q] \in Holding => pc[q] \in Holding /\ my'[q] = my[q]
    BY <1>1, <1>3 DEF Quiet, Holding
  <2> SUFFICES ASSUME NEW q \in Procs, pc'[q] \in Holding
               PROVE  /\ my'[q] # 0
                      /\ \A h \in Handles : hs'[h] # my'[q]
                      /\ \A b \in saved' : b[1] # my'[q]
                      /\ \A r \in Procs : pc'[r] \in Holding /\ my'[r] = my'[q] => r = q
    BY DEF Holders
  <2> QED BY <2>1 DEF Holders, Quiet
<1>9. Paired'
  <2>1. \A q \in Procs : pc'[q] \in Receipt => pc[q] \in Receipt /\ my'[q] = my[q]
    BY <1>1, <1>3 DEF Quiet, Receipt
  <2> QED BY <2>1 DEF Paired, SavedConsistent, Quiet, H
<1>10. Starts'
  <2>a. \A q \in Procs : pc'[q] \in Looking \cup {"fresh"} => q \in Starters
    BY DEF Quiet, Starts
  <2> SUFFICES ASSUME NEW q \in Starters PROVE StartOK(q)'
    BY <2>a DEF Starts
  <2>1. q \in Procs /\ StartOK(q) /\ old[q] \in 0 .. MaxSandboxes
    BY HandleAssumption DEF Starts, TypeOK
  <2>2. sb[old[q]] = "gone" /\ old[q] # 0 => sb'[old[q]] = "gone"
    BY <2>1, HandleAssumption DEF Quiet, Moves, Sandboxes
  <2>3. CASE q # p
    BY <1>1, <2>1, <2>2, <2>3 DEF Quiet, StartOK, H
  <2>4. CASE q = p /\ pc'[p] = "idle"
    BY <2>4 DEF StartOK, Looking, Cleared
  <2>5. CASE q = p /\ pc'[p] # "idle"
    BY <1>3, <2>1, <2>2, <2>5 DEF Quiet, StartOK, H
  <2> QED BY <2>3, <2>4, <2>5
<1>11. ReleaseConfirmed'
  <2> SUFFICES ASSUME NEW q \in Procs, pc'[q] \in {"reset", "killed"}
               PROVE  my'[q] = 0 \/ deleted' \/ sb'[my'[q]] \in {"leaving", "gone"}
    BY DEF ReleaseConfirmed
  <2>1. my[q] \in 0 .. MaxSandboxes
    BY DEF TypeOK
  <2>2. my[q] # 0 /\ sb[my[q]] \in {"leaving", "gone"} => sb'[my[q]] \in {"leaving", "gone"}
    BY <2>1, HandleAssumption DEF Quiet, Moves, Sandboxes
  <2>3. CASE q # p
    BY <1>1, <2>2, <2>3 DEF Quiet, ReleaseConfirmed
  <2>4. CASE q = p
    BY <1>3, <2>4 DEF Quiet
  <2> QED BY <2>3, <2>4
<1> QED BY <1>4, <1>6, <1>7, <1>8, <1>9, <1>10, <1>11

\* Where p may go quietly from where it is.
QuietLabel(p, l) ==
    /\ l \in Pcs
    /\ l \in Attaching => pc[p] \in Attaching
    /\ l \in Holding => pc[p] \in Holding
    /\ l \in Receipt => pc[p] \in Receipt
    /\ l \in Looking \cup Cleared => pc[p] \in Looking \cup Cleared
    /\ l \in Cleared => pc[p] \in Cleared \/ sb[old[p]] = "gone"
    /\ l = "revision" => pc[p] = "revision"
    /\ l \in Looking \cup {"fresh"} => pc[p] \in Looking \cup {"fresh"}

\* The frame of a quiet step.
Frame ==
    /\ UNCHANGED <<rev, cur, authRev, made, hrev, hconn, saved>>
    /\ deleted' \in BOOLEAN /\ (deleted => deleted')
    /\ Moves
    /\ hs' \in [Handles -> 0 .. MaxSandboxes] /\ \A h \in Handles : hs'[h] \in {0, hs[h]}

\* Going on to a place that needs nothing new is such a step.
LEMMA QuietStep ==
    ASSUME TypeOK, NEW p \in Procs, NEW l, Step(p, l), Frame, QuietLabel(p, l),
           l \in {"reset", "killed"} => my[p] = 0 \/ deleted' \/ sb'[my[p]] \in {"leaving", "gone"}
    PROVE  Quiet(p)
<1>1. /\ pc' \in [Procs -> Pcs] /\ pc'[p] = l /\ UNCHANGED <<froz, old, my>>
      /\ \A q \in Procs : q # p => pc'[q] = pc[q]
  BY StepLocals DEF QuietLabel
<1>2. l \in Cleared => pc[p] \in Cleared \/ old[p] = 0 \/ sb'[old[p]] = "gone"
  <2>1. old[p] # 0 => old[p] \in Sandboxes
    BY HandleAssumption DEF TypeOK, Sandboxes
  <2> QED BY <2>1 DEF QuietLabel, Frame, Moves
<1> QED BY <1>1, <1>2 DEF Quiet, Frame, QuietLabel

\* Returning is such a step.
LEMMA QuietReturn ==
    ASSUME TypeOK, NEW p \in Procs, Return(p), Frame
    PROVE  Quiet(p)
<1>1. pc' \in [Procs -> Pcs] /\ pc'[p] = "idle" /\ \A q \in Procs : q # p => pc'[q] = pc[q]
  BY ReturnLocals
<1>2. pc'[p] \notin Attaching \cup Holding \cup Receipt \cup Looking \cup Cleared
      /\ pc'[p] # "revision" /\ pc'[p] \notin {"reset", "killed"}
  BY <1>1 DEF Attaching, Holding, Receipt, Looking, Cleared
<1> QED BY <1>1, <1>2 DEF Quiet, Frame

\* The steps of calls that are quiet.
LEMMA QuietCalls ==
    ASSUME HandleInv, NEW p \in Procs,
           \/ Inspect(p) \/ AwaitReleased(p) \/ AttachReady(p) \/ AttachBind(p) \/ AttachCleanup(p)
           \/ StopAdmit(p) \/ StopWait(p) \/ KillDestroy(p) \/ Reset(p)
           \/ DeleteKill(p) \/ DeleteReset(p) \/ DeleteTombstone(p)
    PROVE  Quiet(p)
<1> USE DEF portal, server, handle
<1>a. TypeOK /\ deleted \in BOOLEAN /\ hs \in [Handles -> 0 .. MaxSandboxes]
      /\ my[p] \in 0 .. MaxSandboxes /\ old[p] \in 0 .. MaxSandboxes
      /\ sb \in [Sandboxes -> States] /\ H(p) \in Handles
  BY HandleAssumption DEF HandleInv, TypeOK, H
<1>b. ASSUME UNCHANGED <<rev, cur, authRev, made, hrev, hconn, saved, hs>>, Moves,
             deleted' \in BOOLEAN, deleted => deleted'
      PROVE  Frame
  BY <1>a, <1>b DEF Frame
<1>c. ASSUME UNCHANGED <<rev, cur, authRev, deleted, made, sb, hrev, hconn, saved>>,
             hs' = [hs EXCEPT ![H(p)] = 0]
      PROVE  Frame
  BY <1>a, <1>c, UnchangedMoves, HandleAssumption DEF Frame
<1>d. \A s \in Sandboxes, to \in States : sb[s] \notin {"leaving", "gone"} /\ sb' = [sb EXCEPT ![s] = to]
          => Moves
  BY <1>a DEF Moves
<1>1. CASE Inspect(p)
  <2>1. UNCHANGED <<rev, cur, authRev, deleted, made, hrev, hconn, saved, hs>> /\ pc[p] \in Looking
    BY <1>1 DEF Inspect, Looking
  <2>2. CASE UNCHANGED sb
    <3>1. Frame
      BY <1>a, <1>b, <2>1, <2>2, UnchangedMoves
    <3>2. CASE sb[old[p]] = "gone" /\ Step(p, "fresh")
      <4>1. QuietLabel(p, "fresh")
        BY <2>1, <3>2 DEF QuietLabel, Pcs, Attaching, Holding, Receipt, Looking, Cleared
      <4> QED BY <1>a, <3>1, <3>2, <4>1, QuietStep
    <3>3. CASE Step(p, "await")
      <4>1. QuietLabel(p, "await")
        BY <2>1 DEF QuietLabel, Pcs, Attaching, Holding, Receipt, Looking, Cleared
      <4> QED BY <1>a, <3>1, <3>3, <4>1, QuietStep
    <3>4. CASE Return(p)
      BY <1>a, <3>1, <3>4, QuietReturn
    <3> QED BY <1>1, <3>2, <3>3, <3>4 DEF Inspect
  <2>3. CASE Destroyed(old[p]) /\ (Step(p, "await") \/ Return(p))
    <3>1. Frame
      BY <1>a, <1>b, <2>1, <2>3, DestroyedMoves
    <3>2. QuietLabel(p, "await")
      BY <2>1 DEF QuietLabel, Pcs, Attaching, Holding, Receipt, Looking, Cleared
    <3> QED BY <1>a, <2>3, <3>1, <3>2, QuietStep, QuietReturn
  <2> QED BY <1>1, <2>2, <2>3 DEF Inspect
<1>2. CASE AwaitReleased(p)
  <2>1. Frame /\ pc[p] = "await"
    BY <1>2, <1>a, <1>b, UnchangedMoves DEF AwaitReleased
  <2>2. CASE sb[old[p]] = "gone" /\ Step(p, "fresh")
    <3>1. QuietLabel(p, "fresh")
      BY <2>1, <2>2 DEF QuietLabel, Pcs, Attaching, Holding, Receipt, Looking, Cleared
    <3> QED BY <1>a, <2>1, <2>2, <3>1, QuietStep
  <2>3. CASE Return(p)
    BY <1>a, <2>1, <2>3, QuietReturn
  <2> QED BY <1>2, <2>2, <2>3 DEF AwaitReleased
<1>3. CASE AttachReady(p) \/ AttachBind(p)
  <2>1. Frame /\ pc[p] \in {"ready", "bind"}
    BY <1>3, <1>a, <1>b, UnchangedMoves DEF AttachReady, AttachBind
  <2>2. PICK l \in {"mint", "publish", "cleanup"} : Step(p, l) /\ (l = "mint" => pc[p] = "ready")
                                                    /\ (l = "publish" => pc[p] = "bind")
    BY <1>3 DEF AttachReady, AttachBind
  <2>3. QuietLabel(p, l)
    BY <2>1, <2>2 DEF QuietLabel, Pcs, Attaching, Holding, Receipt, Looking, Cleared
  <2> QED BY <1>a, <2>1, <2>2, <2>3, QuietStep
<1>4. CASE AttachCleanup(p)
  <2>1. Moves
    BY <1>4, <1>a, UnchangedMoves, DestroyedMoves DEF AttachCleanup
  <2>2. Frame /\ Return(p)
    BY <1>4, <1>a, <1>b, <2>1 DEF AttachCleanup
  <2> QED BY <1>a, <2>2, QuietReturn
<1>5. CASE StopAdmit(p)
  <2>1. UNCHANGED <<rev, cur, authRev, deleted, made, hrev, hconn, saved, hs>> /\ pc[p] = "stop"
    BY <1>5 DEF StopAdmit
  <2>2. Moves
    <3>1. CASE sb[my[p]] \in Stoppable /\ sb' = [sb EXCEPT ![my[p]] = "stopping"]
      <4>1. CASE my[p] \in Sandboxes
        BY <1>d, <3>1, <4>1 DEF States, Stoppable
      <4>2. CASE my[p] \notin Sandboxes
        BY <1>a, <3>1, <4>2 DEF Moves
      <4> QED BY <4>1, <4>2
    <3>2. CASE UNCHANGED sb
      BY <1>a, <3>2, UnchangedMoves
    <3> QED BY <1>5, <3>1, <3>2 DEF StopAdmit
  <2>3. Frame
    BY <1>a, <1>b, <2>1, <2>2
  <2>4. CASE Step(p, "stopping")
    <3>1. QuietLabel(p, "stopping")
      BY DEF QuietLabel, Pcs, Attaching, Holding, Receipt, Looking, Cleared
    <3> QED BY <1>a, <2>3, <2>4, <3>1, QuietStep
  <2>5. CASE Return(p)
    BY <1>a, <2>3, <2>5, QuietReturn
  <2> QED BY <1>5, <2>4, <2>5 DEF StopAdmit
<1>6. CASE StopWait(p)
  <2>1. Frame /\ UNCHANGED sb
    BY <1>6, <1>a, <1>b, UnchangedMoves DEF StopWait
  <2>2. CASE sb[my[p]] = "gone" /\ Step(p, "reset")
    <3>1. QuietLabel(p, "reset")
      BY DEF QuietLabel, Pcs, Attaching, Holding, Receipt, Looking, Cleared
    <3> QED BY <1>a, <2>1, <2>2, <3>1, QuietStep
  <2>3. CASE Return(p)
    BY <1>a, <2>1, <2>3, QuietReturn
  <2> QED BY <1>6, <2>2, <2>3 DEF StopWait
<1>7. CASE KillDestroy(p) \/ DeleteKill(p)
  <2>1. Moves
    BY <1>7, <1>a, UnchangedMoves, DestroyedMoves DEF KillDestroy, DeleteKill
  <2>2. Frame
    BY <1>7, <1>a, <1>b, <2>1 DEF KillDestroy, DeleteKill
  <2>3. ASSUME NEW l \in {"reset", "killed"}, Destroyed(my[p]), Step(p, l) PROVE Quiet(p)
    <3>1. QuietLabel(p, l)
      BY DEF QuietLabel, Pcs, Attaching, Holding, Receipt, Looking, Cleared
    <3>2. my[p] = 0 \/ sb'[my[p]] \in {"leaving", "gone"}
      BY <1>a, <2>3, DestroyedMoves
    <3> QED BY <1>a, <2>2, <2>3, <3>1, <3>2, QuietStep
  <2>4. CASE Step(p, "tombstone")
    <3>1. QuietLabel(p, "tombstone")
      BY DEF QuietLabel, Pcs, Attaching, Holding, Receipt, Looking, Cleared
    <3> QED BY <1>a, <2>2, <2>4, <3>1, QuietStep
  <2>5. CASE Return(p)
    BY <1>a, <2>2, <2>5, QuietReturn
  <2> QED BY <1>7, <2>3, <2>4, <2>5 DEF KillDestroy, DeleteKill
<1>8. CASE Reset(p)
  BY <1>8, <1>a, <1>c, QuietReturn DEF Reset
<1>9. CASE DeleteReset(p)
  <2>1. Frame /\ Step(p, "tombstone")
    BY <1>9, <1>c DEF DeleteReset
  <2>2. QuietLabel(p, "tombstone")
    BY DEF QuietLabel, Pcs, Attaching, Holding, Receipt, Looking, Cleared
  <2> QED BY <1>a, <2>1, <2>2, QuietStep
<1>10. CASE DeleteTombstone(p)
  <2>1. Frame
    BY <1>10, <1>a, <1>b, UnchangedMoves DEF DeleteTombstone, Tombstone
  <2>2. CASE Tombstone /\ Step(p, "reset")
    <3>1. QuietLabel(p, "reset") /\ deleted'
      BY <2>2 DEF QuietLabel, Pcs, Attaching, Holding, Receipt, Looking, Cleared, Tombstone
    <3> QED BY <1>a, <2>1, <2>2, <3>1, QuietStep
  <2>3. CASE Return(p)
    BY <1>a, <2>1, <2>3, QuietReturn
  <2> QED BY <1>10, <2>2, <2>3 DEF DeleteTombstone
<1> QED BY <1>1, <1>2, <1>3, <1>4, <1>5, <1>6, <1>7, <1>8, <1>9, <1>10

\* No call moves: the server's own steps, and Delete by id.
LEMMA FrameInv ==
    ASSUME HandleInv, Frame, UNCHANGED <<pc, froz, old, my>>
    PROVE  HandleInv'
<1>1. CASE Procs = {}
  <2>1. TypeOK'
    BY DEF HandleInv, Frame, Moves, TypeOK
  <2>2. 0 <= made
    BY HandleAssumption DEF HandleInv, TypeOK
  <2>3. Bounded'
    BY <1>1, <2>2 DEF HandleInv, Frame, Bounded
  <2>4. Paired'
    BY <1>1 DEF HandleInv, Frame, Paired, SavedConsistent
  <2>5. Starters = {}
    BY <1>1, HandleAssumption
  <2> QED BY <1>1, <2>1, <2>3, <2>4, <2>5 DEF HandleInv, Attachers, Holders, Starts, ReleaseConfirmed
<1>2. ASSUME NEW p \in Procs PROVE HandleInv'
  <2>1. pc \in [Procs -> Pcs] /\ my[p] \in 0 .. MaxSandboxes
    BY DEF HandleInv, TypeOK
  <2>2. my[p] # 0 => my[p] \in Sandboxes
    BY <2>1, HandleAssumption DEF Sandboxes
  <2>3. pc[p] \in {"reset", "killed"} => my[p] = 0 \/ deleted' \/ sb'[my[p]] \in {"leaving", "gone"}
    BY <2>2 DEF HandleInv, ReleaseConfirmed, Frame, Moves
  <2>4. Quiet(p)
    BY <2>1, <2>3 DEF Quiet, Frame
  <2> QED BY <2>4, QuietInv
<1> QED BY <1>1, <1>2

\* A call begins: only its own locals change.
LEMMA BeginInv ==
    ASSUME HandleInv, NEW p \in Procs, pc[p] = "idle",
           UNCHANGED <<rev, cur, authRev, deleted, made, sb, hs, hrev, hconn, saved>>,
           NEW l \in Pcs, pc' = [pc EXCEPT ![p] = l],
           froz' \in [Procs -> 0 .. MaxRevision], old' \in [Procs -> 0 .. MaxSandboxes],
           my' \in [Procs -> 0 .. MaxSandboxes],
           \A q \in Procs : q # p => froz'[q] = froz[q] /\ old'[q] = old[q] /\ my'[q] = my[q],
           my'[p] <= made, old'[p] <= made,
           l \notin Holding, l \notin {"reset", "killed"},
           l \in Attaching => hs[H(p)] = 0 /\ NoAttach(p),
           l \in Looking \cup {"fresh"} => p \in Starters,
           p \in Starters => StartOK(p)'
    PROVE  HandleInv'
<1> USE DEF HandleInv
<1>1. pc' \in [Procs -> Pcs] /\ pc'[p] = l /\ \A q \in Procs : q # p => pc'[q] = pc[q]
  BY DEF TypeOK
<1>2. TypeOK'
  BY <1>1 DEF TypeOK
<1>3. Bounded'
  BY DEF Bounded
<1>4. Attachers'
  BY <1>1 DEF Attachers, NoAttach, Peers, H
<1>5. Holders' /\ Paired'
  BY <1>1 DEF Holders, Paired, SavedConsistent, Receipt, Holding, H
<1>6. Starts'
  <2>1. \A q \in Starters : q # p => StartOK(q)'
    BY <1>1, HandleAssumption DEF Starts, StartOK, H
  <2> QED BY <1>1, <2>1 DEF Starts
<1>7. ReleaseConfirmed'
  BY <1>1 DEF ReleaseConfirmed
<1> QED BY <1>2, <1>3, <1>4, <1>5, <1>6, <1>7

\* The beginnings of Start, Attach, Stop, Kill and Delete keep the invariant.
LEMMA BeginsInv ==
    ASSUME HandleInv, NEW p \in Procs,
           BeginStart(p) \/ BeginAttachAlone(p) \/ BeginStop(p) \/ BeginStopByID(p) \/ BeginDelete(p)
    PROVE  HandleInv'
<1> USE DEF portal, server, handle
<1>a. /\ TypeOK /\ Bounded /\ H(p) \in Handles
      /\ rev \in 0 .. MaxRevision /\ rev \in Nat /\ cur \in 0 .. MaxSandboxes
      /\ hs[H(p)] \in 0 .. MaxSandboxes
      /\ pc \in [Procs -> Pcs] /\ froz \in [Procs -> 0 .. MaxRevision]
      /\ old \in [Procs -> 0 .. MaxSandboxes] /\ my \in [Procs -> 0 .. MaxSandboxes]
  BY HandleAssumption DEF HandleInv, TypeOK, H
<1>b. cur <= made /\ hs[H(p)] <= made /\ my[p] <= made /\ old[p] <= made
  BY <1>a DEF Bounded
<1>1. CASE BeginStart(p)
  <2>1. pc[p] = "idle" /\ p \in Starters
    BY <1>1 DEF BeginStart, Quiescent, Peers
  <2>2. PICK l \in {"fresh", "inspect", "recover"} :
            pc' = [pc EXCEPT ![p] = l] /\ (l = "fresh" => cur = 0)
    BY <1>1 DEF BeginStart, CurrentBinding, Goto
  <2>3. froz' = [froz EXCEPT ![p] = rev] /\ old' = [old EXCEPT ![p] = cur] /\ my' = my
        /\ UNCHANGED <<rev, cur, authRev, deleted, made, sb, hs, hrev, hconn, saved>>
    BY <1>1 DEF BeginStart, CurrentBinding
  <2>4. l \in Pcs /\ l \notin Holding /\ l \notin {"reset", "killed"} /\ l \notin Attaching
    BY DEF Pcs, Holding, Attaching
  <2>5. StartOK(p)'
    BY <1>a, <2>2, <2>3 DEF StartOK, Looking, Cleared
  <2> QED BY <1>a, <1>b, <2>1, <2>2, <2>3, <2>4, <2>5, BeginInv
<1>2. CASE BeginAttachAlone(p)
  <2>1. pc[p] = "idle" /\ p \notin Starters /\ hs[H(p)] = 0 /\ NoAttach(p)
        /\ pc' = [pc EXCEPT ![p] = "revision"] /\ old' = old /\ my' = my
        /\ UNCHANGED <<rev, cur, authRev, deleted, made, sb, hs, hrev, hconn, saved>>
    BY <1>2 DEF BeginAttachAlone, BeginAttach, Goto
  <2>2. PICK opt \in 0 .. rev : froz' = [froz EXCEPT ![p] = opt]
    BY <1>2 DEF BeginAttachAlone, BeginAttach
  <2>3. opt \in 0 .. MaxRevision
    BY <1>a, HandleAssumption
  <2>4. "revision" \in Pcs /\ "revision" \notin Holding /\ "revision" \notin Looking \cup {"fresh"}
    BY DEF Pcs, Holding, Looking
  <2> QED BY <1>a, <1>b, <2>1, <2>2, <2>3, <2>4, BeginInv
<1>3. CASE BeginStop(p) \/ BeginStopByID(p) \/ BeginDelete(p)
  <2>1. pc[p] = "idle" /\ froz' = froz /\ old' = old
        /\ UNCHANGED <<rev, cur, authRev, deleted, made, sb, hs, hrev, hconn, saved>>
    BY <1>3 DEF BeginStop, BeginStopByID, BeginDelete, Quiescent, Peers
  <2>2. my' = [my EXCEPT ![p] = hs[H(p)]] \/ my' = [my EXCEPT ![p] = cur]
    BY <1>3 DEF BeginStop, BeginStopByID, BeginDelete, CurrentBinding
  <2>3. PICK l \in {"stop", "kill", "tombstone", "killreset"} : pc' = [pc EXCEPT ![p] = l]
    BY <1>3 DEF BeginStop, BeginStopByID, BeginDelete, Goto
  <2>4. l \in Pcs /\ l \notin Holding /\ l \notin {"reset", "killed"} /\ l \notin Attaching
        /\ l \notin Looking \cup {"fresh"} /\ l \notin Looking \cup Cleared /\ l # "revision"
        /\ l \notin Cleared
    BY DEF Pcs, Holding, Attaching, Looking, Cleared
  <2>5. pc'[p] = l /\ my' \in [Procs -> 0 .. MaxSandboxes] /\ my'[p] <= made
        /\ \A q \in Procs : q # p => my'[q] = my[q]
    BY <1>a, <1>b, <2>2, <2>3
  <2>6. StartOK(p)'
    BY <2>4, <2>5 DEF StartOK
  <2> QED BY <1>a, <1>b, <2>1, <2>3, <2>4, <2>5, <2>6, BeginInv
<1> QED BY <1>1, <1>2, <1>3

-----------------------------------------------------------------------------
\* The steps of an attach that change a handle, Portal or the server.

\* newComputer with the frozen revision keeps the invariant (startComputer).
LEMMA FreshInv ==
    ASSUME HandleInv, NEW p \in Procs, Fresh(p)
    PROVE  HandleInv'
<1> USE DEF HandleInv
<1>1. pc[p] = "fresh" /\ UNCHANGED <<rev, cur, authRev, deleted, made, sb, saved>>
      /\ hs' = [hs EXCEPT ![H(p)] = 0] /\ hrev' = [hrev EXCEPT ![H(p)] = froz[p]]
      /\ hconn' = [hconn EXCEPT ![H(p)] = FALSE] /\ Step(p, "revision")
  BY DEF Fresh, portal, server
<1>2. /\ pc' \in [Procs -> Pcs] /\ pc'[p] = "revision" /\ UNCHANGED <<froz, old, my>>
      /\ \A q \in Procs : q # p => pc'[q] = pc[q]
  BY <1>1, StepLocals DEF Pcs
<1>3. p \in Starters /\ H(p) \in Handles /\ \A q \in Procs : H(q) = H(p) => q = p
  BY <1>1, HandleAssumption DEF Starts, H
<1>4. /\ hs' \in [Handles -> 0 .. MaxSandboxes] /\ hrev' \in [Handles -> 0 .. MaxRevision]
      /\ hconn' \in [Handles -> BOOLEAN] /\ hs'[H(p)] = 0 /\ hrev'[H(p)] = froz[p]
      /\ \A h \in Handles : h # H(p) => hs'[h] = hs[h] /\ hrev'[h] = hrev[h] /\ hconn'[h] = hconn[h]
  BY <1>1, <1>3, HandleAssumption DEF TypeOK
<1>5. TypeOK'
  BY <1>1, <1>2, <1>4 DEF TypeOK
<1>6. Bounded'
  <2>1. 0 <= made
    BY HandleAssumption DEF TypeOK
  <2> QED BY <1>1, <1>2, <1>4, <2>1 DEF Bounded
<1>7. \A q \in Procs : H(q) \in Handles
  BY HandleAssumption DEF H
<1>8. Attachers'
  BY <1>2, <1>3, <1>4, <1>7 DEF Attachers, H
<1>9. Holders'
  BY <1>1, <1>2, <1>4 DEF Holders, Holding
<1>10. Paired'
  BY <1>1, <1>2, <1>3, <1>4, <1>7 DEF Paired, SavedConsistent, Receipt, H
<1>11. Starts'
  <2>1. StartOK(p)'
    BY <1>1, <1>2, <1>3, <1>4 DEF Starts, StartOK, Cleared, H
  <2>2. \A q \in Starters : q # p => StartOK(q)'
    BY <1>1, <1>2, <1>3, <1>4, <1>7, HandleAssumption DEF Starts, StartOK, H
  <2> QED BY <1>2, <2>1, <2>2 DEF Starts, Looking
<1>12. ReleaseConfirmed'
  BY <1>1, <1>2 DEF ReleaseConfirmed
<1> QED BY <1>5, <1>6, <1>8, <1>9, <1>10, <1>11, <1>12

\* Attach's second critical section keeps the invariant.
LEMMA AttachRevisionInv ==
    ASSUME HandleInv, NEW p \in Procs, AttachRevision(p)
    PROVE  HandleInv'
<1> USE DEF HandleInv
<1>1. pc[p] = "revision" /\ UNCHANGED <<rev, cur, authRev, deleted, made, sb, hs, hconn, saved>>
  BY DEF AttachRevision, portal, server
<1>2. H(p) \in Handles /\ hs[H(p)] = 0 /\ \A q \in Procs : H(q) \in Handles
  BY <1>1, HandleAssumption DEF Attachers, Attaching, H
<1>3. /\ pc' \in [Procs -> Pcs] /\ pc'[p] \in {"create", "idle"}
      /\ \A q \in Procs : q # p => pc'[q] = pc[q] /\ froz'[q] = froz[q] /\ old'[q] = old[q]
                                   /\ my'[q] = my[q]
      /\ froz' \in [Procs -> 0 .. MaxRevision]
      /\ old' \in [Procs -> 0 .. MaxSandboxes] /\ my' \in [Procs -> 0 .. MaxSandboxes]
      /\ old'[p] \in {0, old[p]} /\ my'[p] \in {0, my[p]}
      /\ pc'[p] = "create" => old'[p] = old[p] /\ froz'[p] \in {froz[p], hrev[H(p)]}
  <2>1. CASE Step(p, "create")
    <3>1. /\ pc' \in [Procs -> Pcs] /\ pc'[p] = "create" /\ UNCHANGED <<froz, old, my>>
          /\ \A q \in Procs : q # p => pc'[q] = pc[q]
      BY <2>1, StepLocals DEF Pcs
    <3> QED BY <3>1 DEF TypeOK
  <2>2. CASE Goto(p, "create") /\ UNCHANGED <<old, my>> /\ froz' = [froz EXCEPT ![p] = hrev[H(p)]]
    <3>1. hrev[H(p)] \in 0 .. MaxRevision
      BY <1>2 DEF TypeOK
    <3> QED BY <2>2, <3>1 DEF TypeOK, Goto, Pcs
  <2>3. CASE Return(p)
    BY <2>3, ReturnLocals
  <2> QED BY <2>1, <2>2, <2>3 DEF AttachRevision
<1>4. hrev' = hrev \/ hrev' = [hrev EXCEPT ![H(p)] = froz[p]]
  BY DEF AttachRevision
<1>5. /\ hrev' \in [Handles -> 0 .. MaxRevision]
      /\ \A h \in Handles : h # H(p) => hrev'[h] = hrev[h]
  BY <1>2, <1>4 DEF TypeOK
<1>6. TypeOK'
  BY <1>1, <1>3, <1>5 DEF TypeOK
<1>7. Bounded'
  <2>1. 0 <= made
    BY HandleAssumption DEF TypeOK
  <2> QED BY <1>1, <1>3, <2>1 DEF Bounded
<1>8. Attachers'
  <2>1. \A q \in Procs : pc'[q] \in Attaching => pc[q] \in Attaching
    BY <1>1, <1>3 DEF Attaching
  <2> QED BY <1>1, <2>1 DEF Attachers, H
<1>9. Holders'
  BY <1>1, <1>3 DEF Holders, Holding
<1>10. Paired'
  <2>1. \A q \in Procs : pc'[q] \in Receipt => pc[q] \in Receipt /\ q # p /\ my'[q] = my[q]
    BY <1>1, <1>3 DEF Receipt
  <2>2. \A q \in Procs : pc[q] \in Receipt /\ q # p => H(q) # H(p)
    BY <1>1 DEF Attachers, Attaching, Receipt
  <2> QED BY <1>1, <1>2, <1>5, <2>1, <2>2 DEF Paired, SavedConsistent, H
<1>11. Starts'
  <2>1. ASSUME p \in Starters PROVE StartOK(p)'
    <3>1. StartOK(p) /\ hrev[H(p)] = froz[p] /\ froz[p] <= rev /\ (froz[p] = rev => cur = old[p])
          /\ (old[p] = 0 \/ sb[old[p]] = "gone")
      BY <1>1, <2>1 DEF Starts, StartOK, Cleared
    <3>2. CASE pc'[p] = "create"
      BY <1>1, <1>3, <3>1, <3>2 DEF StartOK
    <3>3. CASE pc'[p] = "idle"
      BY <3>3 DEF StartOK, Looking, Cleared
    <3> QED BY <1>3, <3>2, <3>3
  <2>2. \A q \in Starters : q # p => StartOK(q)'
    BY <1>1, <1>2, <1>3, <1>5, HandleAssumption DEF Starts, StartOK, H
  <2> QED BY <1>3, <2>1, <2>2 DEF Starts, Looking
<1>12. ReleaseConfirmed'
  BY <1>1, <1>3 DEF ReleaseConfirmed
<1> QED BY <1>6, <1>7, <1>8, <1>9, <1>10, <1>11, <1>12

\* A provisioned sandbox belongs to the attach that made it (CreateComputer).
LEMMA AttachCreateInv ==
    ASSUME HandleInv, NEW p \in Procs, AttachCreate(p)
    PROVE  HandleInv'
<1> USE DEF HandleInv
<1>1. pc[p] = "create" /\ UNCHANGED <<rev, cur, authRev, deleted, hs, hrev, hconn, saved>>
  BY DEF AttachCreate, portal, handle
<1>2. CASE Return(p) /\ UNCHANGED <<made, sb>>
  <2>1. Frame
    BY <1>1, <1>2, UnchangedMoves DEF Frame, TypeOK
  <2> QED BY <1>2, <2>1, QuietReturn, QuietInv
<1>3. CASE ~(Return(p) /\ UNCHANGED <<made, sb>>)
  <2>1. made < MaxSandboxes /\ made' = made + 1 /\ sb' = [sb EXCEPT ![made + 1] = "up"]
    BY <1>3 DEF AttachCreate, server
  <2>2. made \in Nat /\ made + 1 \in Sandboxes /\ made' \in 0 .. MaxSandboxes
        /\ made + 1 \in 0 .. MaxSandboxes /\ made + 1 # 0 /\ MaxSandboxes \in Nat
    BY <2>1, HandleAssumption DEF TypeOK, Sandboxes
  <2>3. sb' \in [Sandboxes -> States] /\ \A s \in 1 .. made : sb'[s] = sb[s]
    BY <2>1, <2>2 DEF TypeOK, States, Sandboxes
  <2>4. /\ pc' \in [Procs -> Pcs]
        /\ \/ pc'[p] = "idle" /\ my'[p] = 0 /\ old'[p] = 0
           \/ pc'[p] \in {"ready", "mint"} /\ my'[p] = made + 1 /\ old'[p] = old[p] /\ froz'[p] = froz[p]
        /\ \A q \in Procs : q # p => pc'[q] = pc[q] /\ froz'[q] = froz[q] /\ old'[q] = old[q]
                                     /\ my'[q] = my[q]
        /\ froz' \in [Procs -> 0 .. MaxRevision]
        /\ old' \in [Procs -> 0 .. MaxSandboxes] /\ my' \in [Procs -> 0 .. MaxSandboxes]
    <3>1. CASE Return(p)
      BY <3>1, ReturnLocals
    <3>2. CASE /\ my' = [my EXCEPT ![p] = made + 1] /\ UNCHANGED <<froz, old>>
               /\ \E l \in {"ready", "mint"} : Goto(p, l)
      BY <2>2, <3>2 DEF TypeOK, Goto, Pcs
    <3> QED BY <1>3, <3>1, <3>2 DEF AttachCreate, server
  <2>5. TypeOK'
    BY <1>1, <2>2, <2>3, <2>4 DEF TypeOK
  <2>6. \A n \in Nat : n <= made => n <= made' /\ n # made + 1
    BY <2>1, <2>2
  <2>7. /\ cur \in Nat /\ (\A h \in Handles : hs[h] \in Nat) /\ \A b \in saved : b[1] \in Nat
        /\ \A q \in Procs : old[q] \in Nat /\ my[q] \in Nat
    BY HandleAssumption DEF TypeOK, Sandboxes
  <2>8. Bounded'
    <3>1. 0 <= made' /\ made + 1 <= made'
      BY <2>1, <2>2
    <3>2. \A q \in Procs : old'[q] <= made' /\ my'[q] <= made'
      <4> TAKE q \in Procs
      <4>1. old[q] <= made' /\ my[q] <= made'
        BY <2>6, <2>7 DEF Bounded
      <4> QED BY <2>4, <3>1, <4>1
    <3>3. cur <= made' /\ (\A h \in Handles : hs[h] <= made') /\ \A b \in saved : b[1] <= made'
      BY <2>6, <2>7 DEF Bounded
    <3> QED BY <1>1, <3>2, <3>3 DEF Bounded
  <2>9. Attachers'
    <3>1. \A q \in Procs : pc'[q] \in Attaching => pc[q] \in Attaching
      BY <1>1, <2>4 DEF Attaching
    <3> QED BY <1>1, <3>1 DEF Attachers, H
  <2>10. (\A h \in Handles : hs[h] # made + 1) /\ (\A b \in saved : b[1] # made + 1)
         /\ \A q \in Procs : my[q] # made + 1
    BY <2>6, <2>7 DEF Bounded
  <2>11. Holders'
    BY <1>1, <2>2, <2>4, <2>10 DEF Holders, Holding
  <2>12. Paired'
    BY <1>1, <2>4 DEF Paired, SavedConsistent, Receipt, H
  <2>13. \A n \in 0 .. MaxSandboxes : n # 0 /\ n <= made => sb'[n] = sb[n]
    BY <2>2, <2>3
  <2>14. Starts'
    <3> SUFFICES ASSUME NEW q \in Starters PROVE StartOK(q)'
      BY <2>4 DEF Starts, Looking
    <3>1. q \in Procs /\ StartOK(q) /\ old[q] \in 0 .. MaxSandboxes /\ old[q] <= made
      BY HandleAssumption DEF Starts, TypeOK, Bounded
    <3>2. old[q] # 0 => sb'[old[q]] = sb[old[q]]
      BY <2>13, <3>1
    <3>3. CASE q # p
      BY <1>1, <2>4, <3>1, <3>2, <3>3 DEF StartOK, H
    <3>4. CASE q = p
      BY <1>1, <2>4, <3>1, <3>2, <3>4 DEF StartOK, Looking, Cleared
    <3> QED BY <3>3, <3>4
  <2>15. ReleaseConfirmed'
    <3> SUFFICES ASSUME NEW q \in Procs, pc'[q] \in {"reset", "killed"}
                 PROVE  my'[q] = 0 \/ deleted' \/ sb'[my'[q]] \in {"leaving", "gone"}
      BY DEF ReleaseConfirmed
    <3>1. q # p /\ pc[q] \in {"reset", "killed"} /\ my'[q] = my[q]
      BY <2>4
    <3>2. my[q] \in 0 .. MaxSandboxes /\ my[q] <= made
      BY DEF TypeOK, Bounded
    <3> QED BY <1>1, <2>13, <3>1, <3>2 DEF ReleaseConfirmed
  <2> QED BY <2>5, <2>8, <2>9, <2>11, <2>12, <2>14, <2>15
<1> QED BY <1>2, <1>3

\* Portal's receipt pairs the attach's own sandbox with its revision (OnAuthorized).
LEMMA AuthorizeInv ==
    ASSUME HandleInv, NEW p \in Procs, Authorize(p)
    PROVE  HandleInv'
<1> USE DEF HandleInv
<1>1. pc[p] = "mint" /\ UNCHANGED <<made, sb, hs, hconn, saved>>
  BY DEF Authorize, server
<1>2. CASE Step(p, "cleanup") /\ UNCHANGED <<portal, hrev>>
  <2>1. Frame
    BY <1>1, <1>2, UnchangedMoves DEF Frame, TypeOK, portal
  <2>2. QuietLabel(p, "cleanup")
    BY <1>1 DEF QuietLabel, Pcs, Attaching, Holding, Receipt, Looking, Cleared
  <2> QED BY <1>2, <2>1, <2>2, QuietStep, QuietInv
<1>3. CASE ~(Step(p, "cleanup") /\ UNCHANGED <<portal, hrev>>)
  <2>1. rev = froz[p] /\ rev < MaxRevision /\ rev' = rev + 1 /\ cur' = my[p] /\ UNCHANGED deleted
        /\ authRev' = [authRev EXCEPT ![my[p]] = rev + 1]
    BY <1>3 DEF Authorize, Commit
  <2>2. PICK l \in {"bind", "cleanup"} :
            /\ Step(p, l)
            /\ l = "bind" => hrev' = [hrev EXCEPT ![H(p)] = rev + 1]
            /\ l = "cleanup" => hrev' = hrev
    BY <1>3 DEF Authorize
  <2>3. rev \in Nat /\ rev + 1 \in 0 .. MaxRevision /\ MaxRevision \in Nat
    BY <2>1, HandleAssumption DEF TypeOK
  <2>4. my[p] \in Sandboxes /\ my[p] \in 0 .. MaxSandboxes /\ my[p] <= made /\ H(p) \in Handles
        /\ \A q \in Procs : H(q) \in Handles
    BY <1>1, HandleAssumption DEF Holders, Holding, TypeOK, Sandboxes, Bounded, H
  <2>5. authRev' \in [Sandboxes -> 0 .. MaxRevision] /\ authRev'[my[p]] = rev + 1
        /\ \A s \in Sandboxes : s # my[p] => authRev'[s] = authRev[s]
    BY <2>1, <2>3, <2>4 DEF TypeOK
  <2>6. /\ hrev' \in [Handles -> 0 .. MaxRevision]
        /\ \A h \in Handles : h # H(p) => hrev'[h] = hrev[h]
        /\ l = "bind" => hrev'[H(p)] = rev + 1
    BY <2>2, <2>3, <2>4 DEF TypeOK
  <2>7. /\ pc' \in [Procs -> Pcs] /\ pc'[p] = l /\ UNCHANGED <<froz, old, my>>
        /\ \A q \in Procs : q # p => pc'[q] = pc[q]
    BY <2>2, StepLocals DEF Pcs
  <2>8. TypeOK'
    BY <1>1, <2>1, <2>3, <2>4, <2>5, <2>6, <2>7 DEF TypeOK
  <2>9. Bounded'
    BY <1>1, <2>1, <2>4, <2>7 DEF Bounded
  <2>10. Attachers'
    <3>1. \A q \in Procs : pc'[q] \in Attaching => pc[q] \in Attaching
      BY <1>1, <2>7 DEF Attaching
    <3> QED BY <1>1, <3>1 DEF Attachers, H
  <2>11. Holders'
    <3>1. \A q \in Procs : pc'[q] \in Holding => pc[q] \in Holding
      BY <1>1, <2>7 DEF Holding
    <3> QED BY <1>1, <2>7, <3>1 DEF Holders
  <2>12. Paired'
    <3>1. ASSUME NEW q \in Procs, pc'[q] \in Receipt PROVE authRev'[my'[q]] = hrev'[H(q)]
      <4>1. CASE q = p
        BY <2>5, <2>6, <2>7, <3>1, <4>1 DEF Receipt
      <4>2. CASE q # p
        <5>1. pc[q] \in Receipt
          BY <2>7, <3>1, <4>2
        <5>2. my[q] # my[p] /\ my[q] \in Sandboxes
          BY <1>1, <4>2, <5>1, HandleAssumption DEF Holders, Holding, Receipt, TypeOK, Sandboxes
        <5>3. H(q) # H(p)
          BY <1>1, <4>2, <5>1 DEF Attachers, Attaching, Receipt
        <5> QED BY <2>4, <2>5, <2>6, <2>7, <5>1, <5>2, <5>3 DEF Paired
      <4> QED BY <4>1, <4>2
    <3>2. \A h \in Handles : hs'[h] # 0 => authRev'[hs'[h]] = hrev'[h]
      <4>1. hs[H(p)] = 0
        BY <1>1 DEF Attachers, Attaching
      <4>2. \A h \in Handles : hs[h] # my[p] /\ (hs[h] # 0 => hs[h] \in Sandboxes)
        BY <1>1, HandleAssumption DEF Holders, Holding, TypeOK, Sandboxes
      <4> QED BY <1>1, <2>5, <2>6, <4>1, <4>2 DEF Paired
    <3>3. SavedConsistent'
      <4>1. \A b \in saved : b[1] # my[p] /\ b[1] \in Sandboxes
        BY <1>1 DEF Holders, Holding, TypeOK
      <4> QED BY <1>1, <2>5, <4>1 DEF Paired, SavedConsistent
    <3> QED BY <3>1, <3>2, <3>3 DEF Paired, H
  <2>13. Starts'
    <3> SUFFICES ASSUME NEW q \in Starters PROVE StartOK(q)'
      BY <2>7 DEF Starts, Looking
    <3>1. q \in Procs /\ StartOK(q) /\ froz[q] \in Nat
      BY HandleAssumption DEF Starts, TypeOK
    <3>2. CASE q # p
      <4>1. H(q) # H(p)
        BY <3>2, HandleAssumption DEF H
      <4>2. froz[q] <= rev => froz[q] <= rev' /\ froz[q] # rev'
        BY <2>1, <2>3, <3>1
      <4> QED BY <1>1, <2>4, <2>6, <2>7, <3>1, <3>2, <4>1, <4>2 DEF StartOK, H
    <3>3. CASE q = p
      BY <2>7, <3>3 DEF StartOK, Looking, Cleared
    <3> QED BY <3>2, <3>3
  <2>14. ReleaseConfirmed'
    BY <1>1, <2>1, <2>7 DEF ReleaseConfirmed
  <2> QED BY <2>8, <2>9, <2>10, <2>11, <2>12, <2>13, <2>14
<1> QED BY <1>2, <1>3

\* A published sandbox stands with the revision of its receipt (Attach's last section).
LEMMA AttachPublishInv ==
    ASSUME HandleInv, NEW p \in Procs, AttachPublish(p)
    PROVE  HandleInv'
<1> USE DEF HandleInv
<1>1. pc[p] = "publish" /\ UNCHANGED <<rev, cur, authRev, deleted, made, sb, hrev, saved>>
      /\ hs' = [hs EXCEPT ![H(p)] = my[p]] /\ hconn' = [hconn EXCEPT ![H(p)] = TRUE] /\ Return(p)
  BY DEF AttachPublish, portal, server
<1>2. /\ pc' \in [Procs -> Pcs] /\ pc'[p] = "idle" /\ my'[p] = 0 /\ old'[p] = 0
      /\ froz' \in [Procs -> 0 .. MaxRevision]
      /\ old' \in [Procs -> 0 .. MaxSandboxes] /\ my' \in [Procs -> 0 .. MaxSandboxes]
      /\ \A q \in Procs : q # p => /\ pc'[q] = pc[q] /\ froz'[q] = froz[q]
                                   /\ old'[q] = old[q] /\ my'[q] = my[q]
  BY <1>1, ReturnLocals
<1>3. my[p] \in 0 .. MaxSandboxes /\ my[p] <= made /\ H(p) \in Handles /\ 0 <= made
      /\ \A q \in Procs : H(q) \in Handles
  BY HandleAssumption DEF TypeOK, Bounded, H
<1>4. /\ hs' \in [Handles -> 0 .. MaxSandboxes] /\ hconn' \in [Handles -> BOOLEAN]
      /\ hs'[H(p)] = my[p] /\ hconn'[H(p)] = TRUE
      /\ \A h \in Handles : h # H(p) => hs'[h] = hs[h] /\ hconn'[h] = hconn[h]
  BY <1>1, <1>3 DEF TypeOK
<1>5. TypeOK'
  BY <1>1, <1>2, <1>4 DEF TypeOK
<1>6. Bounded'
  BY <1>1, <1>2, <1>3, <1>4 DEF Bounded
<1>7. \A q \in Procs : q # p /\ pc[q] \in Attaching => H(q) # H(p)
  BY <1>1 DEF Attachers, Attaching
<1>8. Attachers'
  BY <1>2, <1>3, <1>4, <1>7 DEF Attachers, Attaching, H
<1>9. Holders'
  <2> SUFFICES ASSUME NEW q \in Procs, pc'[q] \in Holding
               PROVE  /\ my'[q] # 0
                      /\ \A h \in Handles : hs'[h] # my'[q]
                      /\ \A b \in saved' : b[1] # my'[q]
                      /\ \A r \in Procs : pc'[r] \in Holding /\ my'[r] = my'[q] => r = q
    BY DEF Holders
  <2>1. \A r \in Procs : pc'[r] \in Holding => r # p /\ pc[r] \in Holding /\ my'[r] = my[r]
    BY <1>2 DEF Holding
  <2>2. my[q] # my[p]
    BY <1>1, <2>1 DEF Holders, Holding
  <2> QED BY <1>1, <1>4, <2>1, <2>2 DEF Holders
<1>10. Paired'
  <2>1. authRev[my[p]] = hrev[H(p)]
    BY <1>1 DEF Paired, Receipt
  <2>2. \A q \in Procs : pc'[q] \in Receipt => pc[q] \in Receipt /\ my'[q] = my[q]
    BY <1>2 DEF Receipt
  <2> QED BY <1>1, <1>4, <2>1, <2>2 DEF Paired, SavedConsistent, H
<1>11. Starts'
  <2>1. \A q \in Starters : q # p => StartOK(q)'
    BY <1>1, <1>2, HandleAssumption DEF Starts, StartOK, H
  <2>2. StartOK(p)'
    BY <1>2 DEF StartOK, Looking, Cleared
  <2> QED BY <1>2, <2>1, <2>2 DEF Starts, Looking
<1>12. ReleaseConfirmed'
  BY <1>1, <1>2 DEF ReleaseConfirmed
<1> QED BY <1>5, <1>6, <1>8, <1>9, <1>10, <1>11, <1>12

-----------------------------------------------------------------------------
\* Bindings that leave and come back, and a backend that ends.

\* What Computer.Binding exports is paired as the handle is.
LEMMA ExportInv ==
    ASSUME HandleInv, NEW h \in Handles, Export(h)
    PROVE  HandleInv'
<1> USE DEF HandleInv
<1>1. hs[h] # 0 /\ saved' = saved \cup {<<hs[h], hrev[h]>>}
      /\ UNCHANGED <<rev, cur, authRev, deleted, made, sb, hs, hrev, hconn, pc, froz, old, my>>
  BY DEF Export, portal, server, handle, call, locals
<1>2. <<hs[h], hrev[h]>> \in Sandboxes \X (0 .. MaxRevision)
  BY <1>1, HandleAssumption DEF TypeOK, Sandboxes
<1>3. TypeOK'
  BY <1>1, <1>2 DEF TypeOK
<1>4. Bounded'
  BY <1>1 DEF Bounded
<1>5. Holders' /\ Attachers'
  BY <1>1 DEF Holders, Attachers, H
<1>6. Paired'
  BY <1>1 DEF Paired, SavedConsistent, H
<1>7. Starts' /\ ReleaseConfirmed'
  BY <1>1 DEF Starts, StartOK, ReleaseConfirmed, H
<1> QED BY <1>3, <1>4, <1>5, <1>6, <1>7

\* An adopted binding is paired as it was saved (ReconnectComputer).
LEMMA ReconnectInv ==
    ASSUME HandleInv, NEW p \in Procs, Reconnect(p)
    PROVE  HandleInv'
<1> USE DEF HandleInv
<1>1. PICK b \in saved : Adopt(H(p), b)
  BY DEF Reconnect
<1>2. UNCHANGED <<rev, cur, authRev, deleted, made, sb, pc, froz, old, my, saved>>
      /\ \A q \in Procs : H(q) = H(p) => pc[q] = "idle"
  BY DEF Reconnect, portal, server, call, locals, Quiescent, Peers
<1>3. b[1] \in Sandboxes /\ b[1] \in 0 .. MaxSandboxes /\ b[2] \in 0 .. MaxRevision
      /\ b[1] <= made /\ authRev[b[1]] = b[2] /\ H(p) \in Handles /\ \A q \in Procs : H(q) \in Handles
  BY HandleAssumption DEF TypeOK, Sandboxes, Bounded, Paired, SavedConsistent, H
<1>4. /\ hs' \in [Handles -> 0 .. MaxSandboxes] /\ hrev' \in [Handles -> 0 .. MaxRevision]
      /\ hconn' \in [Handles -> BOOLEAN]
      /\ hs'[H(p)] = b[1] /\ hrev'[H(p)] = b[2] /\ hconn'[H(p)] = TRUE
      /\ \A h \in Handles : h # H(p) => hs'[h] = hs[h] /\ hrev'[h] = hrev[h] /\ hconn'[h] = hconn[h]
  BY <1>1, <1>3 DEF Adopt, TypeOK
<1>5. TypeOK'
  BY <1>2, <1>4 DEF TypeOK
<1>6. Bounded'
  BY <1>2, <1>3, <1>4 DEF Bounded
<1>7. \A q \in Procs : pc[q] \in Attaching => H(q) # H(p)
  BY <1>2 DEF Attaching
<1>8. Attachers'
  BY <1>2, <1>3, <1>4, <1>7 DEF Attachers, H
<1>9. Holders'
  BY <1>2, <1>4 DEF Holders
<1>10. Paired'
  <2>1. \A q \in Procs : pc[q] \in Receipt => H(q) # H(p)
    BY <1>2 DEF Receipt
  <2> QED BY <1>2, <1>3, <1>4, <2>1 DEF Paired, SavedConsistent, H
<1>11. Starts'
  <2>1. \A q \in Starters : StartOK(q)'
    BY <1>2, <1>3, <1>4, HandleAssumption DEF Starts, StartOK, H
  <2> QED BY <1>2, <2>1 DEF Starts
<1>12. ReleaseConfirmed'
  BY <1>2 DEF ReleaseConfirmed
<1> QED BY <1>5, <1>6, <1>8, <1>9, <1>10, <1>11, <1>12

\* A backend that ends takes its calls and its handle along.
LEMMA CrashInv ==
    ASSUME HandleInv, NEW h \in Handles, Crash(h)
    PROVE  HandleInv'
<1> USE DEF HandleInv
<1>1. hs' = [hs EXCEPT ![h] = 0] /\ hrev' = [hrev EXCEPT ![h] = 0]
      /\ hconn' = [hconn EXCEPT ![h] = FALSE]
      /\ pc' = [p \in Procs |-> IF H(p) = h THEN "idle" ELSE pc[p]]
      /\ froz' = [p \in Procs |-> IF H(p) = h THEN 0 ELSE froz[p]]
      /\ old' = [p \in Procs |-> IF H(p) = h THEN 0 ELSE old[p]]
      /\ my' = [p \in Procs |-> IF H(p) = h THEN 0 ELSE my[p]]
      /\ UNCHANGED <<rev, cur, authRev, deleted, made, sb, saved>>
  BY DEF Crash, portal, server
<1>2. \A p \in Procs : /\ H(p) = h => pc'[p] = "idle" /\ my'[p] = 0 /\ old'[p] = 0
                       /\ H(p) # h => pc'[p] = pc[p] /\ froz'[p] = froz[p] /\ old'[p] = old[p]
                                      /\ my'[p] = my[p]
                       /\ H(p) \in Handles
  BY <1>1, HandleAssumption DEF H
<1>3. /\ pc' \in [Procs -> Pcs] /\ froz' \in [Procs -> 0 .. MaxRevision]
      /\ old' \in [Procs -> 0 .. MaxSandboxes] /\ my' \in [Procs -> 0 .. MaxSandboxes]
  BY <1>1, HandleAssumption DEF TypeOK, Pcs
<1>4. /\ hs' \in [Handles -> 0 .. MaxSandboxes] /\ hrev' \in [Handles -> 0 .. MaxRevision]
      /\ hconn' \in [Handles -> BOOLEAN] /\ hs'[h] = 0
      /\ \A k \in Handles : k # h => hs'[k] = hs[k] /\ hrev'[k] = hrev[k] /\ hconn'[k] = hconn[k]
  BY <1>1, HandleAssumption DEF TypeOK
<1>5. TypeOK'
  BY <1>1, <1>3, <1>4 DEF TypeOK
<1>6. Bounded'
  <2>1. 0 <= made
    BY HandleAssumption DEF TypeOK
  <2> QED BY <1>1, <1>2, <1>4, <2>1 DEF Bounded
<1>7. Attachers'
  <2>1. \A p \in Procs : pc'[p] \in Attaching => pc[p] \in Attaching /\ H(p) # h
    BY <1>2 DEF Attaching
  <2> QED BY <1>2, <1>4, <2>1 DEF Attachers, H
<1>8. Holders'
  <2>1. \A p \in Procs : pc'[p] \in Holding => pc[p] \in Holding /\ my'[p] = my[p]
    BY <1>2 DEF Holding
  <2> QED BY <1>1, <1>4, <2>1 DEF Holders
<1>9. Paired'
  <2>1. \A p \in Procs : pc'[p] \in Receipt => pc[p] \in Receipt /\ my'[p] = my[p] /\ H(p) # h
    BY <1>2 DEF Receipt
  <2> QED BY <1>1, <1>2, <1>4, <2>1 DEF Paired, SavedConsistent, H
<1>10. Starts'
  <2>1. \A q \in Starters : StartOK(q)'
    <3> TAKE q \in Starters
    <3>1. q \in Procs /\ StartOK(q)
      BY HandleAssumption DEF Starts
    <3>2. CASE H(q) = h
      BY <1>2, <3>1, <3>2 DEF StartOK, Looking, Cleared
    <3>3. CASE H(q) # h
      BY <1>1, <1>2, <1>4, <3>1, <3>3 DEF StartOK, H
    <3> QED BY <3>2, <3>3
  <2> QED BY <1>2, <2>1 DEF Starts, Looking
<1>11. ReleaseConfirmed'
  BY <1>1, <1>2 DEF ReleaseConfirmed
<1> QED BY <1>5, <1>6, <1>7, <1>8, <1>9, <1>10, <1>11

\* Every step of the calls, Portal and the sandboxes keeps the invariant.
LEMMA HandleNextInv == HandleInv /\ [Next]_vars => HandleInv'
<1> SUFFICES ASSUME HandleInv, [Next]_vars PROVE HandleInv'
  OBVIOUS
<1>a. TypeOK /\ hs \in [Handles -> 0 .. MaxSandboxes] /\ deleted \in BOOLEAN
      /\ sb \in [Sandboxes -> States]
  BY DEF HandleInv, TypeOK
<1>1. ASSUME NEW p \in Procs, Begin(p) PROVE HandleInv'
  <2>1. CASE DeleteByID(p)
    <3>1. Frame /\ UNCHANGED <<pc, froz, old, my>>
      BY <1>a, <2>1, UnchangedMoves DEF DeleteByID, Tombstone, Frame, server, handle, call, locals
    <3> QED BY <3>1, FrameInv
  <2> QED BY <1>1, <2>1, BeginsInv, ReconnectInv DEF Begin
<1>2. ASSUME NEW p \in Procs, Call(p) PROVE HandleInv'
  BY <1>2, QuietCalls, QuietInv, FreshInv, AttachRevisionInv, AttachCreateInv, AuthorizeInv,
     AttachPublishInv DEF Call
<1>3. ASSUME NEW s \in Sandboxes, SandboxMoves(s) PROVE HandleInv'
  <2>1. Moves
    <3>1. PICK to \in Drifts[sb[s]] : sb' = [sb EXCEPT ![s] = to]
      BY <1>3 DEF SandboxMoves
    <3>2. /\ to \in States /\ sb[s] # "gone" /\ (sb[s] = "leaving" => to = "gone")
      BY <1>a, <3>1 DEF Drifts, States
    <3> QED BY <1>a, <3>1, <3>2 DEF Moves
  <2>2. Frame /\ UNCHANGED <<pc, froz, old, my>>
    BY <1>a, <1>3, <2>1 DEF SandboxMoves, Frame, portal, handle, call, locals
  <2> QED BY <2>2, FrameInv
<1>4. CASE UNCHANGED vars
  <2>1. Frame /\ UNCHANGED <<pc, froz, old, my>>
    BY <1>a, <1>4, UnchangedMoves DEF vars, Frame, portal, server, handle, call, locals
  <2> QED BY <2>1, FrameInv
<1> QED BY <1>1, <1>2, <1>3, <1>4, ExportInv, CrashInv DEF Next

\* The inductive invariant of the handles: what a handle and each stage of a call
\* on it hold of Portal's history and of the sandboxes (computer.go, client.go).
THEOREM HandleInvariant == Spec => []HandleInv
BY HandleInitInv, HandleNextInv, PTL DEF Spec

\* Portal, the sandboxes, the handles and their calls have their types
\* (computer.go, client.go).
THEOREM HandleTypeCorrect == Spec => []TypeOK
<1>1. HandleInv => TypeOK
  BY DEF HandleInv
<1> QED BY <1>1, HandleInvariant, PTL

\* Every binding ever exported pairs a sandbox with the revision Portal committed
\* for it (Computer.Binding, OnAuthorized in Computer.Attach).
THEOREM SavedConsistentHolds == Spec => []SavedConsistent
<1>1. HandleInv => SavedConsistent
  BY DEF HandleInv, Paired
<1> QED BY <1>1, HandleInvariant, PTL

\* Only a mint that succeeds moves Portal's revision.
LEMMA RevisionMoves ==
    ASSUME [Next]_vars, rev' # rev
    PROVE  \E q \in Procs : pc[q] = "mint" /\ rev = froz[q] /\ cur' = my[q]
<1>1. ASSUME NEW q \in Procs, Begin(q) PROVE FALSE
  BY <1>1 DEF Begin, BeginStart, BeginAttachAlone, BeginAttach, BeginStop, BeginStopByID, BeginDelete, DeleteByID,
     Reconnect, portal
<1>2. ASSUME NEW q \in Procs, Call(q), ~Authorize(q) PROVE FALSE
  BY <1>2 DEF Call, Inspect, AwaitReleased, Fresh, AttachRevision, AttachCreate, AttachReady,
     AttachBind, AttachPublish, AttachCleanup, StopAdmit, StopWait, KillDestroy, Reset, DeleteKill,
     DeleteReset, DeleteTombstone, portal
<1>3. ASSUME NEW q \in Procs, Authorize(q)
      PROVE  pc[q] = "mint" /\ rev = froz[q] /\ cur' = my[q]
  BY <1>3 DEF Authorize, Commit, portal
<1>4. ASSUME NEW h \in Handles, Export(h) \/ Crash(h) PROVE FALSE
  BY <1>4 DEF Export, Crash, portal
<1>5. ASSUME NEW s \in Sandboxes, SandboxMoves(s) PROVE FALSE
  BY <1>5 DEF SandboxMoves, portal
<1>6. CASE UNCHANGED vars
  BY <1>6 DEF vars, portal
<1> QED BY <1>1, <1>2, <1>3, <1>4, <1>5, <1>6 DEF Next

\* A Start or Recover replaces only a sandbox that is gone, however the binding
\* moved since its first lookup (Client.startComputer, the compare-and-swap of the
\* mint).
THEOREM NoLiveReplacementHolds == Spec => NoLiveReplacement
<1>1. HandleInv /\ [Next]_vars =>
        [\A p \in Starters : pc[p] = "mint" /\ rev' # rev /\ cur' = my[p] =>
             cur = 0 \/ sb[cur] = "gone"]_vars
  <2> SUFFICES ASSUME HandleInv, [Next]_vars, NEW p \in Starters,
                      pc[p] = "mint", rev' # rev, cur' = my[p]
               PROVE  cur = 0 \/ sb[cur] = "gone"
    OBVIOUS
  <2>1. PICK q \in Procs : pc[q] = "mint" /\ rev = froz[q] /\ cur' = my[q]
    BY RevisionMoves
  <2>2. q = p
    BY <2>1, HandleAssumption DEF HandleInv, Holders, Holding
  <2> QED BY <2>1, <2>2 DEF HandleInv, Starts, StartOK, Cleared
<1> QED BY <1>1, HandleInvariant, PTL DEF Spec, NoLiveReplacement

-----------------------------------------------------------------------------
\* A handle that one goroutine uses.  KeptUntilReleased fails when two goroutines
\* share a handle (a late reset drops what the other has attached since); this is
\* the only way it can fail.

\* From the read of the sandbox to the last reset.
Releasing == {"stop", "stopping", "kill", "killreset", "killed", "tombstone", "reset"}

\* During a release the handle holds what the release read, or nothing.
OwnSandbox ==
    \A p \in Procs : SoleUser(H(p)) /\ pc[p] \in Releasing => hs[H(p)] \in {0, my[p]}

\* A step of a goroutine leaves the other goroutines and their handles alone.
LEMMA StepFrame ==
    ASSUME HandleInv, NEW q \in Procs, Begin(q) \/ Call(q)
    PROVE  /\ \A p \in Procs : p # q => pc'[p] = pc[p] /\ my'[p] = my[p]
           /\ \A h \in Handles : h # H(q) => hs'[h] = hs[h]
<1> USE DEF HandleInv, TypeOK, Goto, Step, Return, locals, call
<1>1. CASE Begin(q)
  <2>1. \A p \in Procs : p # q => pc'[p] = pc[p] /\ my'[p] = my[p]
    BY <1>1 DEF Begin, BeginStart, BeginAttachAlone, BeginAttach, BeginStop, BeginStopByID, BeginDelete, DeleteByID,
       Reconnect
  <2>2. \A h \in Handles : h # H(q) => hs'[h] = hs[h]
    BY <1>1 DEF Begin, BeginStart, BeginAttachAlone, BeginAttach, BeginStop, BeginStopByID, BeginDelete, DeleteByID,
       Reconnect, Adopt, handle
  <2> QED BY <2>1, <2>2
<1>2. CASE Call(q)
  <2>1. \A p \in Procs : p # q => pc'[p] = pc[p] /\ my'[p] = my[p]
    BY <1>2 DEF Call, Inspect, AwaitReleased, Fresh, AttachRevision, AttachCreate, AttachReady,
       Authorize, AttachBind, AttachPublish, AttachCleanup, StopAdmit, StopWait, KillDestroy, Reset,
       DeleteKill, DeleteReset, DeleteTombstone
  <2>2. \A h \in Handles : h # H(q) => hs'[h] = hs[h]
    BY <1>2 DEF Call, Inspect, AwaitReleased, Fresh, AttachRevision, AttachCreate, AttachReady,
       Authorize, AttachBind, AttachPublish, AttachCleanup, StopAdmit, StopWait, KillDestroy, Reset,
       DeleteKill, DeleteReset, DeleteTombstone, handle
  <2> QED BY <2>1, <2>2
<1> QED BY <1>1, <1>2

\* The first step of a release reads the handle, every other step of it leaves
\* the handle alone or lets go.
LEMMA OwnStep ==
    ASSUME HandleInv, NEW p \in Procs, Begin(p) \/ Call(p), pc'[p] \in Releasing,
           pc[p] \in Releasing => hs[H(p)] \in {0, my[p]}
    PROVE  hs'[H(p)] \in {0, my'[p]}
<1> USE DEF HandleInv, TypeOK, Goto, Step, Return, locals, call, Releasing
<1>0. H(p) \in Handles
  BY HandleAssumption DEF H
<1>1. CASE BeginStop(p) \/ BeginStopByID(p) \/ BeginDelete(p)
  BY <1>1 DEF BeginStop, BeginStopByID, BeginDelete, handle
<1>2. CASE BeginStart(p) \/ BeginAttachAlone(p) \/ DeleteByID(p) \/ Reconnect(p)
  <2>1. pc'[p] \notin Releasing
    BY <1>2 DEF BeginStart, BeginAttachAlone, BeginAttach, DeleteByID, Reconnect, Quiescent, Peers
  <2> QED BY <2>1
<1>3. CASE \/ Inspect(p) \/ AwaitReleased(p) \/ Fresh(p) \/ AttachRevision(p) \/ AttachCreate(p)
           \/ AttachReady(p) \/ Authorize(p) \/ AttachBind(p) \/ AttachPublish(p) \/ AttachCleanup(p)
  <2>1. pc'[p] \notin Releasing
    BY <1>3 DEF Inspect, AwaitReleased, Fresh, AttachRevision, AttachCreate, AttachReady, Authorize,
       AttachBind, AttachPublish, AttachCleanup
  <2> QED BY <2>1
<1>4. CASE \/ StopAdmit(p) \/ StopWait(p) \/ KillDestroy(p) \/ DeleteKill(p) \/ DeleteTombstone(p)
  <2>1. hs' = hs /\ pc[p] \in Releasing
    BY <1>4 DEF StopAdmit, StopWait, KillDestroy, DeleteKill, DeleteTombstone, handle
  <2>2. my' = my
    BY <1>4 DEF StopAdmit, StopWait, KillDestroy, DeleteKill, DeleteTombstone
  <2> QED BY <2>1, <2>2
<1>5. CASE Reset(p) \/ DeleteReset(p)
  BY <1>0, <1>5 DEF Reset, DeleteReset
<1> QED BY <1>1, <1>2, <1>3, <1>4, <1>5 DEF Begin, Call

\* OwnSandbox is kept by every step.
LEMMA OwnNext == HandleInv /\ OwnSandbox /\ [Next]_vars => OwnSandbox'
<1> SUFFICES ASSUME HandleInv, OwnSandbox, [Next]_vars, NEW p \in Procs, SoleUser(H(p)),
                    pc'[p] \in Releasing
             PROVE  hs'[H(p)] \in {0, my'[p]}
  BY DEF OwnSandbox, SoleUser, H
<1>0. H(p) \in Handles /\ (pc[p] \in Releasing => hs[H(p)] \in {0, my[p]})
  BY HandleAssumption DEF H, OwnSandbox
<1>1. CASE Begin(p) \/ Call(p)
  BY <1>0, <1>1, OwnStep
<1>2. ASSUME NEW q \in Procs, q # p, Begin(q) \/ Call(q) PROVE hs'[H(p)] \in {0, my'[p]}
  <2>1. H(q) # H(p)
    BY <1>2 DEF SoleUser
  <2> QED BY <1>0, <1>2, <2>1, StepFrame
<1>3. ASSUME NEW h \in Handles, Crash(h) PROVE hs'[H(p)] \in {0, my'[p]}
  BY <1>0, <1>3 DEF Crash, HandleInv, TypeOK, Releasing
<1>4. CASE (\E h \in Handles : Export(h)) \/ (\E s \in Sandboxes : SandboxMoves(s)) \/ UNCHANGED vars
  BY <1>0, <1>4 DEF Export, SandboxMoves, vars, handle, call, locals
<1> QED BY <1>1, <1>2, <1>3, <1>4 DEF Next

\* A handle used by one goroutine keeps its binding until its sandbox is released
\* (Computer.Stop, Kill, Delete), whatever the other backends do with the same
\* Computer: the finding of KeptUntilReleased needs a shared handle.
THEOREM KeptBySoleUserHolds == Spec => KeptBySoleUser
<1>1. Init => OwnSandbox
  BY DEF Init, OwnSandbox, Releasing
<1>2. HandleInv /\ OwnSandbox /\ [Next]_vars =>
        [\A h \in Handles : hs[h] # 0 /\ hs'[h] = 0 /\ SoleUser(h) =>
            \/ sb[hs[h]] \in {"leaving", "gone"}
            \/ deleted
            \/ ~hconn'[h]]_vars
  <2> SUFFICES ASSUME HandleInv, OwnSandbox, [Next]_vars, NEW h \in Handles, SoleUser(h),
                      hs[h] # 0, hs'[h] = 0
               PROVE  sb[hs[h]] \in {"leaving", "gone"} \/ deleted \/ ~hconn'[h]
    OBVIOUS
  <2> USE DEF HandleInv, TypeOK
  <2>1. ASSUME NEW p \in Procs, Begin(p) PROVE FALSE
    <3>1. CASE ~Reconnect(p)
      BY <2>1, <3>1 DEF Begin, BeginStart, BeginAttachAlone, BeginAttach, BeginStop, BeginStopByID, BeginDelete,
         DeleteByID, handle
    <3>2. CASE Reconnect(p)
      BY <3>2, HandleAssumption DEF Reconnect, Adopt, H
    <3> QED BY <3>1, <3>2
  <2>2. ASSUME NEW p \in Procs, Reset(p) \/ DeleteReset(p)
        PROVE  sb[hs[h]] \in {"leaving", "gone"} \/ deleted
    <3>1. H(p) = h
      BY <2>2, HandleAssumption DEF Reset, DeleteReset, H
    <3>2. hs[h] = my[p]
      BY <2>2, <3>1 DEF Reset, DeleteReset, OwnSandbox, Releasing
    <3>3. my[p] = 0 \/ deleted \/ sb[my[p]] \in {"leaving", "gone"}
      BY <2>2 DEF Reset, DeleteReset, ReleaseConfirmed
    <3> QED BY <3>2, <3>3
  <2>3. ASSUME NEW p \in Procs, Fresh(p) PROVE ~hconn'[h]
    BY <2>3, HandleAssumption DEF Fresh, H
  <2>4. ASSUME NEW p \in Procs, AttachPublish(p) PROVE FALSE
    BY <2>4, HandleAssumption DEF AttachPublish, H, Holders, Holding
  <2>5. ASSUME NEW p \in Procs, Call(p), ~AttachPublish(p), ~(Fresh(p) \/ Reset(p) \/ DeleteReset(p))
        PROVE  FALSE
    BY <2>5 DEF Call, Inspect, AwaitReleased, AttachRevision, AttachCreate, AttachReady, Authorize,
       AttachBind, AttachCleanup, StopAdmit, StopWait, KillDestroy, DeleteKill, DeleteTombstone, handle
  <2>6. ASSUME NEW k \in Handles, Crash(k) PROVE ~hconn'[h]
    BY <2>6 DEF Crash
  <2>7. CASE (\E k \in Handles : Export(k)) \/ (\E s \in Sandboxes : SandboxMoves(s)) \/ UNCHANGED vars
    BY <2>7 DEF Export, SandboxMoves, vars, handle
  <2> QED BY <2>1, <2>2, <2>3, <2>4, <2>5, <2>6, <2>7 DEF Next
<1> QED BY <1>1, <1>2, OwnNext, HandleInvariant, PTL DEF Spec, KeptBySoleUser
=============================================================================
