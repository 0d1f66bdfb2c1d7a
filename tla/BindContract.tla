---------------------------- MODULE BindContract ----------------------------
(***************************************************************************)
(* What one bind handshake promises the attach that runs it                *)
(* (internal/binder, Bind and Config.OnAuthorized): at most one            *)
(* authorization, recorded the moment Portal's receipt arrives and never   *)
(* replaced; one envelope, sealed under that authorization; success only   *)
(* with that envelope.                                                     *)
(***************************************************************************)
EXTENDS Naturals

CONSTANTS Expected, \* the revision the attach expects to advance
          NoSeal    \* no envelope yet

VARIABLES committed, \* the revision recorded for the sandbox, Expected before
          envelope,  \* the sealed envelope, NoSeal before
          outcome    \* "running", then "ok" or "failed"

vars == <<committed, envelope, outcome>>

Init == committed = Expected /\ envelope = NoSeal /\ outcome = "running"

\* The receipt arrives: its revision is recorded, and the envelope is sealed
\* unless the receipt is unusable, which ends the handshake.
Authorize ==
    /\ outcome = "running" /\ committed = Expected /\ envelope = NoSeal
    /\ committed' \in Nat /\ committed' > Expected
    /\ \/ envelope' # NoSeal /\ UNCHANGED outcome
       \/ outcome' = "failed" /\ UNCHANGED envelope

Succeed == outcome = "running" /\ envelope # NoSeal /\ outcome' = "ok"
           /\ UNCHANGED <<committed, envelope>>

GiveUp  == outcome = "running" /\ outcome' = "failed"
           /\ UNCHANGED <<committed, envelope>>

Next == Authorize \/ Succeed \/ GiveUp

Spec == Init /\ [][Next]_vars
=============================================================================
