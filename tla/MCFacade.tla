------------------------------ MODULE MCFacade ------------------------------
(***************************************************************************)
(* What the public types offer beside a Computer's lifecycle: agent work   *)
(* in a session, the session's control lease, and the capture keypairs.    *)
(* The three groups of operations share neither client nor server state,   *)
(* so a behaviour exercises one of them, and the run adds their state      *)
(* spaces instead of multiplying them.                                     *)
(*                                                                         *)
(* Capture keys: one object, made anew from the saved Credentials after a  *)
(* crash, two generations, two materials.                                  *)
(***************************************************************************)
EXTENDS AgentTurns, ControlLease, CaptureKeys, TLC

CONSTANTS w1, w2, s1, x1, y1, o1, m1, m2

VARIABLE group   \* the operations this behaviour uses

facadeVars == <<agentVars, leaseVars, keyVars, group>>

MCInit == AgentInit /\ LeaseInit /\ KeysInit /\ group \in {"agent", "lease", "keys"}

MCNext ==
    \/ group = "agent" /\ AgentNext /\ UNCHANGED <<leaseVars, keyVars, group>>
    \/ group = "lease" /\ LeaseNext /\ UNCHANGED <<agentVars, keyVars, group>>
    \/ group = "keys"  /\ KeysNext  /\ UNCHANGED <<agentVars, leaseVars, group>>

MCSpec == MCInit /\ [][MCNext]_facadeVars

MCSymmetry == Permutations({w1, w2}) \cup Permutations({m1, m2})
=============================================================================
