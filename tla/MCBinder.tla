------------------------------ MODULE MCBinder ------------------------------
(***************************************************************************)
(* Binder on a small instance: two boots of the coordinator, rivals that   *)
(* can overtake once, one registered keypair generation of two.            *)
(***************************************************************************)
EXTENDS BindTable

\* One answer of each kind the loop tells apart: a gateway that has no pod yet,
\* and a rejected bind token.
MCCoordOutcomes ==
    { [fault |-> FALSE, status |-> 404, ptype |-> "none", epoch |-> FALSE],
      [fault |-> FALSE, status |-> 401, ptype |-> "bind-rejected", epoch |-> FALSE] }
=============================================================================
