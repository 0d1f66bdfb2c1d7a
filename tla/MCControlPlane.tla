--------------------------- MODULE MCControlPlane ---------------------------
(***************************************************************************)
(* ControlPlane with two goroutines over one token cache.                  *)
(***************************************************************************)
EXTENDS ControlPlane

CONSTANTS p1, p2
=============================================================================
