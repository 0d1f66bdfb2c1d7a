-------------------------- MODULE MCArtifactTokens --------------------------
(***************************************************************************)
(* ArtifactTokens with two goroutines over the Computer's own token.       *)
(***************************************************************************)
EXTENDS ArtifactTokens

CONSTANTS p1, p2, own
=============================================================================
