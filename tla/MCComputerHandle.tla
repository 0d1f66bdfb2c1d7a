-------------------------- MODULE MCComputerHandle --------------------------
(***************************************************************************)
(* ComputerHandle on small instances: a backend whose two goroutines share *)
(* a Computer object, and beside it a backend that starts and stops the    *)
(* Computer by its id.                                                     *)
(***************************************************************************)
EXTENDS ComputerHandle, TLC

CONSTANTS a, b, c, h1, h2

MCPair     == (a :> h1) @@ (b :> h1)
MCBackends == MCPair @@ (c :> h2)

MCSymmetry == Permutations({a, b})
=============================================================================
