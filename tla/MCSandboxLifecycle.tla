------------------------- MODULE MCSandboxLifecycle -------------------------
(***************************************************************************)
(* SandboxLifecycle with two backends whose calls are interchangeable.     *)
(***************************************************************************)
EXTENDS SandboxLifecycle, TLC

CONSTANTS p1, p2

Backends == Permutations({p1, p2})
=============================================================================
