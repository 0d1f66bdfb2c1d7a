---------------------------- MODULE MCCaptureKeys ----------------------------
(***************************************************************************)
(* CaptureKeys on a small instance: one object, made anew from the saved   *)
(* Credentials after a crash, two generations, two materials.              *)
(***************************************************************************)
EXTENDS CaptureKeys, TLC

CONSTANTS o1, m1, m2

Symmetry == Permutations({m1, m2})
=============================================================================
