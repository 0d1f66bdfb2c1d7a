------------------------- MODULE MCArtifactTransfer -------------------------
(***************************************************************************)
(* ArtifactTransfer for TLC: files of at most MaxSize bytes, of which      *)
(* MaxGen generations exist.                                               *)
(***************************************************************************)
EXTENDS ArtifactTransfer
=============================================================================
