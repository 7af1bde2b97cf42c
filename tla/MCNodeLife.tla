----------------------------- MODULE MCNodeLife -----------------------------
(***************************************************************************)
(* NodeLife on a small instance.  The run checks liveness, and one holder  *)
(* is unlike the other, so it uses no symmetry.                            *)
(***************************************************************************)
EXTENDS NodeLife
=============================================================================
