---------------------------- MODULE MCFsBinding ----------------------------
(***************************************************************************)
(* FsBinding on small instances.                                           *)
(***************************************************************************)
EXTENDS FsBinding, TLC

Symmetry == Permutations(Binders) \cup Permutations(Clients)
            \cup Permutations(LockFiles)
=============================================================================
