----------------------------- MODULE MCFdLimit ------------------------------
(***************************************************************************)
(* FdLimit on a small instance: two threads, limits up to 3 with 3 for     *)
(* RLIM_INFINITY, and a usize that is too small for all of them.           *)
(***************************************************************************)
EXTENDS FdLimit, TLC

Symmetry == Permutations(Threads)
=============================================================================
