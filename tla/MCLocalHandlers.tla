-------------------------- MODULE MCLocalHandlers --------------------------
(***************************************************************************)
(* LocalHandlers on small instances.                                       *)
(***************************************************************************)
EXTENDS LocalHandlers, TLC

Symmetry == Permutations(Slots) \cup Permutations(Handlers)
            \cup Permutations(Inodes)
=============================================================================
