--------------------------- MODULE MCRefRegistry ---------------------------
(***************************************************************************)
(* RefRegistry on small instances.                                         *)
(***************************************************************************)
EXTENDS RefRegistry, TLC

Symmetry == Permutations(Threads) \cup Permutations(Sockets)
            \cup Permutations(Inodes) \cup Permutations(Cells)
=============================================================================
