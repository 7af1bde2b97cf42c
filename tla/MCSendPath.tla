----------------------------- MODULE MCSendPath -----------------------------
(***************************************************************************)
(* SendPath on small instances.  The cfgs give senders and refs as model   *)
(* values; neither is ever compared by anything but equality, so both sets *)
(* are symmetric in the runs that check safety only.                       *)
(***************************************************************************)
EXTENDS SendPath

Symmetry == Permutations(Senders) \cup Permutations(Refs)
=============================================================================
