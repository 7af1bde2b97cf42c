----------------------------- MODULE MCExamples -----------------------------
(***************************************************************************)
(* The command lines of the example programs that a small instance runs:   *)
(* every mode of the frame loops, with and without capabilities; a raw     *)
(* burst of three is more than the two buffers and the client hold.        *)
(***************************************************************************)
EXTENDS Examples

Named(name) ==
  [name |-> name, burst |-> 3, caps |-> 0, raw |-> FALSE, sequential |-> FALSE,
   soak |-> FALSE]

MCPrograms ==
  {[Named("paced") EXCEPT !.caps = caps, !.sequential = sequential] :
     caps \in {0, 2}, sequential \in BOOLEAN}
  \cup {[Named("paced") EXCEPT !.raw = TRUE, !.burst = burst, !.sequential = sequential] :
           burst \in {2, 3}, sequential \in BOOLEAN}
  \cup {[Named("timeline") EXCEPT !.caps = caps] : caps \in {0, 1}}
  \cup {[Named("bench") EXCEPT !.soak = soak] : soak \in BOOLEAN}
  \cup {Named(name) : name \in {"fdcost", "bound", "ordering"}}
=============================================================================
