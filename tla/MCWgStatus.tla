----------------------------- MODULE MCWgStatus -----------------------------
(***************************************************************************)
(* A small instance of WgStatus for TLC: time passes and the manifest is   *)
(* loaded twice, or boxes are torn down and built while it stands still.   *)
(***************************************************************************)
EXTENDS WgStatus, TLC

ClockOrBoxes ==
  {[now |-> 4, builds |-> 1, loads |-> 2], [now |-> 1, builds |-> 2, loads |-> 2]}

\* Students, addresses and polls are interchangeable.
Symmetry == Permutations(Student) \cup Permutations(Ip) \cup Permutations(Poll)

=============================================================================
