---------------------------- MODULE MCAllocation ----------------------------
(***************************************************************************)
(* Small instances of Allocation for TLC.                                  *)
(***************************************************************************)
EXTENDS Allocation, TLC

\* Reservations are interchangeable: no action compares two of them.
ReqSymmetry == Permutations(Req)

=============================================================================
