---------------------------- MODULE MCStudentBox ----------------------------
(***************************************************************************)
(* Small instances of StudentBox for TLC: which call is for which student. *)
(***************************************************************************)
EXTENDS StudentBox, TLC

CONSTANTS t1, t2, ann, bob

Solo == t1 :> ann
Rivals == (t1 :> ann) @@ (t2 :> bob)
Retry == (t1 :> ann) @@ (t2 :> ann)

\* Calls of the same kind are interchangeable; two provisions are when they are for
\* one student.
OpSymmetry == Permutations(Op)
RetrySymmetry == Permutations(Task) \cup Permutations(Op)

=============================================================================
