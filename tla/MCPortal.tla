------------------------------ MODULE MCPortal ------------------------------
(***************************************************************************)
(* Small instances of Portal for TLC: two clients of one member of staff   *)
(* or of two, or of a student, from before the first login or enrolled.    *)
(***************************************************************************)
EXTENDS Portal, TLC

CONSTANTS c1, c2, ann, bob, sue, b1, b2

Scene(u, v, r, s, profiled, auth, writes) ==
  [who |-> (c1 :> u) @@ (c2 :> v),
   role |-> (ann :> r) @@ (bob :> s) @@ (sue :> "student"),
   profiled |-> profiled, auth |-> auth, writes |-> writes]

SmallScenarios ==
  { Scene(ann, ann, "instructor", "instructor", {sue}, 3, 1),
    Scene(ann, sue, "admin", "instructor", {sue}, 3, 1),
    Scene(sue, sue, "instructor", "instructor", {}, 3, 0),
    Scene(ann, bob, "instructor", "instructor", {sue}, 0, 2),
    Scene(ann, bob, "instructor", "admin", {sue}, 0, 2),
    Scene(sue, sue, "instructor", "instructor", {sue}, 0, 2) }

TwoBatches == (b1 :> ann) @@ (b2 :> bob)
SueInFirst == (b1 :> {sue}) @@ (b2 :> {})

=============================================================================
