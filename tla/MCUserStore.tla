---------------------------- MODULE MCUserStore ----------------------------
(* Instances of UserStore for TLC. *)
EXTENDS UserStore, TLC

CONSTANTS c1, c2, u1, u2

TwoTasks == {c1, c2}
TwoUsers == {u1, u2}

(* Tasks and users are interchangeable. *)
Symmetry == Permutations(Tasks) \cup Permutations(Users)
=============================================================================
