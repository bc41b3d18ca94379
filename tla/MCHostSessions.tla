--------------------------- MODULE MCHostSessions ---------------------------
(* Instances of HostSessions for TLC. *)
EXTENDS HostSessions, TLC

CONSTANTS t1, t2, s1, s2, n1, n2, n3

MCTasks == {t1, t2}
MCSessionIds == {s1, s2}
MCNonces == {n1, n2, n3}
Forward == {1}
BackAndForth == {-1, 1}

(* Tasks, session ids and nonces are interchangeable. *)
Symmetry ==
    Permutations(Tasks) \cup Permutations(SessionIds) \cup Permutations(Nonces)
=============================================================================
