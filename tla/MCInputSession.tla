--------------------------- MODULE MCInputSession ---------------------------
(* Instances of InputSession for TLC. *)
EXTENDS InputSession

\* A: 4, PrintScreen: 70 (which has no virtual key), left control: 224.
LetterA == 4
PrintScreen == 70
LeftControl == 224

TwoButtons == {1, 3}
AllKeys == {LetterA, PrintScreen, LeftControl}
KnownKeys == {LetterA, LeftControl}
Positions == {-1, 1, 3}
Screens == {[left |-> 10, width |-> 2], [left |-> 0, width |-> 3], [left |-> 5, width |-> 0]}
OneScreen == {[left |-> 10, width |-> 2]}
OnePosition == {1}
=============================================================================
