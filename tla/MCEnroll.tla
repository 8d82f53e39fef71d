------------------------------ MODULE MCEnroll ------------------------------
(* Model values and symmetry for the enrollment runs. *)
EXTENDS Enroll, TLC

CONSTANTS loop, httpd, t1, t2, c1, c2, nocode, notask

LoopOnly == {loop}
LoopAndPortal == {loop, httpd}
TwoTasks == {t1, t2}
OneCode == {c1}
TwoCodes == {c1, c2}

TaskSymmetry == Permutations(TwoTasks)
=============================================================================
