------------------------------ MODULE MCPortal ------------------------------
(* Three callers, two handles for the DNS task: one alive, one that a       *)
(* faulty start() would create beside it.                                   *)
EXTENDS Portal, TLC

CONSTANTS loop, sysevt, httpd, d1, d2, notask

TwoDns == {d1, d2}
=============================================================================
