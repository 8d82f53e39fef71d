---------------------------- MODULE MCLifecycle ----------------------------
(* Model values for the runs of the device's lifecycle. *)
EXTENDS Lifecycle, TLC

CONSTANTS loop, httpd, t1, c1, c2, nocode, notask

LoopOnly == {loop}
LoopAndPortal == {loop, httpd}
OneTask == {t1}
OneCode == {c1}
TwoCodes == {c1, c2}

AnyServer == {{"local"}, {"cloud"}, {"local", "cloud"}}
CloudOnly == {{"cloud"}}
AllServers == {{"local", "cloud", "own"}}
AllButOne == AnyServer \cup AllServers

(* A bound on the steps of a run: a form is submitted in a world that has   *)
(* the user's own server, and has no failures; failures and restarts happen *)
(* in the others.                                                           *)
FormsOrFailures ==
  IF "own" \in up THEN faults' = 0 /\ reboots' = 0 ELSE submits' = 0
=============================================================================
