------------------------------- MODULE Timers -------------------------------
(* What the scheduler promises (src/src/core/pulsync_scheduler.h), in a     *)
(* time that never wraps: a timer is started when it is due and no earlier, *)
(* one at a time; a timeout goes after it has run, an interval is due again *)
(* its interval after the pass that ran it; a cancelled timer is gone.      *)
(* Identifiers of active timers are distinct and not zero.                  *)
EXTENDS Naturals

CONSTANTS Ids, Delays

VARIABLES
  clock,
  timers,  \* the active timers: a function from their identifiers
  running  \* the timer whose callback runs, or 0

vars == <<clock, timers, running>>

Active == DOMAIN timers
Without(id) == [i \in Active \ {id} |-> timers[i]]

Init == clock = 0 /\ Active = {} /\ running = 0

TimePasses == clock' = clock + 1 /\ UNCHANGED <<timers, running>>

Set ==
  \E id \in Ids \ Active, k \in {"TIMEOUT", "INTERVAL"}, d \in Delays :
    /\ timers' = [i \in Active \cup {id} |->
                    IF i = id THEN [type |-> k, every |-> d, due |-> clock + d] ELSE timers[i]]
    /\ UNCHANGED <<clock, running>>

Cancel == \E id \in Active : timers' = Without(id) /\ UNCHANGED <<clock, running>>

Start ==
  /\ running = 0
  /\ \E id \in Active : timers[id].due <= clock /\ running' = id
  /\ UNCHANGED <<clock, timers>>

Again(id) ==
  \E t \in timers[id].due .. clock :
    timers' = [timers EXCEPT ![id].due = t + timers[id].every]

Finish ==
  /\ running # 0
  /\ running' = 0
  /\ \/ running \notin Active /\ UNCHANGED timers
     \/ running \in Active /\ timers[running].type = "TIMEOUT" /\ timers' = Without(running)
     \/ running \in Active /\ timers[running].type = "INTERVAL" /\ Again(running)
  /\ UNCHANGED clock

Spec == Init /\ [][TimePasses \/ Set \/ Cancel \/ Start \/ Finish]_vars
=============================================================================
