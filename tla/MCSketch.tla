------------------------------ MODULE MCSketch ------------------------------
(* What a sketch and its user work with: the queue of messages, the payload *)
(* builder, the timers, the configuration button.  They share no state.  A  *)
(* behaviour moves one of them, which scenario names, while the others stay *)
(* as they start: each is explored in full, and never their product.        *)
EXTENDS OfflineQueue, Scheduler

(* Those of Payload. *)
CONSTANTS Tasks, Room, Short, Slot, Lengths, MaxFields

(* Those of ConfigButton. *)
CONSTANTS Hold, Long, Slow, Pause, MaxFaults

VARIABLES
  scenario,
  enrolled, online, active, len, fields, building, asked, messages,
  down, pressing, since, portal, gap, held, up, served, short, wiped, faults

Builder == INSTANCE Payload
Button == INSTANCE ConfigButton

ASSUME SketchAssumption ==
  Builder!PayloadAssumption /\ Button!ButtonAssumption

payloadVars == <<enrolled, online, active, len, fields, building, asked, messages>>
buttonVars == <<down, pressing, since, portal, gap, held, up, served, short, wiped, faults>>
SketchVars == <<scenario, vars, payloadVars, schedulerVars, buttonVars>>

SketchInit ==
  /\ scenario \in {"queue", "payload", "timers", "button"}
  /\ QueueInit /\ (scenario # "queue" => device_id = "empty")
  /\ Builder!Init /\ SchedulerInit /\ Button!Init

SketchNext ==
  /\ UNCHANGED scenario
  /\ \/ /\ scenario = "queue" /\ QueueNext
        /\ UNCHANGED <<payloadVars, schedulerVars, buttonVars>>
     \/ /\ scenario = "payload" /\ Builder!Next
        /\ UNCHANGED <<vars, schedulerVars, buttonVars>>
     \/ /\ scenario = "timers" /\ SchedulerNext
        /\ UNCHANGED <<vars, payloadVars, buttonVars>>
     \/ /\ scenario = "button" /\ Button!Next
        /\ UNCHANGED <<vars, payloadVars, schedulerVars>>

(* loop() is called for ever, and a callback returns. *)
SketchSpec ==
  /\ SketchInit /\ [][SketchNext]_SketchVars
  /\ WF_schedulerVars(scenario = "timers" /\ Tick)

-----------------------------------------------------------------------------
(* Whatever payload came before it, one that fits the buffer is handed over *)
(* complete (PulsyncClass.cpp:804 leaves room for the brace and the zero),  *)
(* and carries the fields that its own task has added, all of them          *)
(* (Pulsync.h:147, "Grouped payload").                                      *)
PayloadIsComplete == [][Builder!FittingIsWhole']_SketchVars /\ Builder!OwnFields

(* Whoever holds the button for three seconds, and for two passes of loop() *)
(* more, has seen the portal open or fail to; and it opens by the button    *)
(* only when that has been down for three seconds without a break           *)
(* (PulsyncClass.cpp:539, "Hold 3s").                                       *)
HoldOpens == Button!HoldIsServed /\ Button!HeldThroughout

(* The slots keep what the timers promise, across the wraparound of the     *)
(* millisecond counter and whatever the callbacks set and clear, and a      *)
(* timer that is due runs unless it is cancelled (pulsync_scheduler.c:68).  *)
TimersRun == KeepsTimers /\ DueTimersRun
=============================================================================
