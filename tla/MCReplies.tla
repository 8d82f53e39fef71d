----------------------------- MODULE MCReplies -----------------------------
(* What the server's answers bring: values of the configuration, commands,  *)
(* and the sign that the server is there.  The parts share no state, so a   *)
(* behaviour moves the one that scenario names and the others stay as they  *)
(* start.                                                                   *)
EXTENDS MCConfig, Heartbeat

(* Those of Commands. *)
CONSTANTS Names, Messages, MaxHandlers, Delay, Turn, Slow, MaxMessages

VARIABLES
  scenario,
  table, adding, at, message, known, calls, reboot_at, ticks, since, received, restarted

Dispatcher == INSTANCE Commands WITH clock <- ticks, Wrap <- Turn

ASSUME RepliesAssumption == HeartbeatAssumption /\ Dispatcher!CommandsAssumption

commandVars ==
  <<table, adding, at, message, known, calls, reboot_at, ticks, since, received, restarted>>
RepliesVars == <<scenario, configVars, vars, commandVars>>

(* One command in a message. *)
Led(v) == [name |-> "led", value |-> v]
RebootCommand == [name |-> "reboot", value |-> 0]
OneCommand == {<<Led(1)>>, <<Led(2)>>, <<RebootCommand>>}

(* One interval that is too short, and one that is taken. *)
ShortAndLong == {0, 2}

RepliesInit ==
  /\ scenario \in {"config", "heartbeat", "command"}
  /\ ConfigInit /\ (scenario # "config" => firmware = 1)
  /\ HeartbeatInit /\ Dispatcher!Init

RepliesNext ==
  /\ UNCHANGED scenario
  /\ \/ scenario = "config" /\ ConfigNext /\ UNCHANGED <<vars, commandVars>>
     \/ scenario = "heartbeat" /\ HeartbeatNext /\ UNCHANGED <<configVars, commandVars>>
     \/ scenario = "command" /\ Dispatcher!Next /\ UNCHANGED <<configVars, vars>>

RepliesSpec == RepliesInit /\ [][RepliesNext]_RepliesVars

-----------------------------------------------------------------------------
(* The types of the parts. *)
RepliesTypeOK ==
  ConfigTypeOK /\ HeartbeatTypeOK /\ (scenario = "command" => Dispatcher!CommandsTypeOK)

(* A token that waits is probed within the pause (PulsyncClass.cpp:478),    *)
(* and a heartbeat that runs is sent every interval that MQTT is connected  *)
(* (Pulsync.h:201).                                                         *)
HeartbeatsInTime == ProbedInTime /\ SentEveryInterval

(* A server is given up only if it was down since it answered last, and one *)
(* that answers nothing is given up when the window is over                 *)
(* (PulsyncClass.cpp:510).                                                  *)
SilentGivenUp == AnsweringServerKept /\ SilentServerGivenUp

(* A command calls the handler that on() had registered when it arrived,    *)
(* also while another is being registered (Pulsync.h:158).                  *)
RegisteredIsCalled == scenario = "command" => Dispatcher!RegisteredIsCalled
=============================================================================
