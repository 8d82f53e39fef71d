------------------------------ MODULE MCServer ------------------------------
(* The device and its server over a long time: which host and broker it     *)
(* talks to, with which token, with which firmware, and the restart on      *)
(* command.  The parts share no variable here, so a behaviour moves the one *)
(* that scenario names and the others stay as they start.  Target and       *)
(* Rotation have several scenarios, which differ in their constants; those  *)
(* of "fixed" are in the cfg.                                               *)
EXTENDS MCOta, MCTarget

CONSTANTS
  MaxTokens, MaxDrops, MaxResets,      \* of Rotation
  MaxHandlers, Delay, Wrap, Slow       \* of Commands

VARIABLES
  scenario,
  kept, request, ram, password, connected, confirmed, enrollment, valid, newest, shown,
  drops, resets,                                                      \* of Rotation
  table, adding, at, message, known, calls, reboot_at, clock, since, received, restarted

(* A search for a server. *)
Searching == INSTANCE Target WITH
  Pinned <- "none", Advertised <- CloudOnly, MaxForms <- 0, MaxBoots <- 0

(* A server that withdraws a token only when it has seen the next one, and  *)
(* one that withdraws at any time, to a device whose flash may fail.        *)
Prudent == INSTANCE Rotation WITH
  nvs <- kept, http <- request, token_ok <- confirmed, st <- enrollment, boots <- resets,
  Careful <- TRUE, NvsFails <- FALSE, MaxBoots <- MaxResets

Abrupt == INSTANCE Rotation WITH
  nvs <- kept, http <- request, token_ok <- confirmed, st <- enrollment, boots <- resets,
  Careful <- FALSE, NvsFails <- TRUE, MaxBoots <- MaxResets

(* One reboot command, with time enough for millis() to wrap. *)
Rebooter == INSTANCE Commands WITH
  Names <- {"reboot"}, Messages <- {<<[name |-> "reboot", value |-> 0]>>}, MaxMessages <- 1

ASSUME ServerAssumption ==
  /\ Searching!TargetAssumption
  /\ Prudent!RotationAssumption /\ Abrupt!RotationAssumption
  /\ Rebooter!CommandsAssumption

tokenVars ==
  <<kept, request, ram, password, connected, confirmed, enrollment, valid, newest, shown,
    drops, resets>>
commandVars ==
  <<table, adding, at, message, known, calls, reboot_at, clock, since, received, restarted>>
ServerVars == <<scenario, vars, targetVars, tokenVars, commandVars>>

ServerInit ==
  /\ \/ scenario \in {"ota", "fixed", "prudent", "abrupt", "reboot"} /\ TargetInit
     \/ scenario = "searching" /\ Searching!TargetInit
  /\ Delivered /\ Prudent!RotationInit /\ Rebooter!Init

ServerNext ==
  /\ UNCHANGED scenario
  /\ \/ scenario = "ota" /\ OtaNext /\ UNCHANGED <<targetVars, tokenVars, commandVars>>
     \/ /\ \/ scenario = "fixed" /\ TargetNext
           \/ scenario = "searching" /\ Searching!TargetNext
        /\ UNCHANGED <<vars, tokenVars, commandVars>>
     \/ /\ \/ scenario = "prudent" /\ Prudent!RotationNext
           \/ scenario = "abrupt" /\ Abrupt!RotationNext
        /\ UNCHANGED <<vars, targetVars, commandVars>>
     \/ scenario = "reboot" /\ Rebooter!Next /\ UNCHANGED <<vars, targetVars, tokenVars>>

(* The fairness of Ota, Target, Rotation and Commands, each in its scenario. *)
ServerFairness ==
  /\ WF_vars(scenario = "ota" /\ \E c \in Callers : Offered(c))
  /\ \A c \in Callers : WF_vars(scenario = "ota" /\ StartGoesOn(c))
  /\ \A t \in Tasks : WF_vars(scenario = "ota" /\ Download(t))
  /\ WF_vars(scenario = "ota" /\ (Boot \/ BootFails \/ OtaInit))
  /\ WF_targetVars(scenario = "fixed" /\ Enrolls)
  /\ WF_targetVars(scenario = "fixed" /\ LoopGoesOn)
  /\ WF_targetVars(scenario = "fixed" /\ RxDials)
  /\ WF_targetVars(scenario = "fixed" /\ HeartbeatPush)
  /\ WF_tokenVars(scenario = "abrupt" /\ Abrupt!Progress)
  /\ WF_commandVars(scenario = "reboot" /\ ~restarted /\ Rebooter!Dispatch)
  /\ WF_commandVars(scenario = "reboot" /\ ~restarted /\ Rebooter!Restart)
  /\ WF_commandVars(scenario = "reboot" /\ ~restarted /\ Rebooter!Tick)

ServerSpec == ServerInit /\ [][ServerNext]_ServerVars /\ ServerFairness

-----------------------------------------------------------------------------
(* The types of Target and Rotation; OtaInv has those of Ota. *)
ServerTypeOK ==
  /\ IF scenario = "searching" THEN Searching!TargetTypeOK ELSE TargetTypeOK
  /\ Prudent!RotationTypeOK

(* Whatever fails, finitely often, the device in the end runs the newest    *)
(* version and stays with it (pulsync_ota.c:506, the rollback of an image   *)
(* that does not boot, and the server that repeats its offer).              *)
OtaEndsUpdated == scenario = "ota" => EndsUpdated

(* In a search, requests go to the server last set, once no name is being   *)
(* resolved (pulsync_transport.h:175, "Update server configuration (HTTP    *)
(* target)"), and one that names no broker is served by the derived one     *)
(* (pulsync_enroll.c:287, "we keep deriving").  With a fixed server the     *)
(* device ends up on the broker that this names, wherever it has moved      *)
(* (PulsyncClass.cpp:1113, "broker relocation/migration").                  *)
TargetFollowsServer ==
  /\ [](scenario = "searching" => DerivesWhenUntold /\ HostIsTarget)
  /\ scenario = "fixed" => FollowsServer

(* A device is unpaired only when the server has withdrawn the token that   *)
(* its requests carry (PulsyncClass.cpp:400, "Wi-Fi drops, broker restarts, *)
(* and HTTP 5xx never reach this"), and a restart at any time finds a token *)
(* that is as good as the one in use.  Where the server withdraws tokens    *)
(* that the device has not replaced, the device still ends up connected, or *)
(* the grants run out (pulsync_heartbeat.c:183, "Credential rotation").     *)
TokenLasts ==
  /\ [](scenario = "prudent" => Prudent!RestartIsSafe)
  /\ [][scenario = "prudent" => Prudent!ErasesWithdrawn]_tokenVars
  /\ scenario = "abrupt" => Abrupt!Reconnects

(* A reboot that has been taken is carried out, across the wraparound of    *)
(* millis() too, and a full second after the handler of the command has     *)
(* returned (PulsyncClass.cpp:1101, "A user on("reboot") handler above runs *)
(* first (save state, turn outputs off)").                                  *)
RestartIsDone ==
  Rebooter!RestartAfterHandler /\ (scenario = "reboot" => Rebooter!TakenIsDone)
=============================================================================
