------------------------------ MODULE Rotation ------------------------------
(***************************************************************************)
(* The copies of the device token and what becomes of them when the server  *)
(* replaces it in a heartbeat answer (src/src/core/pulsync_heartbeat.c):    *)
(* the one in NVS, the one the transport sends with HTTP requests, the one  *)
(* enrollment keeps in RAM and OTA derives its key from, and the password   *)
(* of the MQTT client, which esp_mqtt keeps for its own reconnections.      *)
(* A token is the number of its grant; 0 is none.                           *)
(***************************************************************************)
EXTENDS Integers

CONSTANTS
  Careful,    \* the server withdraws a token once it has seen the next one
  NvsFails,   \* a token may not reach NVS
  MaxTokens,  \* bound on tokens granted
  MaxDrops,   \* bound on links lost and answers lost
  MaxBoots    \* bound on restarts

RotationAssumption ==
  /\ Careful \in BOOLEAN /\ NvsFails \in BOOLEAN
  /\ MaxTokens \in Nat \ {0} /\ MaxDrops \in Nat /\ MaxBoots \in Nat

VARIABLES
  nvs,       \* PULSYNC_NVS_KEY_TOKEN
  http,      \* device_token of s_config
  ram,       \* s_device_token of pulsync_enroll.c
  password,  \* of the MQTT client; 0 is no client
  connected, \* the client is connected
  token_ok,  \* _token_ok
  st,        \* "enroll" or "done"
  valid,     \* tokens the server accepts
  newest,    \* the last token it granted
  shown,     \* it has been sent the newest one
  drops, boots

device == <<nvs, http, ram, password, connected, token_ok, st>>
vars == <<device, valid, newest, shown, drops, boots>>

Bounded == UNCHANGED <<drops, boots>>

-----------------------------------------------------------------------------
(* Mutants, used by no action. *)

\* a failed probe erases the token as well
MutProbeFails ==
  /\ st = "done" /\ ~token_ok /\ drops < MaxDrops
  /\ drops' = drops + 1
  /\ nvs' = 0 /\ http' = 0 /\ ram' = 0 /\ st' = "enroll"
  /\ UNCHANGED <<password, connected, token_ok, valid, newest, shown, boots>>

-----------------------------------------------------------------------------
(* pulsync_heartbeat_handle_response: the answer to a heartbeat or a probe. *)

StoreNew(t) == nvs' = t \/ (NvsFails /\ nvs' = nvs)

UseNew(t) == http' = t

Grant == newest < MaxTokens /\ newest' = newest + 1 /\ valid' = valid \cup {newest'} /\ shown' = FALSE

Sees(t) == shown' = (shown \/ t = newest) /\ UNCHANGED <<valid, newest>>

(* Over MQTT the old password has been accepted when the client connected.  *)
Rotated ==
  /\ connected /\ st = "done"
  /\ Grant /\ StoreNew(newest') /\ UseNew(newest')
  /\ UNCHANGED <<ram, password, connected, token_ok, st>> /\ Bounded

(* The answer with the new token is lost on the way. *)
RotationLost ==
  /\ connected /\ Grant /\ drops < MaxDrops /\ drops' = drops + 1
  /\ UNCHANGED <<device, boots>>

(* The server stops accepting all tokens but the newest. *)
Withdraw ==
  /\ newest # 0 /\ valid # {newest} /\ (Careful => shown)
  /\ valid' = {newest}
  /\ UNCHANGED <<device, newest, shown>> /\ Bounded

-----------------------------------------------------------------------------
(* Enrollment, the probe, the client.                                       *)

Enroll ==
  /\ st = "enroll" /\ newest < MaxTokens
  /\ newest' = newest + 1 /\ valid' = {newest'} /\ shown' = FALSE
  /\ nvs' = newest' /\ http' = newest' /\ ram' = newest' /\ st' = "done"
  /\ UNCHANGED <<password, connected, token_ok>> /\ Bounded

ProbeAccepted ==
  /\ st = "done" /\ ~token_ok /\ http \in valid
  /\ token_ok' = TRUE
  /\ \/ Sees(http) /\ UNCHANGED <<nvs, http>>
     \/ Grant /\ StoreNew(newest') /\ UseNew(newest')
  /\ UNCHANGED <<ram, password, connected, st>> /\ Bounded

(* No answer, or one that is neither 2xx nor 401. *)
ProbeFails ==
  /\ st = "done" /\ ~token_ok /\ drops < MaxDrops /\ drops' = drops + 1
  /\ UNCHANGED <<device, valid, newest, shown, boots>>

(* recoverEnrollment. *)
Forget == nvs' = 0 /\ http' = 0 /\ ram' = 0 /\ st' = "enroll"

Recover ==
  /\ Forget
  /\ password' = 0 /\ connected' = FALSE /\ token_ok' = FALSE
  /\ UNCHANGED <<valid, newest, shown>> /\ Bounded

ProbeRefused == st = "done" /\ ~token_ok /\ http \notin valid /\ Recover

Start ==
  /\ st = "done" /\ token_ok /\ password = 0
  /\ password' = http
  /\ UNCHANGED <<nvs, http, ram, connected, token_ok, st, valid, newest, shown>> /\ Bounded

(* The client connects, and reconnects, with the password it was made with. *)
Connect ==
  /\ password # 0 /\ ~connected /\ password \in valid
  /\ connected' = TRUE /\ Sees(password)
  /\ UNCHANGED <<nvs, http, ram, password, token_ok, st>> /\ Bounded

ConnectRefused == password # 0 /\ ~connected /\ password \notin valid /\ Recover

LinkLost ==
  /\ connected /\ drops < MaxDrops
  /\ connected' = FALSE /\ drops' = drops + 1
  /\ UNCHANGED <<nvs, http, ram, password, token_ok, st, valid, newest, shown, boots>>

(* pulsync_enroll_check. *)
BootState == st' = IF nvs = 0 THEN "enroll" ELSE "done"

Restart ==
  /\ boots < MaxBoots /\ boots' = boots + 1
  /\ http' = nvs /\ ram' = nvs
  /\ password' = 0 /\ connected' = FALSE /\ token_ok' = FALSE
  /\ BootState
  /\ UNCHANGED <<nvs, valid, newest, shown, drops>>

RotationInit ==
  /\ nvs = 0 /\ http = 0 /\ ram = 0 /\ password = 0
  /\ connected = FALSE /\ token_ok = FALSE /\ st = "enroll"
  /\ valid = {} /\ newest = 0 /\ shown = FALSE /\ drops = 0 /\ boots = 0

Progress == Enroll \/ ProbeAccepted \/ ProbeRefused \/ Start \/ Connect \/ ConnectRefused

RotationNext ==
  \/ Progress
  \/ Rotated \/ RotationLost \/ Withdraw \/ ProbeFails \/ LinkLost \/ Restart

RotationFairness == WF_vars(Progress)
RotationSpec == RotationInit /\ [][RotationNext]_vars /\ RotationFairness

-----------------------------------------------------------------------------
(* The types. *)
RotationTypeOK ==
  /\ {nvs, http, ram, password, newest} \subseteq 0 .. MaxTokens
  /\ connected \in BOOLEAN /\ token_ok \in BOOLEAN /\ shown \in BOOLEAN
  /\ st \in {"enroll", "done"} /\ valid \subseteq 1 .. newest
  /\ drops \in 0 .. MaxDrops /\ boots \in 0 .. MaxBoots
  /\ st = "done" => http # 0

(* A device is unpaired only when the server has withdrawn the token that   *)
(* its requests carry: PulsyncClass.cpp:400, "Wi-Fi drops, broker restarts, *)
(* and HTTP 5xx never reach this."                                          *)
ErasesWithdrawn == http # 0 /\ http' = 0 => http \notin valid
OnlyWithdrawnErased == [][ErasesWithdrawn]_vars

(* A restart at any time finds a token that is as good as the one in use.   *)
RestartIsSafe == http \in valid => nvs \in valid

(* The key of OTA offers is that of the token in use: README.md:165, "so    *)
(* rotating the token rotates the key automatically".                       *)
KeyFollows == st = "done" => ram = http

(* However the rotations, losses and restarts fall, the device ends up      *)
(* connected with a token that is accepted, or the grants run out.          *)
Reconnects == <>[](connected /\ password # 0) \/ <>[](st = "enroll" /\ newest = MaxTokens)
=============================================================================
