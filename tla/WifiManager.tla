----------------------------- MODULE WifiManager ----------------------------
(* The WiFi manager (src/src/core/pulsync_wifi.c) with what drives it: the   *)
(* driver's events, tick() in loop(), begin(), and the portal, whose lists   *)
(* go through WifiStore.                                                     *)
(*                                                                          *)
(* Events are handled on sys_evt, which outranks loop() and httpd and is     *)
(* done long before a backoff (1 s) or a link (100 ms) has passed; only the  *)
(* steps of disconnect() come close enough to meet one.  A connect while     *)
(* one is under way is refused, while linked it drops the link first.        *)
EXTENDS WifiStore

CONSTANTS
  Good,       \* networks in reach, with their passwords
  Lists,      \* lists the user saves in the config menu
  Forms,      \* networks the user enters in the enroll form
  MaxRetries, \* MAX_PROFILE_RETRIES
  MaxFaults   \* bound on lost links, failed attempts, cuts and submissions

VARIABLES
  profiles,  \* s_profiles, up to s_profile_count
  state,     \* s_state
  current,   \* s_current_profile, from 1
  retries,   \* s_profile_retries
  due,       \* s_should_reconnect
  radio,     \* the driver: "idle", "connecting" or "linked"
  target,    \* and the network it was configured for
  event,     \* an event sys_evt has not handled: "none", "ip" or "disc"
  portal,    \* "closed", or open in mode "enroll" or "config"
  web,       \* where an httpd handler is that closes the portal
  phase,     \* "off", begin(): "load", "seed", "reload", "start", then "up"
  faults

store   == <<creds, nvs, saver, dropped>>
retry   == <<current, retries, due>>
driver  == <<radio, target, event>>
manager == <<profiles, state, retry>>
vars    == <<store, manager, driver, portal, web, phase, faults>>

ASSUME WifiAssumption ==
  /\ Good \subseteq Cred /\ Lists \subseteq Seq(Cred) /\ Forms \subseteq Cred
  /\ MaxRetries \in Nat \ {0} /\ MaxFaults \in Nat

NoTarget == NoLegacy

Fault == faults < MaxFaults /\ faults' = faults + 1
Calm == event = "none"

-----------------------------------------------------------------------------
(* try_connect_profile *)
TryConnect(i) ==
  IF i > Len(profiles)
  THEN UNCHANGED <<state, radio, target>> /\ event' = "none"
  ELSE /\ state' = "CONNECTING" /\ radio' = "connecting"
       /\ target' = IF radio = "connecting" THEN target ELSE profiles[i]
       /\ event' = IF radio = "linked" THEN "disc" ELSE "none"

ScheduleReconnect == due' = TRUE

(* Mutants, used by no action: a lost link is retried and still reported as *)
(* CONNECTED; the profile past the last one is tried; when all have failed  *)
(* only the portal opens.                                                   *)
MutLosesLink ==
  /\ event = "disc" /\ state = "CONNECTED"
  /\ current' = 1
  /\ ScheduleReconnect /\ event' = "none"
  /\ UNCHANGED <<state, retries, radio, target, portal>>

MutTriesNext ==
  /\ event = "disc" /\ state # "CONNECTED" /\ retries + 1 >= MaxRetries
  /\ current <= Len(profiles)
  /\ retries' = 0 /\ current' = current + 1
  /\ TryConnect(current + 1)
  /\ UNCHANGED <<due, portal>>

MutExhausted ==
  /\ event = "disc" /\ state # "CONNECTED" /\ retries + 1 >= MaxRetries
  /\ current >= Len(profiles)
  /\ retries' = 0 /\ current' = 1
  /\ event' = "none"
  /\ portal' = "enroll"
  /\ UNCHANGED <<state, due, radio, target>>

(* wifi_event_handler, WIFI_EVENT_STA_DISCONNECTED *)
LosesLink ==
  /\ event = "disc" /\ state = "CONNECTED"
  /\ state' = "DISCONNECTED" /\ current' = 1
  /\ ScheduleReconnect /\ event' = "none"
  /\ UNCHANGED <<retries, radio, target, portal>>

Retries ==
  /\ event = "disc" /\ state # "CONNECTED" /\ retries + 1 < MaxRetries
  /\ retries' = retries + 1
  /\ ScheduleReconnect /\ event' = "none"
  /\ UNCHANGED <<state, current, radio, target, portal>>

TriesNext ==
  /\ event = "disc" /\ state # "CONNECTED" /\ retries + 1 >= MaxRetries
  /\ current < Len(profiles)
  /\ retries' = 0 /\ current' = current + 1
  /\ TryConnect(current + 1)
  /\ UNCHANGED <<due, portal>>

Exhausted ==
  /\ event = "disc" /\ state # "CONNECTED" /\ retries + 1 >= MaxRetries
  /\ current >= Len(profiles)
  /\ retries' = 0 /\ current' = 1
  /\ ScheduleReconnect /\ event' = "none"
  /\ portal' = "enroll"
  /\ UNCHANGED <<state, radio, target>>

(* IP_EVENT_STA_GOT_IP *)
GetsIp ==
  /\ event = "ip"
  /\ due' = FALSE /\ state' = "CONNECTED" /\ event' = "none"
  /\ UNCHANGED <<current, retries, radio, target, portal>>

Handles ==
  /\ LosesLink \/ Retries \/ TriesNext \/ Exhausted \/ GetsIp
  /\ UNCHANGED <<store, profiles, web, phase, faults>>

-----------------------------------------------------------------------------
(* The driver: an attempt at a network in reach succeeds unless a fault     *)
(* comes between; one at another network fails.                             *)
Links ==
  /\ Calm /\ radio = "connecting" /\ target \in Good
  /\ radio' = "linked" /\ event' = "ip"
  /\ UNCHANGED <<store, manager, target, portal, web, phase, faults>>

AttemptFails ==
  /\ Calm /\ radio = "connecting"
  /\ (target \notin Good /\ UNCHANGED faults) \/ Fault
  /\ radio' = "idle" /\ event' = "disc"
  /\ UNCHANGED <<store, manager, target, portal, web, phase>>

LinkLost ==
  /\ Calm /\ radio = "linked" /\ Fault
  /\ radio' = "idle" /\ event' = "disc"
  /\ UNCHANGED <<store, manager, target, portal, web, phase>>

(* pulsync_wifi_tick *)
Tick ==
  /\ phase = "up" /\ Calm /\ due
  /\ due' = FALSE
  /\ TryConnect(current)
  /\ UNCHANGED <<store, profiles, current, retries, portal, web, phase, faults>>

-----------------------------------------------------------------------------
(* pulsync_wifi_start *)
Start ==
  IF profiles' = <<>>
  THEN portal' = "enroll" /\ UNCHANGED <<state, retry, driver>>
  ELSE /\ current' = 1 /\ retries' = 0 /\ UNCHANGED <<due, portal>>
       /\ state' = "CONNECTING" /\ radio' = "connecting"
       /\ target' = IF radio = "connecting" THEN target ELSE profiles'[1]
       /\ event' = IF radio = "linked" THEN "disc" ELSE "none"

(* begin(): load, seed, load again, apply, start. *)
Boot ==
  /\ phase = "off" /\ phase' = "load"
  /\ UNCHANGED <<store, manager, driver, portal, web, faults>>

BeginLoads ==
  /\ phase = "load" /\ phase' = "seed"
  /\ Load
  /\ UNCHANGED <<manager, driver, portal, web, faults>>

BeginSeeds ==
  /\ phase = "seed" /\ ~Saving /\ phase' = IF nvs.seeded THEN "start" ELSE "reload"
  /\ Seed
  /\ UNCHANGED <<manager, driver, portal, web, faults>>

BeginReloads ==
  /\ phase = "reload" /\ ~Saving /\ phase' = "start"
  /\ Load
  /\ UNCHANGED <<manager, driver, portal, web, faults>>

BeginStarts ==
  /\ phase = "start" /\ ~Saving /\ phase' = "up"
  /\ profiles' = creds
  /\ Start
  /\ UNCHANGED <<store, web, faults>>

StoreGoesOn ==
  /\ SaveWrites \/ MarkSeeded \/ EraseLegacy
  /\ UNCHANGED <<manager, driver, portal, web, phase, faults>>

-----------------------------------------------------------------------------
(* The portal: the button opens the config menu, whose list is saved and    *)
(* applied, and which Exit closes; the enroll form does all of it at once.  *)
Button ==
  /\ phase = "up" /\ portal = "closed" /\ portal' = "config"
  /\ UNCHANGED <<store, manager, driver, web, phase, faults>>

Request == phase = "up" /\ Calm /\ web = "idle" /\ ~Saving

SaveList ==
  /\ Request /\ portal = "config" /\ Fault
  /\ \E list \in Lists : Replace(list, "menu")
  /\ UNCHANGED <<manager, driver, portal, web, phase>>

(* pulsync_wifi_store_apply, clear_profiles and add_profile included. *)
Apply ==
  /\ profiles' = creds /\ current' = 1 /\ retries' = 0
  /\ UNCHANGED <<state, due, driver>>

ListSaved ==
  /\ Saved("menu") /\ Calm
  /\ UserHasSaved /\ Apply
  /\ UNCHANGED <<portal, web, phase, faults>>

Exit ==
  /\ Request /\ portal = "config"
  /\ web' = "stop"
  /\ UNCHANGED <<store, manager, driver, portal, phase, faults>>

SubmitForm ==
  /\ Request /\ portal = "enroll" /\ Fault
  /\ \E c \in Forms :
       LET Other(old) == IF old.ssid = c.ssid THEN NoLegacy ELSE old
       IN  Replace(AddAll(<<c>>, [i \in 1 .. Len(creds) |-> Other(creds[i])]), "form")
  /\ UNCHANGED <<manager, driver, portal, web, phase>>

FormSaved ==
  /\ saver = [who |-> "form", next |-> 2 * MaxCreds + 3] /\ Calm
  /\ UserHasSaved /\ Apply
  /\ web' = "stop"
  /\ UNCHANGED <<portal, phase, faults>>

PortalStops ==
  /\ web = "stop" /\ web' = "cut"
  /\ portal' = "closed"
  /\ UNCHANGED <<store, manager, driver, phase, faults>>

(* pulsync_wifi_disconnect: the driver's event may be handled before the    *)
(* state is set.                                                            *)
Disconnects ==
  /\ web = "cut" /\ Calm /\ web' = "mark"
  /\ due' = FALSE
  /\ radio' = "idle" /\ event' = IF radio = "idle" THEN "none" ELSE "disc"
  /\ UNCHANGED <<store, profiles, state, current, retries, target, portal, phase, faults>>

Marks ==
  /\ web = "mark" /\ web' = "start"
  /\ state' = "DISCONNECTED"
  /\ UNCHANGED <<store, profiles, retry, driver, portal, phase, faults>>

Restarts ==
  /\ web = "start" /\ Calm /\ web' = "idle"
  /\ UNCHANGED profiles
  /\ Start
  /\ UNCHANGED <<store, phase, faults>>

HandlerGoesOn == ListSaved \/ FormSaved \/ PortalStops \/ Disconnects \/ Marks \/ Restarts

-----------------------------------------------------------------------------
Reset ==
  /\ phase' = "off" /\ StoreReset
  /\ profiles' = <<>> /\ state' = "DISCONNECTED"
  /\ current' = 1 /\ retries' = 0 /\ due' = FALSE
  /\ radio' = "idle" /\ target' = NoTarget /\ event' = "none"
  /\ portal' = "closed" /\ web' = "idle"

PowerCut == phase # "off" /\ Fault /\ Reset /\ UNCHANGED <<nvs, dropped>>

(* pulsync_nvs_erase_all and a restart. *)
FactoryReset ==
  /\ Request /\ portal = "config" /\ Fault
  /\ Reset /\ nvs' = Erased /\ dropped' = {}

WifiInit ==
  /\ StoreInit
  /\ profiles = <<>> /\ state = "DISCONNECTED" /\ current = 1 /\ retries = 0 /\ due = FALSE
  /\ radio = "idle" /\ target = NoTarget /\ event = "none"
  /\ portal = "closed" /\ web = "idle" /\ phase = "off" /\ faults = 0

Begin == Boot \/ BeginLoads \/ BeginSeeds \/ BeginReloads \/ BeginStarts \/ StoreGoesOn
User == Button \/ SaveList \/ Exit \/ SubmitForm \/ FactoryReset

WifiNext ==
  \/ Handles \/ Links \/ AttemptFails \/ LinkLost \/ Tick
  \/ Begin \/ HandlerGoesOn \/ User \/ PowerCut

(* Events are handled, a due tick comes, an attempt ends, begin() and the   *)
(* handlers of the portal go on.                                            *)
WifiSpec == WifiInit /\ [][WifiNext]_vars

WifiFairness ==
  /\ WF_vars(Handles) /\ WF_vars(Tick) /\ WF_vars(Links \/ AttemptFails)
  /\ WF_vars(Begin) /\ WF_vars(HandlerGoesOn)

WifiFairSpec == WifiSpec /\ WifiFairness

-----------------------------------------------------------------------------
(* Types. *)
WifiTypeOK ==
  /\ Len(creds) <= MaxCreds /\ Range(creds) \subseteq Cred
  /\ nvs \in [ssid : [Slots -> Ssids \cup {NoSsid}], pw : [Slots -> Pws], count : 0 .. MaxCreds,
              seeded : BOOLEAN, legacy : Cred \cup {NoLegacy}]
  /\ saver \in [who : {"none", "migrate", "seed", "menu", "form"}, next : 1 .. 2 * MaxCreds + 3]
  /\ Len(profiles) <= MaxCreds /\ current \in 1 .. MaxCreds /\ retries \in 0 .. MaxRetries - 1
  /\ state \in {"DISCONNECTED", "CONNECTING", "CONNECTED"}
  /\ radio \in {"idle", "connecting", "linked"} /\ event \in {"none", "ip", "disc"}
  /\ target \in Cred \cup {NoTarget} /\ portal \in {"closed", "enroll", "config"}

(* While nothing is being saved, the list in use is the one the next boot   *)
(* will load, whatever was cut short before: "NVS is the source of truth    *)
(* once seeded".                                                            *)
ListIsStored == phase = "up" /\ ~Saving => creds = Stored /\ profiles = creds

(* A network the user has left out does not come back, neither from the     *)
(* sketch nor from an older list, across restarts and cuts: "once the       *)
(* portal has written creds, NVS wins and the hardcoded creds are ignored". *)
DroppedStaysDropped == phase = "up" => SsidsOf(profiles) \cap dropped = {}

(* While nothing is being saved the list in use is the one the next boot    *)
(* loads, and a network the user has left out does not come back, whatever  *)
(* was cut short before (pulsync_wifi_store.c:184, the order of the writes).*)
ListSurvives == ListIsStored /\ DroppedStaysDropped

(* A device that reports CONNECTED has a link, or the event that says       *)
(* otherwise is on its way.                                                 *)
ConnectedIsLinked == state = "CONNECTED" /\ Calm => radio = "linked"

(* If in the end a network in reach is in use and no list waits for Exit,   *)
(* the device connects and stays connected.                                 *)
EndsConnected ==
  <>[](phase = "up" /\ portal # "config" /\ Range(profiles) \cap Good # {})
    => <>[](state = "CONNECTED" /\ radio = "linked")
=============================================================================
