------------------------------ MODULE MCLocal ------------------------------
(* What the device does at the place where it stands: the networks it joins *)
(* and the captive portal, its tasks and what it shows.  The parts share no *)
(* variable here, so a behaviour moves the one that scenario names and the  *)
(* others stay as they start.  The session has two scenarios: a portal that *)
(* opens when it is closed ("calm"), and one that the networks may ask for  *)
(* at any time, while other tasks go on ("any").                            *)
EXTENDS MCWifi, MCPortal

CONSTANTS MaxSaves, MaxHashes, MaxOpenings  \* of PortalSession

VARIABLES
  scenario,
  status, mode, gate, session, cookie, shown, stored, needed, copied, handler,
  enrolled, token, hash, opening, born, logins, saves, hashes

Calmly == INSTANCE PortalSession WITH
  state <- status, list <- shown, store <- stored, httpd <- handler,
  FailStates <- {"STOPPED"}, Interrupts <- FALSE, Pushes <- FALSE

AnyTime == INSTANCE PortalSession WITH
  state <- status, list <- shown, store <- stored, httpd <- handler,
  FailStates <- {"STOPPED", "RUNNING", "CREDENTIALS_RECEIVED"}, Interrupts <- TRUE, Pushes <- TRUE

ASSUME LocalAssumption == Calmly!SessionAssumption /\ AnyTime!SessionAssumption

sessionVars ==
  <<status, mode, gate, session, cookie, shown, stored, needed, copied, handler,
    enrolled, token, hash, opening, born, logins, saves, hashes>>
LocalVars == <<scenario, vars, portalVars, sessionVars>>

LocalInit ==
  /\ scenario \in {"wifi", "portal", "calm", "any"}
  /\ WifiInit /\ PortalInit /\ Calmly!Init

LocalNext ==
  /\ UNCHANGED scenario
  /\ \/ scenario = "wifi" /\ WifiNext /\ UNCHANGED <<portalVars, sessionVars>>
     \/ scenario = "portal" /\ PortalNext /\ UNCHANGED <<vars, sessionVars>>
     \/ /\ \/ scenario = "calm" /\ Calmly!Next
           \/ scenario = "any" /\ AnyTime!Next
        /\ UNCHANGED <<vars, portalVars>>

(* The fairness of WifiManager and of Portal, each in its scenario. *)
LocalFairness ==
  /\ WF_vars(scenario = "wifi" /\ Handles) /\ WF_vars(scenario = "wifi" /\ Tick)
  /\ WF_vars(scenario = "wifi" /\ (Links \/ AttemptFails))
  /\ WF_vars(scenario = "wifi" /\ Begin) /\ WF_vars(scenario = "wifi" /\ HandlerGoesOn)
  /\ \A p \in Callers : WF_portalVars(scenario = "portal" /\ StartGoesOn(p))
  /\ WF_portalVars(scenario = "portal" /\ StopGoesOn)
  /\ WF_portalVars(scenario = "portal" /\ Dns) /\ WF_portalVars(scenario = "portal" /\ PortFrees)

LocalSpec == LocalInit /\ [][LocalNext]_LocalVars /\ LocalFairness

-----------------------------------------------------------------------------
(* The types of WifiManager and Portal. *)
LocalTypeOK == WifiTypeOK /\ PortalTypeOK

(* If in the end a network in reach is in use and no list waits for Exit,   *)
(* the device connects and stays connected (pulsync_wifi.c:134).            *)
WifiEndsConnected == scenario = "wifi" => EndsConnected

(* Whoever keeps holding the button gets a portal (pulsync_portal.c, the    *)
(* attempts of start() and what stop() leaves behind).                      *)
PortalKeepsOpening == scenario = "portal" => KeepsOpening

(* A session belongs to the opening it was made in, whichever task opened   *)
(* the portal and in whatever state it was (pulsync_portal.c:948, "a prior  *)
(* unlock never carries over to a new config session").  Where calls do not *)
(* overlap, the pages show the list in the store (pulsync_portal.h:104,     *)
(* "Called before start (and after any change)"), mode and password of an   *)
(* open portal stay as they are (:81 and :110, "Call before start"), and    *)
(* after a factory reset the device starts with nothing stored              *)
(* (pulsync_portal.c:532, "Device is erasing settings and restarting").     *)
SessionIsCurrent ==
  /\ []AnyTime!SessionOfThisOpening
  /\ [](scenario = "calm" => Calmly!ListShown)
  /\ [][scenario = "calm" => Calmly!KeepsMenu /\ Calmly!RestartsFresh]_sessionVars
=============================================================================
