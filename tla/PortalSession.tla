--------------------------- MODULE PortalSession ---------------------------
(***************************************************************************)
(* What an opening of the captive portal shows and accepts                  *)
(* (src/src/core/pulsync_portal.c, src/src/PulsyncClass.cpp): its mode, its *)
(* copy of the list of networks and of the password's hash, the session of  *)
(* the browser that has logged in, and the forms, down to the factory       *)
(* reset.                                                                   *)
(*                                                                          *)
(* loop() opens it for the button, sys_evt when all networks have failed    *)
(* (also while it is open: the station goes on in mode APSTA), and the      *)
(* forms run in the task of the HTTP server.  How it opens and closes in    *)
(* detail is the matter of Portal, what the forms do to the enrollment and  *)
(* the server that of Lifecycle.  Lists and hashes are numbers, 0 for none. *)
(***************************************************************************)
EXTENDS Integers

CONSTANTS
  FailStates, \* states of the portal in which the networks may all fail
  Interrupts, \* other tasks may run inside portal_needed_trampoline
  Pushes,     \* the server may answer while a factory reset is under way
  MaxSaves,   \* bound on lists saved
  MaxHashes,  \* bound on passwords issued
  MaxOpenings \* bound on openings, and on logins

SessionAssumption ==
  /\ Interrupts \in BOOLEAN /\ Pushes \in BOOLEAN
  /\ MaxSaves \in Nat /\ MaxHashes \in Nat /\ MaxOpenings \in Nat

VARIABLES
  state,    \* s_state; opening and closing are one step each
  mode,     \* s_mode
  gate,     \* s_gate_hash and s_gate_enrolled
  session,  \* s_session_token, numbered; 0 when it is empty
  cookie,   \* the one the browser holds
  list,     \* s_wifi_list
  store,    \* the list in the WiFi store
  needed,   \* where portal_needed_trampoline is: "idle" or "list"
  copied,   \* the list that it has read
  httpd,    \* where the handler of the HTTP server is
  enrolled, \* the enrollment is DONE
  token,    \* dev_token is in NVS
  hash,     \* cfg_pw_hash in NVS
  opening,  \* openings so far
  born,     \* the opening in which the session was made
  logins, saves, hashes

portal == <<state, mode, gate, session, list>>
nvs == <<store, enrolled, token, hash>>
counts == <<opening, born, logins, saves, hashes>>
vars == <<portal, cookie, needed, copied, httpd, nvs, counts>>

Gated == gate.enrolled /\ gate.hash # 0
Authed == Gated => session # 0 /\ cookie = session

(* Nothing but the trampoline runs while it does, unless it is interrupted. *)
Free == needed = "idle" \/ Interrupts

Requests == Free /\ state = "RUNNING" /\ httpd = "idle"

-----------------------------------------------------------------------------
(* Mutants, used by no action. *)

\* the button opens a portal that is open
MutButtonMay == Free /\ httpd # "reset"

-----------------------------------------------------------------------------
(* pulsync_portal_start and pulsync_portal_stop                             *)

Starts(m) ==
  \/ /\ opening < MaxOpenings /\ opening' = opening + 1
     /\ state' = "RUNNING" /\ mode' = m /\ session' = 0
  \/ state' = "STOPPED" /\ mode' = m /\ session' = 0 /\ UNCHANGED opening

Stops == state' = "STOPPED" /\ session' = 0

(* pulsync_portal_set_gate *)
SetGate == gate' = [hash |-> hash, enrolled |-> enrolled]

-----------------------------------------------------------------------------
(* loop(): the button has been held. *)

ButtonMay == Free /\ state # "RUNNING"

ButtonOpens ==
  /\ ButtonMay
  /\ list' = store /\ SetGate
  /\ Starts("CONFIG")
  /\ UNCHANGED <<cookie, needed, copied, httpd, nvs, born, logins, saves, hashes>>

-----------------------------------------------------------------------------
(* portal_needed_trampoline, in sys_evt. *)

NetworksFail ==
  /\ needed = "idle" /\ state \in FailStates
  /\ needed' = "list" /\ copied' = store /\ mode' = "ENROLL"
  /\ UNCHANGED <<state, gate, session, list, cookie, httpd, nvs, counts>>

NeededOpens ==
  /\ needed = "list" /\ needed' = "idle"
  /\ list' = copied /\ SetGate
  /\ IF state = "RUNNING" THEN UNCHANGED <<state, mode, session, opening>>
                          ELSE Starts(mode)
  /\ UNCHANGED <<cookie, copied, httpd, nvs, born, logins, saves, hashes>>

-----------------------------------------------------------------------------
(* The forms. *)

(* A wrong password leaves everything as it is. *)
Login ==
  /\ Requests /\ Gated /\ logins < MaxOpenings
  /\ logins' = logins + 1
  /\ session' = logins' /\ cookie' = logins' /\ born' = opening
  /\ UNCHANGED <<state, mode, gate, list, needed, copied, httpd, nvs, opening, saves, hashes>>

WifiSave ==
  /\ Requests /\ Authed /\ saves < MaxSaves
  /\ saves' = saves + 1 /\ store' = saves'
  /\ httpd' = "saved"
  /\ UNCHANGED <<portal, cookie, needed, copied, enrolled, token, hash, opening, born, logins, hashes>>

SaveShown ==
  /\ Free /\ httpd = "saved" /\ httpd' = "idle"
  /\ list' = store
  /\ UNCHANGED <<state, mode, gate, session, cookie, needed, copied, nvs, counts>>

(* The enroll form: the credentials are received, then stored. *)
Submit ==
  /\ Requests /\ Authed /\ saves < MaxSaves
  /\ state' = "CREDENTIALS_RECEIVED" /\ httpd' = "submit"
  /\ UNCHANGED <<mode, gate, session, list, cookie, needed, copied, nvs, counts>>

SubmitEnds ==
  /\ Free /\ httpd = "submit" /\ httpd' = "idle"
  /\ saves' = saves + 1 /\ store' = saves'
  /\ Stops
  /\ UNCHANGED <<mode, gate, list, cookie, needed, copied, enrolled, token, hash,
                 opening, born, logins, hashes>>

RePair ==
  /\ Requests /\ Authed
  /\ enrolled' = FALSE /\ token' = FALSE /\ hash' = 0
  /\ Stops
  /\ UNCHANGED <<mode, gate, list, cookie, needed, copied, httpd, store, counts>>

Exit ==
  /\ Requests /\ Authed
  /\ Stops
  /\ UNCHANGED <<mode, gate, list, cookie, needed, copied, httpd, nvs, counts>>

(* factory_reset_trampoline: NVS is erased, and half a second later the     *)
(* device restarts.                                                         *)
Erases == hash' = 0 /\ token' = FALSE /\ store' = 0

FactoryReset ==
  /\ Requests /\ Authed
  /\ Erases
  /\ httpd' = "reset"
  /\ UNCHANGED <<portal, cookie, needed, copied, enrolled, counts>>

Restart ==
  /\ httpd = "reset" /\ httpd' = "idle"
  /\ state' = "STOPPED" /\ mode' = "ENROLL" /\ session' = 0 /\ list' = 0
  /\ gate' = [hash |-> 0, enrolled |-> FALSE]
  /\ needed' = "idle" /\ copied' = 0
  /\ enrolled' = token
  /\ UNCHANGED <<cookie, store, token, hash, counts>>

-----------------------------------------------------------------------------
(* Enrollment and the server, as far as they write what is shown here.      *)

Online == Free /\ (httpd = "reset" => Pushes)

EnrollmentDone ==
  /\ Online /\ ~enrolled /\ hashes < MaxHashes
  /\ enrolled' = TRUE /\ token' = TRUE
  /\ hashes' = hashes + 1 /\ hash' = hashes'
  /\ UNCHANGED <<portal, cookie, needed, copied, httpd, store, opening, born, logins, saves>>

(* recoverEnrollment *)
TokenRejected ==
  /\ Online /\ enrolled
  /\ enrolled' = FALSE /\ token' = FALSE
  /\ UNCHANGED <<portal, cookie, needed, copied, httpd, store, hash, counts>>

(* A heartbeat reply that carries the hash of the password. *)
HashPushed ==
  /\ Online /\ enrolled
  /\ \/ hashes < MaxHashes /\ hashes' = hashes + 1
     \/ UNCHANGED hashes
  /\ hash' = hashes'
  /\ UNCHANGED <<portal, cookie, needed, copied, httpd, store, enrolled, token,
                 opening, born, logins, saves>>

(* One that carries a new token. *)
TokenRotated ==
  /\ Online /\ enrolled
  /\ token' = TRUE
  /\ UNCHANGED <<portal, cookie, needed, copied, httpd, store, enrolled, hash, counts>>

Init ==
  /\ state = "STOPPED" /\ mode = "ENROLL" /\ session = 0 /\ cookie = 0
  /\ gate = [hash |-> 0, enrolled |-> FALSE]
  /\ list = 0 /\ store = 0 /\ needed = "idle" /\ copied = 0 /\ httpd = "idle"
  /\ enrolled = FALSE /\ token = FALSE /\ hash = 0
  /\ opening = 0 /\ born = 0 /\ logins = 0 /\ saves = 0 /\ hashes = 0

Next ==
  \/ ButtonOpens \/ NetworksFail \/ NeededOpens
  \/ Login \/ WifiSave \/ SaveShown \/ Submit \/ SubmitEnds
  \/ RePair \/ Exit \/ FactoryReset \/ Restart
  \/ EnrollmentDone \/ TokenRejected \/ HashPushed \/ TokenRotated

SessionSpec == Init /\ [][Next]_vars

-----------------------------------------------------------------------------
(* What two of the properties say of a step. *)
KeepsMenu == state = "RUNNING" /\ state' = "RUNNING" => mode' = mode /\ gate' = gate

RestartsFresh ==
  httpd = "reset" /\ httpd' = "idle" => ~enrolled' /\ ~token' /\ hash' = 0 /\ store' = 0

(* A session belongs to the opening it was made in, whichever task opened   *)
(* the portal and in whatever state it was (pulsync_portal.c:948, "a prior  *)
(* unlock never carries over to a new config session").                     *)
SessionOfThisOpening == session # 0 => born = opening /\ state # "STOPPED"

(* Between requests the list that the pages show is the one in the store    *)
(* (pulsync_portal.h:104, "Called before start (and after any change)").     *)
ListShown ==
  state = "RUNNING" /\ httpd = "idle" /\ needed = "idle" => list = store

(* While the portal is open its mode and its password stay as they are      *)
(* (pulsync_portal.h:81 and :110, "Call before start").                     *)
MenuStays == [][KeepsMenu]_vars

(* The portal that opens by itself asks for no password (pulsync_portal.h:  *)
(* 114, "ENROLL mode is never gated").                                      *)
EnrollNotGated == state = "RUNNING" /\ mode = "ENROLL" => ~Gated

(* After a factory reset the device starts with nothing stored              *)
(* (pulsync_portal.c:532, "Device is erasing settings and restarting").     *)
FreshAfterReset == [][RestartsFresh]_vars
=============================================================================
