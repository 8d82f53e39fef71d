----------------------------- MODULE Lifecycle -----------------------------
(***************************************************************************)
(* PulsyncClass::loop() and what it drives (src/src/PulsyncClass.cpp): the  *)
(* discovery of a server, enrollment, the HTTPS heartbeat that confirms the *)
(* token, the start of MQTT, the recovery from a rejected token and the     *)
(* rediscovery of a server that has gone silent, with the portal's handlers *)
(* running in httpd, the MQTT client's events, and restarts.                *)
(*                                                                          *)
(* The module composes the enrollment component: a call of pulsync_enroll_* *)
(* is the row of steps of module Enroll, and the caller goes on when its    *)
(* step is "idle" again.  loop() itself is a row of steps kept in pc, one   *)
(* per access to state that another task writes.                            *)
(***************************************************************************)
EXTENDS Enroll

CONSTANTS
  Httpd,        \* the portal's httpd task; in Callers when a portal may be open
  Unicore,      \* one core: FreeRTOS priorities order the tasks
  Pinned,       \* setServer() or setServerMode(); "none" for AUTO
  SketchCode,   \* the code given to begin(), or NoCode
  Worlds,       \* the sets of servers that may answer
  MaxFaults,    \* bound on failures the environment chooses
  MaxSubmits    \* bound on forms submitted to the portal

Server == {"local", "cloud", "own"}

ASSUME LifecycleAssumption ==
  /\ Httpd # Loop /\ Callers \subseteq {Loop, Httpd}
  /\ Unicore \in BOOLEAN
  /\ Pinned \in Server \cup {"none"}
  /\ SketchCode \in Codes \cup {NoCode}
  /\ Worlds \subseteq SUBSET Server
  /\ MaxFaults \in Nat /\ MaxSubmits \in Nat

VARIABLES
  pc, ret,      \* where loop() is; where recoverEnrollment returns to
  disc, cand,   \* _disc_state; the candidate of this pass
  server,       \* the HTTP target, _server and the host in s_config
  token_srv, saved_server, pair_code, \* NVS keys token_srv, server, pair_code
  main_code,    \* _pairing_code
  reauth,       \* _reauth, _reauth_wait
  token_ok,     \* _token_ok
  hb_started,   \* _hb_started
  timers,       \* deadlines of loop() that have not passed
  unauth,       \* _unauth_pending
  mqtt,         \* the MQTT client: state, password, broker's owner
  asked,        \* what the HTTP requests were sent with: token and server of the
                \* heartbeat; server (post) and token (posted) of the enrollment
                \* POST, "none" and 0 when it is not under way
  portal, form, \* where an httpd handler is; what was submitted
  wifi,         \* pulsync_wifi_is_connected()
  up,           \* servers that answer
  issuer,       \* which server issued a token
  revoked,      \* tokens their server has withdrawn
  accepted,     \* tokens an HTTPS heartbeat was accepted with
  faults, submits

noted == <<token_srv, saved_server, pair_code>>
disco == <<disc, cand, server, noted, main_code>>
auth  == <<reauth, token_ok, hb_started, timers>>
link  == <<unauth, mqtt, asked>>
form_ == <<portal, form, submits>>
world == <<wifi, up, issuer, revoked, accepted, faults>>
vars  == <<enrollVars, pc, ret, disco, auth, link, form_, world>>

Off == [st |-> "off", token |-> 0, server |-> "none"]
NotAsked == [token |-> 0, server |-> "none", post |-> "none", posted |-> 0]
NoForm == [code |-> NoCode, server |-> "none"]

(* A write or an erase of a key of NVS fails; the result is ignored. *)
WriteFails(key) == NvsFails /\ UNCHANGED key

(* A server accepts the tokens it issued and has not withdrawn. *)
Accepts(s, tok) == tok \in Cred \ {0} /\ issuer[tok] = s /\ tok \notin revoked

Fault == faults < MaxFaults /\ faults' = faults + 1
NoFault == faults' = faults

-----------------------------------------------------------------------------
(* Scheduling.  loop() has priority 1, enroll_task 4, MQTT and httpd 5.  On *)
(* one core loop() runs only while they are blocked: in the POST, waiting   *)
(* for a message, or in transport_stop's wait for the MQTT task to end.     *)

HttpdBlocked == portal = "idle" \/ (portal = "stopping" /\ mqtt.st # "off")

Posting(t) == job[t].pc = "post" /\ asked.post # "none"

LoopRuns ==
  Unicore => HttpdBlocked /\ ~rx /\ \A t \in Tasks : ~Live(t) \/ Posting(t)

TaskRuns(t) == Unicore /\ ~Posting(t) => HttpdBlocked /\ ~rx

LoopGoes(p, n) == pc = p /\ step[Loop] = "idle" /\ LoopRuns /\ pc' = n

(* The rest of a call of the enrollment API that a task is inside. *)
CallGoesOn ==
  /\ LoopRuns
  /\ InitCode(Loop, main_code) \/ InitState(Loop)
     \/ ResetToken(Loop) \/ ResetId(Loop) \/ ResetState(Loop)
     \/ CheckId \/ CheckState
     \/ StartCode \/ (StartGivesUp /\ pairing_code = NoCode) \/ StartId \/ StartState
     \/ \E t \in Tasks : StartCreate(t)
  /\ UNCHANGED <<pc, ret, disco, auth, link, form_, world>>

(* transport_stop: esp_mqtt waits for its task to leave the event handler.  *)
StopMqtt == ~rx /\ mqtt' = Off

(* pulsync_enroll_start: begins, or returns at once. *)
CallStart(p, n) ==
  /\ LoopGoes(p, n)
  /\ StartCall \/ (StartRefused /\ UNCHANGED enrollVars)
  /\ UNCHANGED <<ret, disco, auth, link, form_, world>>

-----------------------------------------------------------------------------
(* Mutants, used by no action: the code with a plausible slip.              *)

\* a recovery leaves the rejected token with the transport
MutRecover ==
  /\ ~(reauth.on /\ state \in {"IN_PROGRESS", "FAILED", "NEEDED"})
  /\ LoopGoes("recover", "reset")
  /\ reauth' = [on |-> TRUE, wait |-> FALSE]
  /\ token_ok' = FALSE /\ hb_started' = FALSE
  /\ StopMqtt
  /\ UNCHANGED <<enrollVars, ret, disco, timers, unauth, asked, form_, world>>

\* a cloud that does not answer is tried again, and the LAN is not
MutLost ==
  /\ LoopGoes("lost", "top")
  /\ disc' = "TRY_CLOUD"
  /\ UNCHANGED <<enrollVars, ret, cand, server, noted, main_code, auth, link, form_, world>>

\* the candidate is cleared before the wait state is entered
MutTryInit ==
  /\ LoopGoes("try_init", "try_start")
  /\ InitCall(Loop)
  /\ server' = "none"
  /\ UNCHANGED <<ret, disc, cand, noted, main_code, auth, link, form_, world>>

\* the portal's code reaches enrollment and NVS but not _pairing_code
MutApplyCode ==
  /\ portal \in {"code", "creds_code"} /\ form.code # NoCode
  /\ InitCall(Httpd)
  /\ pair_code' = form.code
  /\ portal' = IF portal = "code" THEN "target" ELSE "wifi"
  /\ UNCHANGED <<pc, ret, disc, cand, server, token_srv, saved_server, main_code, auth, link>>
  /\ UNCHANGED <<form, submits, world>>

-----------------------------------------------------------------------------
(* _runDiscovery *)

Top ==
  /\ wifi
  /\ LoopGoes("top", "disc")
  /\ UNCHANGED <<enrollVars, ret, disco, auth, link, form_, world>>

Candidate == [TRY_LOCAL |-> "local", WAIT_LOCAL |-> "local",
              TRY_CLOUD |-> "cloud", WAIT_CLOUD |-> "cloud"]

Settled ==
  /\ disc \in {"OVERRIDE", "RESOLVED"}
  /\ LoopGoes("disc", "unauth1")
  /\ UNCHANGED <<enrollVars, ret, disco, auth, link, form_, world>>

(* TRY_LOCAL, TRY_CLOUD: apply the candidate, enroll_init, enroll_start. *)
TryCandidate ==
  /\ disc \in {"TRY_LOCAL", "TRY_CLOUD"}
  /\ LoopGoes("disc", "try_init")
  /\ cand' = Candidate[disc] /\ server' = Candidate[disc]
  /\ UNCHANGED <<enrollVars, ret, disc, noted, main_code, auth, link, form_, world>>

TryInit ==
  /\ LoopGoes("try_init", "try_start")
  /\ InitCall(Loop)
  /\ UNCHANGED <<ret, disco, auth, link, form_, world>>

TryStart == CallStart("try_start", "try_wait")

TryWait ==
  /\ LoopGoes("try_wait", "top")
  /\ disc' = IF cand = "local" THEN "WAIT_LOCAL" ELSE "WAIT_CLOUD"
  /\ UNCHANGED <<enrollVars, ret, cand, server, noted, main_code, auth, link, form_, world>>

(* WAIT_LOCAL, WAIT_CLOUD: the enrollment state decides. *)
WaitReads ==
  /\ disc \in {"WAIT_LOCAL", "WAIT_CLOUD"}
  /\ LoopGoes("disc", CASE state = "DONE" -> "won" [] state = "FAILED" -> "lost" [] OTHER -> "top")
  /\ cand' = Candidate[disc]
  /\ UNCHANGED <<enrollVars, ret, disc, server, noted, main_code, auth, link, form_, world>>

Won ==
  /\ LoopGoes("won", "unauth1")
  /\ token_srv' = cand \/ WriteFails(token_srv)
  /\ disc' = "RESOLVED"
  /\ UNCHANGED <<enrollVars, ret, cand, server, saved_server, pair_code, main_code, auth, link>>
  /\ UNCHANGED <<form_, world>>

Lost ==
  /\ LoopGoes("lost", "top")
  /\ disc' = IF cand = "local" THEN "TRY_CLOUD" ELSE "NO_SERVER"
  /\ timers' = IF cand = "local" THEN timers ELSE timers \cup {"server"}
  /\ UNCHANGED <<enrollVars, ret, cand, server, noted, main_code, reauth, token_ok, hb_started>>
  /\ UNCHANGED <<link, form_, world>>

NoServerRetry ==
  /\ disc = "NO_SERVER" /\ "server" \notin timers
  /\ LoopGoes("disc", "top")
  /\ disc' = "TRY_LOCAL"
  /\ UNCHANGED <<enrollVars, ret, cand, server, noted, main_code, auth, link, form_, world>>

NoServerWaits ==
  /\ disc = "NO_SERVER" /\ "server" \in timers
  /\ LoopGoes("disc", "top")
  /\ UNCHANGED <<enrollVars, ret, disco, auth, link, form_, world>>

Discovery ==
  \/ Top \/ Settled \/ TryCandidate \/ TryInit \/ TryStart \/ TryWait
  \/ WaitReads \/ Won \/ Lost \/ NoServerRetry \/ NoServerWaits

-----------------------------------------------------------------------------
(* Recovery from a rejected token.  The flag is taken twice in a pass,      *)
(* before the enrollment step and after the HTTPS heartbeat.                *)

TakeUnauthorized(p, n) ==
  /\ LoopGoes(p, IF unauth THEN "recover" ELSE n)
  /\ unauth' = FALSE
  /\ ret' = n
  /\ UNCHANGED <<enrollVars, disco, auth, mqtt, asked, form_, world>>

(* recoverEnrollment: nothing while a recovery is already under way ... *)
RecoverSkips ==
  /\ reauth.on /\ state \in {"IN_PROGRESS", "FAILED", "NEEDED"}
  /\ LoopGoes("recover", ret)
  /\ UNCHANGED <<enrollVars, ret, disco, auth, link, form_, world>>

(* ... else stop heartbeat and MQTT, forget the token, reset and start. *)
Recover ==
  /\ ~(reauth.on /\ state \in {"IN_PROGRESS", "FAILED", "NEEDED"})
  /\ LoopGoes("recover", "reset")
  /\ reauth' = [on |-> TRUE, wait |-> FALSE]
  /\ token_ok' = FALSE /\ hb_started' = FALSE
  /\ StopMqtt
  /\ ClearToken
  /\ UNCHANGED <<ret, disco, timers, unauth, asked, form_, world>>

RecoverReset ==
  /\ LoopGoes("reset", "restart")
  /\ ResetCall(Loop)
  /\ UNCHANGED <<ret, disco, auth, link, form_, world>>

RecoverStart == CallStart("restart", ret)

Recovery ==
  \/ TakeUnauthorized("unauth1", "enroll") \/ TakeUnauthorized("unauth2", "mqtt")
  \/ RecoverSkips \/ Recover \/ RecoverReset \/ RecoverStart

-----------------------------------------------------------------------------
(* The enrollment step of a pass. *)

(* A failed recovery waits 60 s, then resets and starts again. *)
FailedWaits ==
  /\ reauth.on /\ state = "FAILED" /\ ~reauth.wait
  /\ LoopGoes("enroll", "settle")
  /\ reauth' = [reauth EXCEPT !.wait = TRUE]
  /\ timers' = timers \cup {"reauth"}
  /\ UNCHANGED <<enrollVars, ret, disco, token_ok, hb_started, link, form_, world>>

FailedRetries ==
  /\ reauth.on /\ state = "FAILED" /\ reauth.wait /\ "reauth" \notin timers
  /\ LoopGoes("enroll", "reset")
  /\ ret' = "settle"
  /\ reauth' = [reauth EXCEPT !.wait = FALSE]
  /\ UNCHANGED <<enrollVars, disco, token_ok, hb_started, timers, link, form_, world>>

Check ==
  /\ state \in {"IDLE", "NEEDED"}
  /\ LoopGoes("enroll", "checked")
  /\ CheckCall
  /\ UNCHANGED <<ret, disco, auth, link, form_, world>>

CheckedDone ==
  /\ have.token /\ have.id
  /\ LoopGoes("checked", "settle")
  /\ UNCHANGED <<enrollVars, ret, disco, auth, link, form_, world>>

CheckedNeeded == ~(have.token /\ have.id) /\ CallStart("checked", "settle")

(* DONE, IN_PROGRESS, and FAILED outside a recovery or before its 60 s. *)
EnrollPasses ==
  /\ \/ state \in {"DONE", "IN_PROGRESS"}
     \/ state = "FAILED" /\ (reauth.on => reauth.wait /\ "reauth" \in timers)
  /\ LoopGoes("enroll", "settle")
  /\ UNCHANGED <<enrollVars, ret, disco, auth, link, form_, world>>

(* The state is read again: a recovery that reached DONE is over, and a     *)
(* token not confirmed in this session is tried with an HTTPS heartbeat.    *)
Settle ==
  LET ended == state = "DONE" /\ reauth.on
      ok    == token_ok /\ ~ended
  IN /\ LoopGoes("settle", IF state = "DONE" /\ ~ok /\ "probe" \notin timers
                           THEN "probe" ELSE "unauth2")
     /\ reauth' = IF ended THEN [on |-> FALSE, wait |-> FALSE] ELSE reauth
     /\ token_ok' = ok
     /\ UNCHANGED <<enrollVars, ret, disco, hb_started, timers, link, form_, world>>

EnrollStep ==
  \/ FailedWaits \/ FailedRetries \/ Check \/ CheckedDone \/ CheckedNeeded
  \/ EnrollPasses \/ Settle

-----------------------------------------------------------------------------
(* The HTTPS heartbeat: sent with the transport's token to its server.      *)

Probe ==
  /\ LoopGoes("probe", "reply")
  /\ asked' = [asked EXCEPT !.token = tx.token, !.server = server]
  /\ UNCHANGED <<enrollVars, ret, disco, auth, unauth, mqtt, form_, world>>

ProbeAccepted ==
  /\ wifi /\ asked.server \in up /\ Accepts(asked.server, asked.token)
  /\ LoopGoes("reply", "unauth2")
  /\ token_ok' = TRUE
  /\ accepted' = accepted \cup {asked.token}
  /\ UNCHANGED <<enrollVars, ret, disco, reauth, hb_started, timers, link, form_>>
  /\ UNCHANGED <<wifi, up, issuer, revoked, faults>>

ProbeRejected ==
  /\ wifi /\ asked.server \in up /\ ~Accepts(asked.server, asked.token)
  /\ LoopGoes("reply", "unauth2")
  /\ unauth' = TRUE
  /\ UNCHANGED <<enrollVars, ret, disco, auth, mqtt, asked, form_>>
  /\ UNCHANGED <<wifi, up, issuer, revoked, accepted, faults>>

ProbeFails ==
  /\ \/ ~wifi /\ NoFault
     \/ asked.server \notin up /\ NoFault
     \/ Fault
  /\ LoopGoes("reply", "unauth2")
  /\ timers' = timers \cup {"probe"}
  /\ UNCHANGED <<enrollVars, ret, disco, reauth, token_ok, hb_started, link, form_>>
  /\ UNCHANGED <<wifi, up, issuer, revoked, accepted>>

-----------------------------------------------------------------------------
(* MQTT and the rediscovery of a server that has gone silent. *)

Gate ==
  /\ LoopGoes("mqtt", IF token_ok /\ state = "DONE" THEN "start" ELSE "top")
  /\ UNCHANGED <<enrollVars, ret, disco, auth, link, form_, world>>

(* transport_start: no-op when started; a .local name has to resolve. *)
StartMqtt ==
  /\ LoopGoes("start", "hb")
  /\ mqtt' = IF mqtt.st = "off" /\ (server = "local" => server \in up)
             THEN [st |-> "connecting", token |-> tx.token, server |-> server]
             ELSE mqtt
  /\ UNCHANGED <<enrollVars, ret, disco, auth, unauth, asked, form_, world>>

StartHeartbeat ==
  /\ LoopGoes("hb", "stale")
  /\ hb_started' = (hb_started \/ mqtt.st = "connected")
  /\ UNCHANGED <<enrollVars, ret, disco, reauth, token_ok, timers, link, form_, world>>

HeartbeatFresh ==
  /\ LoopGoes("stale", "top")
  /\ UNCHANGED <<enrollVars, ret, disco, auth, link, form_, world>>

(* No heartbeat answered for two minutes. *)
HeartbeatStale ==
  /\ disc = "RESOLVED" /\ hb_started /\ Fault
  /\ LoopGoes("stale", "stale_srv")
  /\ hb_started' = FALSE /\ token_ok' = FALSE /\ StopMqtt
  /\ ResetCall(Loop)
  /\ UNCHANGED <<ret, disco, reauth, timers, unauth, asked, form_>>
  /\ UNCHANGED <<wifi, up, issuer, revoked, accepted>>

(* The transport keeps its token: only a recovery takes it back.            *)
Rediscover ==
  /\ LoopGoes("stale_srv", "top")
  /\ token_srv' = "none" \/ WriteFails(token_srv)
  /\ disc' = "TRY_LOCAL"
  /\ UNCHANGED <<enrollVars, ret, cand, server, saved_server, pair_code, main_code, auth, link>>
  /\ UNCHANGED <<form_, world>>

Online ==
  \/ Probe \/ ProbeAccepted \/ ProbeRejected \/ ProbeFails
  \/ Gate \/ StartMqtt \/ StartHeartbeat \/ HeartbeatFresh \/ HeartbeatStale \/ Rediscover

LoopPass == CallGoesOn \/ Discovery \/ Recovery \/ EnrollStep \/ Online

-----------------------------------------------------------------------------
(* enroll_task against this world.  The POST goes to the target of the      *)
(* moment, whatever becomes of it meanwhile, and carries the token that the *)
(* transport has, like every request of http_perform.  The server answers   *)
(* by the pairing code in it; a 401 raises the same flag as a 401 to a      *)
(* heartbeat.                                                               *)

Send(t) ==
  /\ job[t].pc = "post" /\ asked.post = "none"
  /\ asked' = [asked EXCEPT !.post = server, !.posted = tx.token]
  /\ UNCHANGED <<enrollVars, unauth, issuer, faults>>

Post(t) ==
  /\ Posting(t)
  /\ asked' = [asked EXCEPT !.post = "none", !.posted = 0]
  /\ \/ /\ wifi /\ asked.post \in up
        /\ PostGranted(t)
        /\ issuer' = [issuer EXCEPT ![granted + 1] = asked.post]
        /\ NoFault /\ UNCHANGED unauth
     \/ /\ wifi /\ asked.post \in up /\ Fault
        /\ PostFails(t)
        /\ unauth' = TRUE
        /\ UNCHANGED issuer
     \/ /\ \/ ~wifi /\ NoFault
           \/ asked.post \notin up /\ NoFault
           \/ Fault
        /\ PostFails(t)
        /\ UNCHANGED <<unauth, issuer>>

EnrollTask(t) ==
  /\ TaskRuns(t)
  /\ \/ Send(t) \/ Post(t)
     \/ /\ \/ CheckAttempt(t) \/ Fail(t) \/ StoreToken(t) \/ StoreId(t)
           \/ Adopt(t) \/ Done(t) \/ Exit(t)
        /\ UNCHANGED <<unauth, issuer, faults, asked>>
  /\ UNCHANGED <<pc, ret, disco, auth, mqtt, form_>>
  /\ UNCHANGED <<wifi, up, revoked, accepted>>

-----------------------------------------------------------------------------
(* The MQTT client: reconnects by itself; a refusal of the password raises  *)
(* the flag; a message that finds IN_PROGRESS goes to enrollment.           *)

MqttConnects ==
  /\ mqtt.st = "connecting" /\ wifi
  /\ mqtt.server \in up /\ Accepts(mqtt.server, mqtt.token)
  /\ mqtt' = [mqtt EXCEPT !.st = "connected"]
  /\ UNCHANGED <<enrollVars, pc, ret, disco, auth, unauth, asked, form_, world>>

MqttRefused ==
  /\ mqtt.st = "connecting" /\ wifi
  /\ mqtt.server \in up /\ ~Accepts(mqtt.server, mqtt.token)
  /\ unauth' = TRUE
  /\ UNCHANGED <<enrollVars, pc, ret, disco, auth, mqtt, asked, form_>>
  /\ UNCHANGED <<wifi, up, issuer, revoked, accepted, faults>>

MqttDrops ==
  /\ mqtt.st = "connected" /\ Fault
  /\ mqtt' = [mqtt EXCEPT !.st = "connecting"]
  /\ UNCHANGED <<enrollVars, pc, ret, disco, auth, unauth, asked, form_>>
  /\ UNCHANGED <<wifi, up, issuer, revoked, accepted>>

MqttMessage ==
  /\ (mqtt.st = "connected" /\ RxSeesProgress) \/ RxFailsEnrollment
  /\ UNCHANGED <<pc, ret, disco, auth, link, form_, world>>

Broker == MqttConnects \/ MqttRefused \/ MqttDrops \/ MqttMessage

-----------------------------------------------------------------------------
(* WiFi, deadlines, and the server's side. *)

WifiDown ==
  /\ wifi /\ Fault
  /\ wifi' = FALSE
  /\ mqtt' = IF mqtt.st = "connected" THEN [mqtt EXCEPT !.st = "connecting"] ELSE mqtt
  /\ UNCHANGED <<enrollVars, pc, ret, disco, auth, unauth, asked, form_>>
  /\ UNCHANGED <<up, issuer, revoked, accepted>>

WifiUp ==
  /\ ~wifi /\ portal = "idle"
  /\ wifi' = TRUE
  /\ UNCHANGED <<enrollVars, pc, ret, disco, auth, link, form_>>
  /\ UNCHANGED <<up, issuer, revoked, accepted, faults>>

Expire(x) ==
  /\ x \in timers
  /\ timers' = timers \ {x}
  /\ UNCHANGED <<enrollVars, pc, ret, disco, reauth, token_ok, hb_started, link, form_, world>>

(* The account withdraws a token. *)
Revoke(n) ==
  /\ n \in (1 .. granted) \ revoked /\ Fault
  /\ revoked' = revoked \cup {n}
  /\ UNCHANGED <<enrollVars, pc, ret, disco, auth, link, form_>>
  /\ UNCHANGED <<wifi, up, issuer, accepted>>

Environment == WifiDown \/ WifiUp \/ (\E n \in 1 .. MaxGrants : Revoke(n))

-----------------------------------------------------------------------------
(* The portal's handlers, on the httpd task. *)

Submit == portal = "idle" /\ Httpd \in Callers /\ submits < MaxSubmits /\ submits' = submits + 1

(* _handlePortalRepair: the live link goes down first. *)
Repair(c) ==
  /\ Submit
  /\ portal' = "stopping"
  /\ form' = [NoForm EXCEPT !.code = c]
  /\ UNCHANGED <<enrollVars, pc, ret, disco, auth, link, world>>

RepairStop ==
  /\ portal = "stopping"
  /\ portal' = "stopped"
  /\ hb_started' = FALSE /\ StopMqtt
  /\ UNCHANGED <<enrollVars, pc, ret, disco, reauth, token_ok, timers, unauth, asked>>
  /\ UNCHANGED <<form, submits, world>>

RepairReset ==
  /\ portal = "stopped"
  /\ ResetCall(Httpd)
  /\ portal' = "code"
  /\ UNCHANGED <<pc, ret, disco, auth, link, form, submits, world>>

(* The code goes to NVS and RAM, and to enroll_init (both handlers). *)
ApplyCode ==
  /\ portal \in {"code", "creds_code"} /\ form.code # NoCode
  /\ InitCall(Httpd)
  /\ pair_code' = form.code \/ WriteFails(pair_code)
  /\ main_code' = form.code
  /\ portal' = IF portal = "code" THEN "target" ELSE "wifi"
  /\ UNCHANGED <<pc, ret, disc, cand, server, token_srv, saved_server, auth, link, form>>
  /\ UNCHANGED <<submits, world>>

(* A target in doubt starts a new discovery. *)
RepairTarget ==
  /\ portal = "target" /\ step[Httpd] = "idle"
  /\ disc' = IF disc \in {"OVERRIDE", "RESOLVED"} THEN disc ELSE "TRY_LOCAL"
  /\ portal' = "wifi"
  /\ UNCHANGED <<enrollVars, pc, ret, cand, server, noted, main_code, auth, link, form>>
  /\ UNCHANGED <<submits, world>>

(* _handlePortalCredentials: the server first, then the code. *)
Credentials(c, s) ==
  /\ Submit
  /\ portal' = "creds_code"
  /\ form' = [code |-> c, server |-> s]
  /\ IF s = "none" THEN UNCHANGED <<saved_server, server>>
     ELSE (saved_server' = s \/ WriteFails(saved_server)) /\ server' = s
  /\ UNCHANGED <<enrollVars, pc, ret, disc, cand, token_srv, pair_code, main_code, auth, link>>
  /\ UNCHANGED world

CredentialsNoCode ==
  /\ portal = "creds_code" /\ form.code = NoCode
  /\ portal' = "wifi"
  /\ UNCHANGED <<enrollVars, pc, ret, disco, auth, link, form, submits, world>>

(* Both handlers end by closing the portal and connecting to WiFi again. *)
PortalEnds ==
  /\ portal = "wifi" /\ step[Httpd] = "idle"
  /\ portal' = "idle" /\ form' = NoForm
  /\ wifi' = FALSE
  /\ mqtt' = IF mqtt.st = "connected" THEN [mqtt EXCEPT !.st = "connecting"] ELSE mqtt
  /\ UNCHANGED <<enrollVars, pc, ret, disco, auth, unauth, asked, submits>>
  /\ UNCHANGED <<up, issuer, revoked, accepted, faults>>

(* _handlePortalServer *)
SaveServer(s) ==
  /\ Submit
  /\ saved_server' = s \/ WriteFails(saved_server)
  /\ server' = s
  /\ UNCHANGED <<enrollVars, pc, ret, disc, cand, token_srv, pair_code, main_code, auth, link>>
  /\ UNCHANGED <<portal, form, world>>

(* The rest of a call of the enrollment API by httpd. *)
HttpdCall ==
  /\ Httpd \in Callers
  /\ InitCode(Httpd, form.code) \/ InitState(Httpd) \/ ResetToken(Httpd) \/ ResetId(Httpd) \/ ResetState(Httpd)
  /\ UNCHANGED <<pc, ret, disco, auth, link, form_, world>>

Handler ==
  \/ HttpdCall \/ RepairStop \/ RepairReset \/ ApplyCode \/ RepairTarget \/ CredentialsNoCode \/ PortalEnds

Portal ==
  \/ Handler
  \/ \E c \in Codes : Repair(c)
  \/ \E c \in Codes \cup {NoCode}, s \in {"own", "none"} : Credentials(c, s)
  \/ SaveServer("own")

-----------------------------------------------------------------------------
(* begin(): which server, and whether to discover it. *)

BootCode == IF SketchCode # NoCode THEN SketchCode ELSE pair_code

Fixed == Pinned # "none" \/ saved_server # "none"

BootServer(enrolled) ==
  CASE Pinned # "none" -> Pinned
    [] Pinned = "none" /\ saved_server # "none" -> saved_server
    [] ~Fixed /\ enrolled /\ token_srv # "none" -> token_srv
    [] OTHER -> "cloud"

BootDisc(enrolled) ==
  CASE Fixed -> "OVERRIDE" [] ~Fixed /\ enrolled -> "RESOLVED" [] OTHER -> "TRY_LOCAL"

Restart ==
  LET enrolled == nvs.token # 0 /\ nvs.id # 0 IN
  /\ Reboot(BootCode)
  /\ main_code' = BootCode
  /\ disc' = BootDisc(enrolled) /\ server' = BootServer(enrolled) /\ cand' = "none"
  /\ pc' = "top" /\ ret' = "top"
  /\ reauth' = [on |-> FALSE, wait |-> FALSE]
  /\ token_ok' = FALSE /\ hb_started' = FALSE /\ timers' = {}
  /\ unauth' = FALSE /\ mqtt' = Off /\ asked' = NotAsked
  /\ portal' = "idle" /\ form' = NoForm
  /\ wifi' = FALSE
  /\ UNCHANGED <<noted, submits, up, issuer, revoked, accepted, faults>>

FirstBoot ==
  /\ EnrollInit(SketchCode)
  /\ token_srv = "none" /\ saved_server = "none" /\ pair_code = NoCode
  /\ main_code = SketchCode
  /\ disc = BootDisc(FALSE) /\ server = BootServer(FALSE) /\ cand = "none"
  /\ pc = "top" /\ ret = "top"
  /\ reauth = [on |-> FALSE, wait |-> FALSE]
  /\ token_ok = FALSE /\ hb_started = FALSE /\ timers = {}
  /\ unauth = FALSE /\ mqtt = Off /\ asked = NotAsked
  /\ portal = "idle" /\ form = NoForm /\ submits = 0
  /\ wifi = FALSE /\ up \in Worlds
  /\ issuer = [n \in Cred |-> "none"]
  /\ revoked = {} /\ accepted = {} /\ faults = 0

LifeNext ==
  \/ LoopPass
  \/ \E t \in Tasks : EnrollTask(t)
  \/ Broker \/ Environment \/ (\E x \in {"reauth", "probe", "server"} : Expire(x))
  \/ Portal \/ Restart

LifeSpec == FirstBoot /\ [][LifeNext]_vars

(* loop() is called for ever, FreeRTOS runs a ready task, deadlines pass,   *)
(* the MQTT client and the WiFi driver keep trying, a handler returns.      *)
LifeFairness ==
  /\ WF_vars(LoopPass)
  /\ \A t \in Tasks : WF_vars(EnrollTask(t))
  /\ \A x \in {"reauth", "probe", "server"} : WF_vars(Expire(x))
  /\ WF_vars(MqttConnects) /\ WF_vars(MqttRefused) /\ WF_vars(MqttMessage)
  /\ WF_vars(WifiUp)
  /\ WF_vars(Handler)

LifeFairSpec == LifeSpec /\ LifeFairness

-----------------------------------------------------------------------------
(* Types of the variables this module adds. *)
LoopTypeOK ==
  /\ pc \in {"top", "disc", "try_init", "try_start", "try_wait", "won", "lost",
             "unauth1", "recover", "reset", "restart", "enroll", "checked", "settle",
             "probe", "reply", "unauth2", "mqtt", "start", "hb", "stale", "stale_srv"}
  /\ ret \in {"top", "enroll", "settle", "mqtt"}
  /\ disc \in {"OVERRIDE", "RESOLVED", "TRY_LOCAL", "WAIT_LOCAL", "TRY_CLOUD",
               "WAIT_CLOUD", "NO_SERVER"}
  /\ cand \in Server \cup {"none"} /\ server \in Server
  /\ token_srv \in Server \cup {"none"} /\ saved_server \in Server \cup {"none"}

FlagTypeOK ==
  /\ pair_code \in Codes \cup {NoCode} /\ main_code \in Codes \cup {NoCode}
  /\ reauth \in [on : BOOLEAN, wait : BOOLEAN]
  /\ token_ok \in BOOLEAN /\ hb_started \in BOOLEAN /\ unauth \in BOOLEAN /\ wifi \in BOOLEAN
  /\ timers \subseteq {"reauth", "probe", "server"}
  /\ portal \in {"idle", "stopping", "stopped", "code", "creds_code", "target", "wifi"}
  /\ form \in [code : Codes \cup {NoCode}, server : Server \cup {"none"}]

LinkTypeOK ==
  /\ mqtt \in [st : {"off", "connecting", "connected"}, token : Cred,
               server : Server \cup {"none"}]
  /\ asked \in [token : Cred, server : Server \cup {"none"},
                post : Server \cup {"none"}, posted : Cred]

WorldTypeOK ==
  /\ issuer \in [Cred -> Server \cup {"none"}]
  /\ revoked \subseteq Cred /\ accepted \subseteq Cred
  /\ faults \in 0 .. MaxFaults /\ submits \in 0 .. MaxSubmits

LifeTypeOK == TypeOK /\ LoopTypeOK /\ FlagTypeOK /\ LinkTypeOK /\ WorldTypeOK

(* The MQTT client never carries a password that no HTTPS heartbeat was     *)
(* accepted with: "MQTT only after the HTTPS heartbeat accepts the token".  *)
OnlyConfirmedTokens == mqtt.st # "off" => mqtt.token \in accepted

(* "Stick to the server the token was issued by" (PulsyncClass.cpp:356) of  *)
(* every request: a token goes only to the server that issued it.  The code *)
(* does not keep it: after a rediscovery the transport still has the token  *)
(* of the old server, and the POST to the next candidate carries it.        *)
TokenStaysHome ==
  /\ asked.token # 0 => issuer[asked.token] = asked.server
  /\ asked.posted # 0 => issuer[asked.posted] = asked.post
  /\ mqtt.token # 0 => issuer[mqtt.token] = mqtt.server

(* What the code does keep until a form comes.  MQTT has a password only of *)
(* its own server, whatever fails and wherever power is cut.  A heartbeat   *)
(* asks the server that issued its token, after a cut as well if that       *)
(* server is noted in NVS and no write failed.  The POST of a recovery does *)
(* not carry the rejected token (PulsyncClass.cpp:416) nor any other, also  *)
(* when it is tried again after 60 s.                                       *)
TokensInUseStayHome ==
  submits = 0 =>
    /\ mqtt.st # "off" => issuer[mqtt.token] = mqtt.server
    /\ pc = "reply" /\ (reboots = 0 \/ (reboots = 1 /\ ~NvsFails /\ token_srv # "none")) =>
         issuer[asked.token] = asked.server
    /\ reauth.on /\ ~NvsFails => asked.posted = 0

(* When enrollment says DONE and nobody is inside a call or a task past its *)
(* test, NVS, RAM and the transport hold the same token and device_id.      *)
DoneIsCoherent ==
  state = "DONE" /\ (\A c \in Callers : step[c] = "idle") /\ (\A t \in Tasks : ~Live(t))
    /\ pc \notin {"reset", "recover"} =>
      nvs = ram /\ tx = ram /\ ram.token # 0 /\ ram.id # 0

(* What NVS keeps for the next boot is the token and the device_id of one   *)
(* and the same grant, but while that grant is being written.               *)
OneGrantStored ==
  (\A t \in Tasks : ~Live(t)) /\ nvs.token # 0 /\ nvs.id # 0 => nvs.token = nvs.id

(* In a settled discovery the server noted in NVS, if any, is the one that  *)
(* issued the token in NVS: a restart goes back to the issuer.              *)
RememberedIssuer ==
  disc = "RESOLVED" /\ pc # "stale_srv" /\ nvs.token # 0 =>
    token_srv \in {"none", issuer[nvs.token]}

(* Until a form comes, whatever fails and wherever power is cut, memory     *)
(* agrees once enrollment is DONE, and MQTT starts only with a token that a *)
(* heartbeat was accepted with (PulsyncClass.cpp:494).  If no write of NVS  *)
(* fails, then after at most one cut a restart goes back to the server that *)
(* has issued the stored token (PulsyncClass.cpp:356, "stick to the server  *)
(* the token was issued by"), and NVS never mixes two grants.  A re-pair    *)
(* form can come between the test and the writes of a grant                 *)
(* (pulsync_enroll.c:171); what holds then is the matter of Enroll.         *)
SettledWithoutForm ==
  submits = 0 =>
    /\ DoneIsCoherent /\ OnlyConfirmedTokens
    /\ reboots <= 1 /\ ~NvsFails => RememberedIssuer /\ OneGrantStored

(* Outside the calls, the code enrollment would post is the device's        *)
(* current one: a discovery that starts over does not bring back the code   *)
(* that the portal has replaced.                                            *)
CodesAgree == (\A c \in Callers : step[c] = "idle") => pairing_code = main_code

(* The response of an attempt that init or reset has invalidated changes    *)
(* nothing: "Never let its old response overwrite the newer state".         *)
StaleAttemptIsSilent ==
  [][\A t \in Tasks :
       job[t].id # attempt_id /\ job'[t].pc # job[t].pc => UNCHANGED <<state, ram, nvs, tx>>]_vars

(* While a server answers and failures are few, discovery ends.             *)
DiscoveryMovesOn ==
  disc \in {"WAIT_LOCAL", "WAIT_CLOUD"} ~> disc \notin {"WAIT_LOCAL", "WAIT_CLOUD"}

(* A device whose server answers is in the end connected and stays so.      *)
ComesOnline == <>[](mqtt.st = "connected")
=============================================================================
