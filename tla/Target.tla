------------------------------- MODULE Target -------------------------------
(***************************************************************************)
(* Which HTTP host and which MQTT broker a device talks to: the target kept *)
(* in s_config, the ".local" name that is resolved into it, the broker a    *)
(* server hands out (src/src/core/pulsync_transport.c), and what moves them *)
(* in src/src/PulsyncClass.cpp and src/src/core/pulsync_enroll.c.  Module   *)
(* Lifecycle has the tasks and the tokens; here enrollment is one attempt   *)
(* at a time, with its code always good, and the portal sets only servers.  *)
(*                                                                          *)
(* A request that has to resolve a ".local" name waits for it, and another  *)
(* task may set the target meanwhile.  So does transport_start, which loop()*)
(* calls and, for a broker pushed in a heartbeat answer, the MQTT task too. *)
(***************************************************************************)
EXTENDS Integers

CONSTANTS
  Pinned,      \* setServer() or setServerMode(); "none" for AUTO
  Advertised,  \* the broker each server hands out at first, or NoBroker
  Repeats,     \* heartbeat answers name the broker each time, or when it has moved
  Yields,      \* loop() may run inside the MQTT task's stop and start
  MaxMoves,    \* bound on servers that move to another broker
  MaxForms,    \* bound on servers submitted to the portal
  MaxBoots,    \* bound on restarts
  MaxFailures    \* bound on failures the environment chooses

Servers == {"local", "cloud", "own"}
Brokers == [at : Servers \cup {"first", "second"}, tls : BOOLEAN]
NoBroker == [at |-> "none", tls |-> FALSE]
Handed == [at : {"first", "second"}, tls : {TRUE}] \* what an mqtt_url may be

ASSUME TargetAssumption ==
  /\ Pinned \in Servers \cup {"none"}
  /\ Advertised \in [Servers -> Handed \cup {NoBroker}]
  /\ Repeats \in BOOLEAN /\ Yields \in BOOLEAN
  /\ MaxMoves \in Nat /\ MaxForms \in Nat /\ MaxBoots \in Nat /\ MaxFailures \in Nat

VARIABLES
  http,      \* s_config: host (a name, or the address found), TLS and ports; s_mdns_label
  override,  \* the broker of s_mqtt_override, or NoBroker
  nvs,       \* keys server, token_srv, mqtt_url; the issuer of the token kept
  disc, st, reauth, token_ok, hb_started, \* _disc_state, enrollment, and so on
  enroll_job, \* enroll_task: waiting for an address, or for the host it posted to
  loop,      \* loop() in a probe or in transport_start, and the name it resolves
  rx,        \* the MQTT task in transport_start
  client,    \* the broker of s_mqtt
  started,   \* s_mqtt_started
  leaked,    \* clients that run and that no pointer leads to
  adv,       \* the broker each server hands out now
  told,      \* ghost: the broker of the server that issued the token, as it last said
  target,    \* ghost: the server last set
  bounds

code == <<http, override, nvs, disc, st, reauth, token_ok, hb_started, enroll_job, loop, rx, client, started>>
targetVars == <<code, leaked, adv, told, target, bounds>>

Idle == [pc |-> "idle", label |-> "none"]

\* a mutant, used by no action: the host is resolved, not the name kept for it
MutGoes(p) == [pc |-> p, label |-> http.host]

(* A task that goes to wait for an address. *)
Goes(p) == [pc |-> p, label |-> http.label]

(* parse_url: a name outside ".local" gets TLS, an address or a ".local"    *)
(* name does not; the ports follow.  "own" is an address.                   *)
Tls(s) == s = "cloud"
Label(s) == IF s = "local" THEN s ELSE "none"

(* Who is there: the address a ".local" name had. *)
Address(label) == "local address"
At(host) == IF host = "local address" THEN "local" ELSE host

Derived(s) == [at |-> s, tls |-> Tls(s)]

(* resolve_mqtt_target and pulsync_transport_get_mqtt_url.                  *)
Effective == IF override # NoBroker THEN override ELSE [at |-> At(http.host), tls |-> http.tls]

(* The server that answers a request to this host; a ".local" name that has *)
(* not been resolved reaches nobody (the comment at line 323).              *)
AnswersAt(host, tls) == {s \in Servers : At(host) = s /\ Tls(s) = tls /\ Label(host) = "none"}

Count(b, max) == bounds[b] < max /\ bounds' = [bounds EXCEPT ![b] = @ + 1]

ready == disc \in {"OVERRIDE", "RESOLVED"}

(* loop() is between two of its waits. *)
LoopRuns == loop.pc = "idle" /\ (Yields \/ rx.pc = "idle")

-----------------------------------------------------------------------------
(* Mutants, used by no action. *)

\* the name is kept unless the new host has one too
MutSetServer(s) ==
  /\ http' = [host |-> s, tls |-> Tls(s), label |-> IF Label(s) = "none" THEN http.label ELSE Label(s)]
  /\ target' = s

\* a candidate keeps the broker of the server before it
MutForget == UNCHANGED override

\* transport_start without its first test
MutMayStart == TRUE

-----------------------------------------------------------------------------
(* pulsync_transport_set_server and pulsync_transport_stop.                 *)

SetServer(s) ==
  /\ http' = [host |-> s, tls |-> Tls(s), label |-> IF s # http.host THEN Label(s) ELSE http.label]
  /\ target' = s

Forget == override' = NoBroker

(* PulsyncClass::_applyServerCandidate. *)
Candidate(s) == SetServer(s) /\ Forget

Stop == client' = NoBroker /\ started' = FALSE

(* resolve_local_host, once it returns TRUE to the caller p. *)
Resolve(p) ==
  http' = IF p.label = "none" THEN http ELSE [http EXCEPT !.host = Address(p.label)]

-----------------------------------------------------------------------------
(* Discovery and the start of an enrollment.                                *)

EnrollBegins == st' = "IN_PROGRESS" /\ enroll_job' = [pc |-> "resolve", label |-> http'.label, host |-> "none", tls |-> FALSE]
NoEnrollJob == [pc |-> "idle", label |-> "none", host |-> "none", tls |-> FALSE]

Try(s, from, to) ==
  /\ LoopRuns /\ disc = from /\ enroll_job.pc = "idle"
  /\ Candidate(s) /\ EnrollBegins
  /\ disc' = to
  /\ UNCHANGED <<nvs, reauth, token_ok, hb_started, loop, rx, client, started, leaked, adv, told, bounds>>

Wait(s, from, next) ==
  /\ LoopRuns /\ disc = from /\ st \in {"DONE", "FAILED"}
  /\ disc' = IF st = "DONE" THEN "RESOLVED" ELSE next
  /\ nvs' = IF st = "DONE" THEN [nvs EXCEPT !.token_srv = s] ELSE nvs
  /\ UNCHANGED <<http, override, st, reauth, token_ok, hb_started, enroll_job, loop, rx, client, started>>
  /\ UNCHANGED <<leaked, adv, told, target, bounds>>

RunDiscovery ==
  \/ Try("local", "TRY_LOCAL", "WAIT_LOCAL")
  \/ Wait("local", "WAIT_LOCAL", "TRY_CLOUD")
  \/ Try("cloud", "TRY_CLOUD", "WAIT_CLOUD")
  \/ Wait("cloud", "WAIT_CLOUD", "TRY_LOCAL")

RetryDue == reauth /\ st = "FAILED"

EnrollStart ==
  /\ LoopRuns /\ ready /\ enroll_job.pc = "idle"
  /\ st = "NEEDED" \/ RetryDue
  /\ UNCHANGED http /\ EnrollBegins
  /\ UNCHANGED <<override, nvs, disc, reauth, token_ok, hb_started, loop, rx, client, started>>
  /\ UNCHANGED <<leaked, adv, told, target, bounds>>

(* enroll_task: the address, then the request to what s_config holds now.   *)
JobPosts ==
  /\ enroll_job.pc = "resolve"
  /\ Resolve(enroll_job)
  /\ enroll_job' = [enroll_job EXCEPT !.pc = "post", !.host = http'.host, !.tls = http'.tls]
  /\ UNCHANGED <<override, nvs, disc, st, reauth, token_ok, hb_started, loop, rx, client, started>>
  /\ UNCHANGED <<leaked, adv, told, target, bounds>>

Says(s) == IF adv[s] # NoBroker THEN adv[s] ELSE Derived(s)

Remember(s) == nvs' = [nvs EXCEPT !.issuer = s, !.url = IF adv[s] # NoBroker THEN adv[s] ELSE @]

(* pulsync_enroll_handle_response. *)
JobEnrolled(s) ==
  /\ enroll_job.pc = "post" /\ s \in AnswersAt(enroll_job.host, enroll_job.tls)
  /\ st' = "DONE" /\ enroll_job' = NoEnrollJob
  /\ Remember(s)
  /\ override' = IF adv[s] # NoBroker THEN adv[s] ELSE override
  /\ told' = Says(s)
  /\ UNCHANGED <<http, disc, reauth, token_ok, hb_started, loop, rx, client, started>>
  /\ UNCHANGED <<leaked, adv, target, bounds>>

EnrollFails ==
  /\ st' = "FAILED" /\ enroll_job' = NoEnrollJob
  /\ UNCHANGED <<http, override, nvs, disc, reauth, token_ok, hb_started, loop, rx, client, started>>
  /\ UNCHANGED <<leaked, adv, told, target>>

JobUnanswered ==
  /\ enroll_job.pc = "post" /\ AnswersAt(enroll_job.host, enroll_job.tls) = {}
  /\ EnrollFails /\ UNCHANGED bounds

(* No address, no answer from a server that is there, or an error in it.    *)
JobFails == enroll_job.pc # "idle" /\ Count("faults", MaxFailures) /\ EnrollFails

-----------------------------------------------------------------------------
(* loop(): the probe, transport_start, the heartbeat.                       *)

(* A heartbeat answer that names another broker than the one in use.        *)
Moved == adv[nvs.issuer] \notin {NoBroker, Effective} /\ (Repeats \/ adv[nvs.issuer] # told)

PersistPush == nvs' = [nvs EXCEPT !.url = adv[nvs.issuer]]

Push ==
  /\ override' = adv[nvs.issuer] /\ told' = adv[nvs.issuer]
  /\ PersistPush /\ Stop

ProbeStarts ==
  /\ LoopRuns /\ ready /\ st = "DONE" /\ ~token_ok
  /\ loop' = Goes("probe") /\ reauth' = FALSE
  /\ UNCHANGED <<http, override, nvs, disc, st, token_ok, hb_started, enroll_job, rx, client, started>>
  /\ UNCHANGED <<leaked, adv, told, target, bounds>>

(* The answer is handled, with the start of a pushed broker, in loop().     *)
ProbeAccepted ==
  /\ loop.pc = "probe" /\ Resolve(loop)
  /\ nvs.issuer \in AnswersAt(http'.host, http'.tls)
  /\ token_ok' = TRUE
  /\ IF Moved THEN Push /\ loop' = [pc |-> "start", label |-> http'.label]
     ELSE loop' = Idle /\ UNCHANGED <<override, told, nvs, client, started>>
  /\ UNCHANGED <<disc, st, reauth, hb_started, enroll_job, rx, leaked, adv, target, bounds>>

EndProbe ==
  /\ loop.pc = "probe" /\ loop' = Idle
  /\ UNCHANGED <<override, nvs, disc, st, reauth, token_ok, hb_started, enroll_job, rx, client, started>>
  /\ UNCHANGED <<leaked, adv, told, target>>

ProbeUnanswered ==
  /\ EndProbe /\ Resolve(loop)
  /\ AnswersAt(http'.host, http'.tls) = {} /\ UNCHANGED bounds

ProbeFails == EndProbe /\ UNCHANGED http /\ Count("faults", MaxFailures)

(* recoverEnrollment, from the 401 of a server that did not issue the token *)
(* or has withdrawn it, to a request or to the CONNECT of the client.       *)
Recover ==
  /\ reauth' = TRUE /\ token_ok' = FALSE /\ hb_started' = FALSE
  /\ Stop /\ EnrollBegins
  /\ nvs' = [nvs EXCEPT !.issuer = "none"]
  /\ UNCHANGED <<override, disc, rx, leaked, adv, told, target>>

ProbeRefused ==
  /\ loop.pc = "probe" /\ Resolve(loop)
  /\ AnswersAt(http'.host, http'.tls) \notin {{}, {nvs.issuer}}
  /\ loop' = Idle /\ UNCHANGED bounds
  /\ Recover

ConnectRefused ==
  /\ LoopRuns /\ ready /\ st = "DONE" /\ ~reauth /\ client # NoBroker
  /\ Count("faults", MaxFailures)
  /\ UNCHANGED <<http, loop>>
  /\ Recover

MayStart == ~started

StartBegins ==
  /\ LoopRuns /\ ready /\ st = "DONE" /\ token_ok /\ MayStart
  /\ loop' = Goes("start")
  /\ UNCHANGED <<http, override, nvs, disc, st, reauth, token_ok, hb_started, enroll_job, rx, client, started>>
  /\ UNCHANGED <<leaked, adv, told, target, bounds>>

(* The rest of transport_start, by loop() or by the MQTT task: what it      *)
(* dials is read after the wait.                                            *)
Dial(p) ==
  /\ p.pc = "start" /\ Resolve(p)
  /\ leaked' = IF client # NoBroker THEN leaked + 1 ELSE leaked
  /\ client' = (IF override # NoBroker THEN override ELSE [at |-> At(http'.host), tls |-> http'.tls])
  /\ started' = TRUE
  /\ UNCHANGED <<override, nvs, disc, st, reauth, token_ok, hb_started, enroll_job, adv, told, target, bounds>>

LoopDials == Dial(loop) /\ loop' = Idle /\ UNCHANGED rx
RxDials   == Dial(rx) /\ rx' = Idle /\ UNCHANGED loop

(* The address is not found: the next pass of loop() tries again.           *)
Unresolved(p) ==
  /\ p.pc = "start" /\ p.label # "none"
  /\ Count("faults", MaxFailures)
  /\ UNCHANGED <<http, override, nvs, disc, st, reauth, token_ok, hb_started, enroll_job, client, started>>
  /\ UNCHANGED <<leaked, adv, told, target>>

StartFails ==
  \/ Unresolved(loop) /\ loop' = Idle /\ UNCHANGED rx
  \/ Unresolved(rx) /\ rx' = Idle /\ UNCHANGED loop

HbStart ==
  /\ LoopRuns /\ ready /\ st = "DONE" /\ token_ok /\ ~hb_started /\ client # NoBroker
  /\ hb_started' = TRUE
  /\ UNCHANGED <<http, override, nvs, disc, st, reauth, token_ok, enroll_job, loop, rx, client, started>>
  /\ UNCHANGED <<leaked, adv, told, target, bounds>>

(* A heartbeat answer in the MQTT task. *)
HeartbeatPush ==
  /\ rx.pc = "idle" /\ st = "DONE" /\ hb_started /\ client = told
  /\ Moved /\ Push /\ rx' = Goes("start")
  /\ UNCHANGED <<http, disc, st, reauth, token_ok, hb_started, enroll_job, loop, leaked, adv, target, bounds>>

(* No answer for two minutes: the server is given up, mqtt_url stays in NVS. *)
Rediscover ==
  /\ LoopRuns /\ disc = "RESOLVED" /\ st = "DONE" /\ token_ok /\ hb_started
  /\ Count("faults", MaxFailures)
  /\ Stop /\ hb_started' = FALSE /\ token_ok' = FALSE
  /\ st' = "NEEDED" /\ nvs' = [nvs EXCEPT !.issuer = "none", !.token_srv = "none"]
  /\ disc' = "TRY_LOCAL"
  /\ UNCHANGED <<http, override, reauth, enroll_job, loop, rx, leaked, adv, told, target>>

-----------------------------------------------------------------------------
(* The portal, a restart, the server.                                       *)

(* _handlePortalServer, in the httpd task. *)
PortalServer(s) ==
  /\ Count("forms", MaxForms)
  /\ nvs' = [nvs EXCEPT !.server = s] /\ SetServer(s)
  /\ UNCHANGED <<override, disc, st, reauth, token_ok, hb_started, enroll_job, loop, rx, client, started>>
  /\ UNCHANGED <<leaked, adv, told>>

(* begin(): the server set, else the one saved, else the one of the token.  *)
Fixed == IF Pinned # "none" THEN Pinned ELSE nvs.server

BootServer ==
  IF Fixed # "none" THEN Fixed
  ELSE IF nvs.issuer # "none" /\ nvs.token_srv # "none" THEN nvs.token_srv
  ELSE "cloud"

Restart ==
  /\ Count("boots", MaxBoots)
  /\ http' = [host |-> BootServer, tls |-> Tls(BootServer), label |-> Label(BootServer)]
  /\ target' = BootServer
  /\ override' = IF nvs.issuer = "none" \/ (Fixed = "none" /\ nvs.token_srv # "none") THEN NoBroker
                 ELSE nvs.url
  /\ disc' = IF Fixed # "none" THEN "OVERRIDE"
             ELSE IF nvs.issuer # "none" THEN "RESOLVED" ELSE "TRY_LOCAL"
  /\ st' = IF nvs.issuer # "none" THEN "DONE" ELSE "NEEDED"
  /\ reauth' = FALSE /\ token_ok' = FALSE /\ hb_started' = FALSE
  /\ enroll_job' = NoEnrollJob /\ loop' = Idle /\ rx' = Idle
  /\ Stop /\ leaked' = 0
  /\ UNCHANGED <<nvs, adv, told>>

(* A server relocates its broker, and says so in its next answer.           *)
Migrate(s, b) ==
  /\ adv[s] # NoBroker /\ b # adv[s]
  /\ Count("moves", MaxMoves)
  /\ adv' = [adv EXCEPT ![s] = b]
  /\ UNCHANGED <<code, leaked, told, target>>

TargetInit ==
  /\ nvs = [server |-> "none", token_srv |-> "none", url |-> NoBroker, issuer |-> "none"]
  /\ LET first == IF Pinned # "none" THEN Pinned ELSE "cloud" IN
     /\ http = [host |-> first, tls |-> Tls(first), label |-> Label(first)]
     /\ target = first
  /\ override = NoBroker
  /\ disc = IF Pinned # "none" THEN "OVERRIDE" ELSE "TRY_LOCAL"
  /\ st = "NEEDED" /\ reauth = FALSE /\ token_ok = FALSE /\ hb_started = FALSE
  /\ enroll_job = NoEnrollJob /\ loop = Idle /\ rx = Idle
  /\ client = NoBroker /\ started = FALSE /\ leaked = 0
  /\ adv = Advertised /\ told = NoBroker
  /\ bounds = [moves |-> 0, forms |-> 0, boots |-> 0, faults |-> 0]

Enrolls == JobPosts \/ JobUnanswered \/ \E s \in Servers : JobEnrolled(s)
LoopGoesOn ==
  \/ RunDiscovery \/ EnrollStart \/ ProbeStarts \/ ProbeAccepted \/ ProbeRefused \/ ProbeUnanswered
  \/ StartBegins \/ LoopDials \/ HbStart

TargetNext ==
  \/ Enrolls \/ LoopGoesOn
  \/ JobFails \/ ProbeFails \/ ConnectRefused
  \/ RxDials \/ StartFails \/ HeartbeatPush \/ Rediscover
  \/ \E s \in Servers : PortalServer(s)
  \/ Restart
  \/ \E s \in Servers, b \in Handed : Migrate(s, b)

(* loop() and the tasks go on, a server that is asked answers or fails, and *)
(* one that has moved its broker says so.                                   *)
TargetFairness ==
  /\ WF_targetVars(Enrolls) /\ WF_targetVars(LoopGoesOn) /\ WF_targetVars(RxDials) /\ WF_targetVars(HeartbeatPush)

TargetSpec == TargetInit /\ [][TargetNext]_targetVars /\ TargetFairness

-----------------------------------------------------------------------------
(* The types. *)
MaybeServer == Servers \cup {"none"}
MaybeHanded == Handed \cup {NoBroker}
Labels == {"local", "none"}
Hosts == Servers \cup {"local address"}
Targets == [host : Hosts, tls : BOOLEAN, label : Labels]
Kept == [server : MaybeServer, token_srv : {"local", "cloud", "none"}, url : MaybeHanded, issuer : MaybeServer]
Jobs == [pc : {"idle", "resolve", "post"}, label : Labels, host : Hosts \cup {"none"}, tls : BOOLEAN]
Waits == [pc : {"idle", "probe", "start"}, label : Labels]
Counts == [moves : 0..MaxMoves, forms : 0..MaxForms, boots : 0..MaxBoots, faults : 0..MaxFailures]

TargetTypeOK ==
  /\ http \in Targets /\ nvs \in Kept /\ enroll_job \in Jobs /\ bounds \in Counts
  /\ override \in MaybeHanded /\ adv \in [Servers -> MaybeHanded]
  /\ disc \in {"OVERRIDE", "TRY_LOCAL", "WAIT_LOCAL", "TRY_CLOUD", "WAIT_CLOUD", "RESOLVED"}
  /\ st \in {"NEEDED", "IN_PROGRESS", "DONE", "FAILED"}
  /\ reauth \in BOOLEAN /\ token_ok \in BOOLEAN /\ hb_started \in BOOLEAN
  /\ loop \in Waits /\ rx \in Waits /\ rx.pc # "probe"
  /\ {client, told} \subseteq Brokers \cup {NoBroker} /\ started \in BOOLEAN /\ leaked \in Nat
  /\ target \in Servers

(* The client dials the broker that the server of the token last named, or  *)
(* the one derived from that server: pulsync_enroll.c:285, "so the device   *)
(* connects to the right place", after restarts too (PulsyncClass.cpp:342,  *)
(* "so we reconnect to the right broker without re-enrolling").             *)
DialsAsTold == client # NoBroker /\ st = "DONE" => client = told

(* A server that names no broker is served by the derived one               *)
(* (pulsync_enroll.c:287, "in which case we keep deriving").                *)
DerivesWhenUntold == st = "DONE" /\ told \notin Handed => override = NoBroker

(* Requests go to the server last set, once no name is being resolved       *)
(* (pulsync_transport.h:175, "Update server configuration (HTTP target)").  *)
HostIsTarget ==
  enroll_job.pc # "resolve" /\ loop.pc = "idle" /\ rx.pc = "idle" => At(http.host) = target /\ http.tls = Tls(target)

(* There is one MQTT client (PulsyncClass.cpp:495, "no-op if already        *)
(* started").                                                               *)
OneClient == leaked = 0

(* The device ends up on the broker its server names, wherever that has     *)
(* moved and however often the token was refused or the device restarted    *)
(* (PulsyncClass.cpp:1113, "broker relocation/migration").  A first attempt *)
(* that fails with a fixed server is left alone, as run life_stuck shows.   *)
FollowsServer ==
  <>[](st = "DONE" /\ client = told /\ told = Says(nvs.issuer)) \/ <>[](st = "FAILED" /\ ~reauth)
=============================================================================
