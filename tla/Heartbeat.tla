----------------------------- MODULE Heartbeat -----------------------------
(***************************************************************************)
(* The heartbeat in time (src/src/core/pulsync_heartbeat.c and the passes   *)
(* of PulsyncClass::loop() that drive it): the HTTPS probe of a token, the  *)
(* periodic heartbeat over MQTT, and the decision that a server has gone    *)
(* silent.  Module Lifecycle has the same steps between the tasks, without  *)
(* time; here loop() passes many times in a unit of time, so that time goes *)
(* on only when a pass has nothing to do.  pulsync_millis() is a counter    *)
(* modulo Wrap (2^32); a unit is 30 seconds where no run says otherwise.    *)
(***************************************************************************)
EXTENDS Integers

CONSTANTS
  Wrap,       \* modulus of pulsync_millis()
  MinMs,      \* PULSYNC_HEARTBEAT_MIN_MS and _DEFAULT_MS
  Intervals,  \* what setHeartbeatInterval() is called with
  Stale,      \* stale_ms
  Retry,      \* the pause after a probe that failed
  MaxAnswer,  \* how long a server that answers takes, MQTT being connected
  MaxOutage,  \* how long the link may be missing between two answers
  MaxClock    \* bound on time

HeartbeatAssumption ==
  /\ Wrap \in Nat \ {0} /\ Wrap % 2 = 0
  /\ MinMs \in Nat /\ Intervals \subseteq Nat
  /\ Stale \in Nat /\ Retry \in Nat
  /\ MaxAnswer \in Nat /\ MaxOutage \in Nat /\ MaxClock \in Nat \ {0}

VARIABLES
  interval, last_sent, last_success, running, pending, \* s_interval_ms and so on
  https_hb_at, token_ok, hb_started, \* of PulsyncClass
  phase,       \* "search" for a server, "enroll" with it, "done"
  wifi, connected, \* the network; MQTT
  alive,       \* the server answers
  clock,       \* milliseconds since boot, not wrapped
  owed,        \* a heartbeat was sent and not answered
  armed,       \* a heartbeat has been answered since the last Start
  failed,      \* the server was down at some time since its last answer
  unprobed,    \* time a token has waited for a probe that would be sent
  unsent,      \* time since the last heartbeat that MQTT could have carried one
  waited,      \* time an answer has been owed, MQTT being connected
  offline,     \* time without link since the last answer
  quiet        \* time since the last answer

code == <<interval, last_sent, last_success, running, pending, https_hb_at, token_ok, hb_started, phase>>
net == <<wifi, connected, alive>>
seen == <<owed, armed, failed, unprobed, unsent, waited, offline, quiet>>
vars == <<code, net, clock, seen>>

now == clock % Wrap

(* (int32_t)(now - t) >= d, for a d below 2^31. *)
Passed(t, d) == LET diff == (now - t) % Wrap IN diff < Wrap \div 2 /\ diff >= d

-----------------------------------------------------------------------------
(* Mutants, used by no action. *)

\* the pause is counted from the last failure on
MutProbeDue == wifi /\ phase = "done" /\ ~token_ok /\ Passed(https_hb_at, Retry)

\* the window is half as long
MutStaleDue ==
  /\ wifi /\ phase = "done" /\ token_ok /\ hb_started
  /\ last_success # 0 /\ (now - last_success) % Wrap > Stale \div 2

-----------------------------------------------------------------------------
(* Answers of the server: pulsync_heartbeat_handle_response.                *)

Heard ==
  /\ last_success' = now
  /\ owed' = FALSE /\ failed' = FALSE /\ waited' = 0 /\ offline' = 0 /\ quiet' = 0

(* Over MQTT, in the task of the client. *)
Answer ==
  /\ owed /\ alive /\ connected
  /\ Heard /\ armed' = TRUE
  /\ UNCHANGED <<interval, last_sent, running, pending, https_hb_at, token_ok, hb_started, phase,
                 net, clock, unprobed, unsent>>

-----------------------------------------------------------------------------
(* loop(): one HTTPS heartbeat confirms the token before MQTT.              *)

ProbeDue == wifi /\ phase = "done" /\ ~token_ok /\ Passed(https_hb_at, 0)

ProbeAccepted ==
  /\ ProbeDue /\ alive
  /\ token_ok' = TRUE
  /\ Heard /\ unprobed' = 0
  /\ UNCHANGED <<interval, last_sent, running, pending, https_hb_at, hb_started, phase,
                 net, clock, armed, unsent>>

ProbeFails ==
  /\ ProbeDue /\ ~alive
  /\ https_hb_at' = (clock + Retry) % Wrap /\ unprobed' = 0
  /\ UNCHANGED <<interval, last_sent, last_success, running, pending, token_ok, hb_started, phase,
                 net, clock, owed, armed, failed, unsent, waited, offline, quiet>>

(* recoverEnrollment: the server refuses the token, in a probe or in the    *)
(* answer to CONNECT.                                                       *)
Recover ==
  /\ wifi /\ phase = "done" /\ alive /\ (ProbeDue \/ (token_ok /\ ~connected))
  /\ token_ok' = FALSE /\ hb_started' = FALSE /\ running' = FALSE /\ phase' = "enroll"
  /\ owed' = FALSE /\ unprobed' = 0
  /\ UNCHANGED <<interval, last_sent, last_success, pending, https_hb_at, net, clock,
                 armed, failed, unsent, waited, offline, quiet>>

(* transport_start, and then the client's own attempts to connect. *)
Connect ==
  /\ wifi /\ phase = "done" /\ token_ok /\ alive /\ ~connected
  /\ connected' = TRUE
  /\ UNCHANGED <<code, wifi, alive, clock, seen>>

StartDue == wifi /\ phase = "done" /\ token_ok /\ connected /\ ~hb_started

(* pulsync_heartbeat_start *)
Start ==
  /\ StartDue
  /\ running' = TRUE /\ last_sent' = now /\ hb_started' = TRUE
  /\ unsent' = 0 /\ armed' = FALSE
  /\ UNCHANGED <<interval, last_success, pending, https_hb_at, token_ok, phase,
                 net, clock, owed, failed, unprobed, waited, offline, quiet>>

(* pulsync_heartbeat_tick; publish() sends or queues, and answers true.     *)
SendDue ==
  /\ wifi /\ phase = "done" /\ token_ok /\ running /\ connected
  /\ Passed(last_sent, interval) \/ pending

Send ==
  /\ SendDue
  /\ last_sent' = now /\ pending' = FALSE
  /\ owed' = TRUE /\ unsent' = 0
  /\ UNCHANGED <<interval, last_success, running, https_hb_at, token_ok, hb_started, phase,
                 net, clock, armed, failed, unprobed, waited, offline, quiet>>

(* pulsync_heartbeat_time_since_last, 0 being the mark of no success.       *)
Silent == last_success # 0 /\ (now - last_success) % Wrap > Stale

StaleDue == wifi /\ phase = "done" /\ token_ok /\ hb_started /\ Silent

(* The server is given up: heartbeat and MQTT are stopped, the token is     *)
(* erased, discovery begins again.                                          *)
Rediscover ==
  /\ StaleDue
  /\ running' = FALSE /\ connected' = FALSE /\ hb_started' = FALSE /\ token_ok' = FALSE
  /\ phase' = "search"
  /\ owed' = FALSE /\ unprobed' = 0
  /\ UNCHANGED <<interval, last_sent, last_success, pending, https_hb_at, wifi, alive, clock,
                 armed, failed, unsent, waited, offline, quiet>>

(* Discovery and enrollment, the steps of which are those of Lifecycle.     *)
Enrolled ==
  /\ wifi /\ phase # "done" /\ alive
  /\ phase' = "done"
  /\ UNCHANGED <<interval, last_sent, last_success, running, pending, https_hb_at, token_ok, hb_started,
                 net, clock, seen>>

-----------------------------------------------------------------------------
(* Calls of the sketch *)

SetInterval(ms) ==
  /\ interval' = IF ms < MinMs THEN MinMs ELSE ms
  /\ UNCHANGED <<last_sent, last_success, running, pending, https_hb_at, token_ok, hb_started, phase,
                 net, clock, seen>>

(* pulsync_heartbeat_send_now: the tick it makes is the next Send.          *)
SendNow ==
  /\ pending' = TRUE
  /\ UNCHANGED <<interval, last_sent, last_success, running, https_hb_at, token_ok, hb_started, phase,
                 net, clock, seen>>

-----------------------------------------------------------------------------
(* The network and the server *)

WifiLost ==
  /\ wifi /\ wifi' = FALSE /\ connected' = FALSE
  /\ UNCHANGED <<code, alive, clock, seen>>

WifiBack == ~wifi /\ wifi' = TRUE /\ UNCHANGED <<code, connected, alive, clock, seen>>

LinkLost ==
  /\ connected /\ connected' = FALSE
  /\ UNCHANGED <<code, wifi, alive, clock, seen>>

ServerDies ==
  /\ alive /\ alive' = FALSE /\ failed' = TRUE
  /\ connected' \in {connected, FALSE}
  /\ UNCHANGED <<code, wifi, clock, owed, armed, unprobed, unsent, waited, offline, quiet>>

ServerBack == ~alive /\ alive' = TRUE /\ UNCHANGED <<code, wifi, connected, clock, seen>>

(* Counts stop at the last value that a property tells apart. *)
Count(n, max, yes) == IF yes /\ n < max THEN n + 1 ELSE n

TimePasses ==
  /\ clock < MaxClock
  /\ ~ProbeDue /\ ~StartDue /\ ~SendDue /\ ~StaleDue
  /\ alive /\ connected /\ owed => waited < MaxAnswer
  /\ alive /\ token_ok /\ ~connected => offline < MaxOutage
  /\ clock' = clock + 1
  /\ unprobed' = IF wifi /\ phase = "done" /\ ~token_ok THEN Count(unprobed, Retry + 1, TRUE) ELSE 0
  /\ unsent' = Count(unsent, interval + 1, running /\ connected)
  /\ waited' = Count(waited, MaxAnswer, connected /\ owed)
  /\ offline' = Count(offline, MaxOutage, ~connected)
  /\ quiet' = Count(quiet, Stale + 1, TRUE)
  /\ UNCHANGED <<code, net, owed, armed, failed>>

HeartbeatInit ==
  /\ interval = MinMs /\ last_sent = 0 /\ last_success = 0
  /\ running = FALSE /\ pending = FALSE
  /\ https_hb_at = 0 /\ token_ok = FALSE /\ hb_started = FALSE
  /\ phase = "search"
  /\ wifi = FALSE /\ connected = FALSE /\ alive = TRUE
  /\ clock = 1 /\ owed = FALSE /\ armed = FALSE /\ failed = FALSE
  /\ unprobed = 0 /\ unsent = 0 /\ waited = 0 /\ offline = 0 /\ quiet = 0

HeartbeatNext ==
  \/ Answer \/ ProbeAccepted \/ ProbeFails \/ Recover \/ Connect \/ Start \/ Send \/ Rediscover \/ Enrolled
  \/ SendNow \/ \E ms \in Intervals : SetInterval(ms)
  \/ WifiLost \/ WifiBack \/ LinkLost \/ ServerDies \/ ServerBack
  \/ TimePasses

HeartbeatSpec == HeartbeatInit /\ [][HeartbeatNext]_vars

-----------------------------------------------------------------------------
HeartbeatTypeOK ==
  /\ interval \in Nat /\ interval >= MinMs /\ phase \in {"search", "enroll", "done"}
  /\ {last_sent, last_success, https_hb_at} \subseteq 0 .. Wrap - 1
  /\ {running, pending, token_ok, hb_started, wifi, connected, alive, owed, armed, failed} \subseteq BOOLEAN
  /\ {clock, unprobed, unsent, waited, offline, quiet} \subseteq Nat

(* A server is given up only if it was down at some time since it answered  *)
(* last: "If heartbeats have not succeeded for a sustained window, the      *)
(* server we picked has stopped answering".                                 *)
AnsweringServerKept == [][Rediscover => failed]_vars

(* The same once a heartbeat has succeeded over MQTT: a network that was    *)
(* away is no sign that the server has gone.                                *)
ArmedServerKept == [][Rediscover /\ armed => failed]_vars

(* A server that answers nothing is given up once the window is over: no    *)
(* time passes with a heartbeat running and the last answer that old.       *)
SilentServerGivenUp ==
  [][clock' # clock /\ wifi /\ hb_started => quiet <= Stale]_vars

(* A token that waits for its confirmation is probed within the pause: "Any *)
(* other failure keeps the token and retries."                              *)
ProbedInTime == unprobed <= Retry

(* A running heartbeat is sent every interval that MQTT is connected; only  *)
(* an interval that was shortened, or a link that has just returned, may    *)
(* find it overdue, and then the next pass sends it.                        *)
SentEveryInterval == hb_started /\ connected => unsent <= interval \/ SendDue

(* The window is not armed before a heartbeat over MQTT has succeeded: "We  *)
(* only arm this once at least one heartbeat has succeeded, so a slow first *)
(* connect doesn't trip it."                                                *)
SlowConnectKept == [][Rediscover => armed]_vars
=============================================================================
