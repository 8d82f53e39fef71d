------------------------------- MODULE Portal -------------------------------
(* Opening and closing the captive portal (src/src/core/pulsync_portal.c):   *)
(* start(), stop(), the handlers that close it, and the task that answers    *)
(* DNS queries.  start() is called by loop() (the button), by sys_evt (all   *)
(* networks failed) and by the handler of Exit when the list is empty;       *)
(* stop() only by handlers of the HTTP server.                               *)
(*                                                                          *)
(* The HTTP server and the radio are external: httpd_stop ends the server    *)
(* and the handler that called it goes on to its end, a socket that was      *)
(* closed may hold the port for some time.                                   *)
EXTENDS Integers, FiniteSets

CONSTANTS
  Loop, SysEvt, Httpd, \* the tasks that call
  DnsTasks, NoTask,    \* handles of the DNS task
  MaxBinds,            \* attempts to start the HTTP server
  Overlap,             \* whether a call may begin while another is under way
  MaxFailures          \* bound on calls of the system that fail

ASSUME PortalConstants ==
  /\ NoTask \notin DnsTasks /\ IsFiniteSet(DnsTasks)
  /\ MaxBinds \in Nat \ {0} /\ MaxFailures \in Nat /\ Overlap \in BOOLEAN
  /\ Loop # SysEvt /\ Loop # Httpd /\ SysEvt # Httpd

VARIABLES
  portal_state, \* s_state
  ap,     \* whether the radio is in mode APSTA
  server, \* whether s_server is set
  port,   \* port 80: "free", "ours" while the server listens, "lingers"
  task,   \* s_dns_task
  dns,    \* each DNS task: "none", "new", "serving" or "leaving"
  at,     \* where each caller is
  binds,  \* attempts to start the HTTP server so far, per caller
  late,   \* the last stop() has logged "DNS task did not exit in time"
  failures

net  == <<ap, server, port>>
portalVars == <<portal_state, net, task, dns, at, binds, late, failures>>

Callers == {Loop, SysEvt, Httpd}
Goes(p, where) == at' = [at EXCEPT ![p] = where]
Failure == failures < MaxFailures /\ failures' = failures + 1
MayCall(p) == at[p] = "idle" /\ (Overlap \/ \A q \in Callers : at[q] = "idle")

-----------------------------------------------------------------------------
(* pulsync_portal_start *)
Starts(p) ==
  /\ at[p] = "start"
  /\ IF portal_state = "RUNNING"
     THEN Goes(p, "idle") /\ UNCHANGED portal_state
     ELSE Goes(p, "radio") /\ portal_state' = "STARTING"
  /\ UNCHANGED <<net, task, dns, binds, late, failures>>

(* The netif, the mode and the configuration of the access point. *)
SetsAp(p) ==
  /\ at[p] = "radio" /\ Goes(p, "server")
  /\ ap' = TRUE
  /\ UNCHANGED <<portal_state, server, port, task, dns, binds, late, failures>>

ApFails(p) ==
  /\ at[p] = "radio" /\ Failure /\ Goes(p, "idle")
  /\ ap' \in {ap, TRUE}
  /\ portal_state' = "STOPPED"
  /\ UNCHANGED <<server, port, task, dns, binds, late>>

(* httpd_stop, and s_server = NULL *)
StopsServer ==
  /\ server' = FALSE
  /\ port' \in IF server /\ port = "ours" THEN {"free", "lingers"} ELSE {port}

ClearsServer(p) ==
  /\ at[p] = "server" /\ Goes(p, "bind")
  /\ StopsServer
  /\ binds' = [binds EXCEPT ![p] = 0]
  /\ UNCHANGED <<portal_state, ap, task, dns, late, failures>>

(* The port is taken, or the call fails for want of memory or sockets. *)
Refused == (port # "free" /\ UNCHANGED failures) \/ Failure

Binds(p) ==
  /\ at[p] = "bind" /\ port = "free" /\ Goes(p, "dns")
  /\ server' = TRUE /\ port' = "ours"
  /\ UNCHANGED <<portal_state, ap, task, dns, binds, late, failures>>

TriesAgain(p) ==
  /\ at[p] = "bind" /\ binds[p] + 1 < MaxBinds /\ Refused
  /\ server' = FALSE
  /\ binds' = [binds EXCEPT ![p] = @ + 1]
  /\ UNCHANGED <<portal_state, ap, port, task, dns, at, late>>

(* Mutant, used by no action: the last failure does not return. *)
MutGivesUp(p) ==
  /\ at[p] = "bind" /\ binds[p] + 1 >= MaxBinds /\ Refused
  /\ server' = FALSE /\ Goes(p, "dns")
  /\ UNCHANGED <<portal_state, ap, port, task, dns, binds, late>>

GivesUp(p) ==
  /\ at[p] = "bind" /\ binds[p] + 1 >= MaxBinds /\ Refused
  /\ server' = FALSE /\ portal_state' = "STOPPED" /\ Goes(p, "idle")
  /\ UNCHANGED <<ap, port, task, dns, binds, late>>

(* Mutant, used by no action: a DNS task is created whatever the handle. *)
MutNeedsDns == TRUE

NeedsDns == task = NoTask

(* The task that is left over from the last session is kept.                *)
LooksForDns(p) ==
  /\ at[p] = "dns" /\ Goes(p, IF NeedsDns THEN "create" ELSE "run")
  /\ UNCHANGED <<portal_state, net, task, dns, binds, late, failures>>

CreatesDns(p) ==
  /\ at[p] = "create" /\ Goes(p, "run")
  /\ \E t \in DnsTasks :
       /\ dns[t] = "none" /\ dns' = [dns EXCEPT ![t] = "new"]
       /\ task' = t
  /\ UNCHANGED <<portal_state, net, binds, late, failures>>

(* Nobody looks at the result of xTaskCreate. *)
CreateFails(p) ==
  /\ at[p] = "create" /\ Failure /\ Goes(p, "run")
  /\ UNCHANGED <<portal_state, net, task, dns, binds, late>>

Opens(p) ==
  /\ at[p] = "run" /\ Goes(p, "idle")
  /\ portal_state' = "RUNNING"
  /\ UNCHANGED <<net, task, dns, binds, late, failures>>

-----------------------------------------------------------------------------
(* pulsync_portal_stop *)
Stops ==
  /\ at[Httpd] = "stop"
  /\ IF portal_state = "STOPPED"
     THEN Goes(Httpd, "stopped") /\ UNCHANGED portal_state
     ELSE Goes(Httpd, "shut") /\ portal_state' = "STOPPED"
  /\ UNCHANGED <<net, task, dns, binds, late, failures>>

(* Mutant, used by no action: the handle is cleared, the server goes on. *)
MutShuts ==
  /\ at[Httpd] = "shut" /\ Goes(Httpd, "wait")
  /\ server' = FALSE
  /\ UNCHANGED <<portal_state, ap, port, task, dns, binds, late, failures>>

Shuts ==
  /\ at[Httpd] = "shut" /\ Goes(Httpd, "wait")
  /\ StopsServer
  /\ UNCHANGED <<portal_state, ap, task, dns, binds, late, failures>>

(* Mutant, used by no action: stop() does not wait for the DNS task. *)
MutWaits ==
  /\ at[Httpd] = "wait" /\ Goes(Httpd, "mode")
  /\ late' = FALSE
  /\ UNCHANGED <<portal_state, net, task, dns, binds, failures>>

(* Until the DNS task has cleared its handle, or a second and a half is up. *)
Waits ==
  /\ at[Httpd] = "wait" /\ Goes(Httpd, "mode")
  /\ \/ task = NoTask /\ late' = FALSE /\ UNCHANGED failures
     \/ task # NoTask /\ late' = TRUE /\ Failure
  /\ UNCHANGED <<portal_state, net, task, dns, binds>>

LeavesApMode ==
  /\ at[Httpd] = "mode" /\ Goes(Httpd, "stopped")
  /\ ap' = FALSE
  /\ UNCHANGED <<portal_state, server, port, task, dns, binds, late, failures>>

-----------------------------------------------------------------------------
(* dns_hijack_task: socket and bind, the loop while the portal runs, and    *)
(* the end, where the handle is cleared.                                    *)
DnsEnds(t) == dns' = [dns EXCEPT ![t] = "none"] /\ task' = NoTask

DnsBinds(t) ==
  /\ dns[t] = "new" /\ dns' = [dns EXCEPT ![t] = "serving"]
  /\ UNCHANGED <<portal_state, net, task, at, binds, late, failures>>

DnsFails(t) ==
  /\ dns[t] = "new" /\ Failure
  /\ DnsEnds(t)
  /\ UNCHANGED <<portal_state, net, at, binds, late>>

DnsStops(t) ==
  /\ dns[t] = "serving" /\ portal_state # "RUNNING"
  /\ dns' = [dns EXCEPT ![t] = "leaving"]
  /\ UNCHANGED <<portal_state, net, task, at, binds, late, failures>>

DnsLeaves(t) ==
  /\ dns[t] = "leaving"
  /\ DnsEnds(t)
  /\ UNCHANGED <<portal_state, net, at, binds, late, failures>>

Dns == \E t \in DnsTasks : DnsBinds(t) \/ DnsFails(t) \/ DnsStops(t) \/ DnsLeaves(t)

-----------------------------------------------------------------------------
(* Who calls: the button, unless the portal is open; portal_needed() when   *)
(* the networks have failed; a request for Exit, re-pair or the enroll      *)
(* form, which first marks the credentials as received.                     *)
Holds ==
  /\ MayCall(Loop) /\ portal_state # "RUNNING"
  /\ Goes(Loop, "start")
  /\ UNCHANGED <<portal_state, net, task, dns, binds, late, failures>>

NetworksFail ==
  /\ MayCall(SysEvt)
  /\ Goes(SysEvt, "start")
  /\ UNCHANGED <<portal_state, net, task, dns, binds, late, failures>>

Closes ==
  /\ MayCall(Httpd) /\ port = "ours"
  /\ portal_state' \in {portal_state, "CREDENTIALS_RECEIVED"}
  /\ Goes(Httpd, "stop")
  /\ UNCHANGED <<net, task, dns, binds, late, failures>>

(* The handler ends after pulsync_wifi_start, which opens the portal again  *)
(* when the list is empty.                                                  *)
Reconnects ==
  /\ at[Httpd] = "stopped"
  /\ Goes(Httpd, "idle") \/ Goes(Httpd, "start")
  /\ UNCHANGED <<portal_state, net, task, dns, binds, late, failures>>

PortFrees ==
  /\ port = "lingers" /\ port' = "free"
  /\ UNCHANGED <<portal_state, ap, server, task, dns, at, binds, late, failures>>

-----------------------------------------------------------------------------
PortalInit ==
  /\ portal_state = "STOPPED" /\ ap = FALSE /\ server = FALSE /\ port = "free"
  /\ task = NoTask /\ dns = [t \in DnsTasks |-> "none"]
  /\ at = [p \in Callers |-> "idle"] /\ binds = [p \in Callers |-> 0]
  /\ late = FALSE /\ failures = 0

StartGoesOn(p) ==
  \/ Starts(p) \/ SetsAp(p) \/ ApFails(p) \/ ClearsServer(p)
  \/ Binds(p) \/ TriesAgain(p) \/ GivesUp(p) \/ LooksForDns(p)
  \/ CreatesDns(p) \/ CreateFails(p) \/ Opens(p)

StopGoesOn == Stops \/ Shuts \/ Waits \/ LeavesApMode \/ Reconnects

PortalNext ==
  \/ Holds \/ NetworksFail \/ Closes
  \/ \E p \in Callers : StartGoesOn(p)
  \/ StopGoesOn \/ Dns \/ PortFrees

PortalSpec == PortalInit /\ [][PortalNext]_portalVars

(* A call that has begun goes on, so does the DNS task, and a port that     *)
(* lingers is free in the end.  Nobody has to call.                         *)
PortalFairness ==
  /\ \A p \in Callers : WF_portalVars(StartGoesOn(p))
  /\ WF_portalVars(StopGoesOn) /\ WF_portalVars(Dns) /\ WF_portalVars(PortFrees)

PortalFairSpec == PortalSpec /\ PortalFairness

-----------------------------------------------------------------------------
(* Types; no call tries more than MaxBinds times. *)
PortalTypeOK ==
  /\ portal_state \in {"STOPPED", "STARTING", "RUNNING", "CREDENTIALS_RECEIVED"}
  /\ ap \in BOOLEAN /\ server \in BOOLEAN /\ port \in {"free", "ours", "lingers"}
  /\ task \in DnsTasks \cup {NoTask}
  /\ dns \in [DnsTasks -> {"none", "new", "serving", "leaving"}]
  /\ at \in [Callers -> {"idle", "start", "radio", "server", "bind", "dns", "create", "run",
                         "stop", "shut", "wait", "mode", "stopped"}]
  /\ binds \in [Callers -> 0 .. MaxBinds - 1] /\ late \in BOOLEAN

(* At most one DNS task is alive, from its creation to its end, and the     *)
(* handle names it: "a quick reopen could otherwise spawn a second task     *)
(* racing on the shared UDP socket".                                        *)
OneDnsTask == \A t \in DnsTasks : dns[t] # "none" <=> task = t

(* A portal that reports RUNNING and is neither being opened nor closed has *)
(* its access point and its HTTP server.                                    *)
OpenIsReachable ==
  portal_state = "RUNNING" /\ (\A p \in Callers : at[p] \in {"idle", "start"}) => ap /\ server /\ port = "ours"

(* When the handler goes on to reconnect, "the portal has already stopped   *)
(* its AP/HTTP/DNS", unless it has logged that the DNS task is late.        *)
ClosedBeforeReconnect ==
  at[Httpd] = "stopped" => ~ap /\ ~server /\ port # "ours" /\ (late \/ task = NoTask)

(* Whoever keeps holding the button gets a portal: no failed opening, late  *)
(* DNS task or lingering port keeps it shut for ever.                       *)
KeepsOpening == []<>(at[Loop] = "start") => []<>(portal_state = "RUNNING")
=============================================================================
