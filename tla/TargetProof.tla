---------------------------- MODULE TargetProof ----------------------------
(***************************************************************************)
(* Theorems about module Target: its types; that one MQTT client runs when  *)
(* loop() does not run inside the MQTT task's restart of the client; that   *)
(* with a fixed server, and servers that all name a broker, the device      *)
(* dials the broker last named, whatever fails, moves or restarts; and that *)
(* without the portal's form requests go to the server last set, and what   *)
(* the token's server said of its broker is followed.                       *)
(***************************************************************************)
EXTENDS Target, TLAPS

(* One task at a time starts the client, and only for a token that has been *)
(* confirmed; between discovery's states none runs.                         *)
Starting(p) == p.pc = "start" => client = NoBroker /\ token_ok

OneInv ==
  /\ leaked = 0
  /\ started <=> client # NoBroker
  /\ Starting(loop) /\ Starting(rx)
  /\ loop.pc # "idle" => rx.pc = "idle"
  /\ loop.pc # "idle" => st = "DONE" /\ ready
  /\ loop.pc = "probe" => ~token_ok
  /\ client # NoBroker => token_ok
  /\ hb_started => token_ok
  /\ token_ok => st = "DONE" /\ ready
  /\ enroll_job.pc # "idle" => st = "IN_PROGRESS"
  /\ disc \in {"TRY_LOCAL", "TRY_CLOUD"} => st \in {"NEEDED", "FAILED"}
  /\ nvs.issuer \in Servers => told # NoBroker

(* A device that is enrolled has the token of some server. *)
TypeInv == TargetTypeOK /\ (st = "DONE" => nvs.issuer \in Servers)

(* What the token's server named is in RAM and in NVS while a token is.     *)
BrokerInv ==
  /\ \A s \in Servers : adv[s] # NoBroker
  /\ st = "DONE" => override = told
  /\ nvs.issuer # "none" => nvs.url = told
  /\ client # NoBroker => client = told

LEMMA Values ==
  /\ Handed \subseteq Brokers /\ NoBroker \notin Brokers /\ NoBroker \in MaybeHanded
  /\ Idle \in Waits /\ Idle.pc = "idle" /\ NoEnrollJob \in Jobs /\ NoEnrollJob.pc = "idle"
  /\ \A s \in Servers : Derived(s) \in Brokers
BY DEF Handed, Brokers, NoBroker, MaybeHanded, Idle, Waits, NoEnrollJob, Jobs, Servers, Labels, Hosts, Derived, Tls

LEMMA TargetValues ==
  ASSUME NEW h \in Targets
  PROVE  /\ h.host \in Hosts /\ h.tls \in BOOLEAN /\ h.label \in Labels
         /\ \A l : [h EXCEPT !.host = Address(l)] \in Targets
         /\ [at |-> At(h.host), tls |-> h.tls] \in Brokers
         /\ [pc |-> "resolve", label |-> h.label, host |-> "none", tls |-> FALSE] \in Jobs
         /\ \A p \in {"probe", "start"} : [pc |-> p, label |-> h.label] \in Waits
         /\ \A j \in Jobs : [j EXCEPT !.pc = "post", !.host = h.host, !.tls = h.tls] \in Jobs
BY DEF Targets, Address, Hosts, Brokers, At, Servers, Jobs, Waits, Labels

LEMMA SetValues ==
  ASSUME NEW s \in Servers, NEW l \in Labels
  PROVE  /\ [host |-> s, tls |-> Tls(s), label |-> l] \in Targets
         /\ Label(s) \in Labels
BY DEF Targets, Tls, Label, Labels, Hosts, Servers

LEMMA KeptValues ==
  ASSUME NEW n \in Kept
  PROVE  /\ n.url \in MaybeHanded /\ n.issuer \in MaybeServer
         /\ n.server \in MaybeServer /\ n.token_srv \in MaybeServer
         /\ \A s \in Servers : /\ [n EXCEPT !.server = s] \in Kept
                              /\ [n EXCEPT !.issuer = s] \in Kept
                              /\ \A u \in MaybeHanded : [n EXCEPT !.issuer = s, !.url = u] \in Kept
         /\ [n EXCEPT !.issuer = "none"] \in Kept
         /\ [n EXCEPT !.issuer = "none", !.token_srv = "none"] \in Kept
         /\ \A s \in {"local", "cloud"} : [n EXCEPT !.token_srv = s] \in Kept
         /\ \A u \in MaybeHanded : [n EXCEPT !.url = u] \in Kept
BY DEF Kept, MaybeServer, Servers

LEMMA Counted ==
  ASSUME bounds \in Counts
  PROVE  /\ Count("moves", MaxMoves) => bounds' \in Counts
         /\ Count("forms", MaxForms) => bounds' \in Counts
         /\ Count("boots", MaxBoots) => bounds' \in Counts
         /\ Count("faults", MaxFailures) => bounds' \in Counts
BY TargetAssumption DEF TargetAssumption, Counts, Count

LEMMA InitTypes == TargetInit => TargetTypeOK
<1> SUFFICES ASSUME TargetInit PROVE TargetTypeOK
  OBVIOUS
<1>1. nvs \in Kept
  BY DEF TargetInit, Kept, MaybeServer, MaybeHanded
<1>2. bounds \in Counts
  BY TargetAssumption DEF TargetInit, TargetAssumption, Counts
<1>3. http \in Targets /\ target \in Servers
  BY TargetAssumption DEF TargetInit, TargetAssumption, Targets, Tls, Label, Labels, Hosts, Servers
<1>4. adv \in [Servers -> MaybeHanded]
  BY TargetAssumption DEF TargetInit, TargetAssumption, MaybeHanded
<1>5. QED BY <1>1, <1>2, <1>3, <1>4, Values DEF TargetInit, TargetTypeOK

LEMMA BootTypes ==
  ASSUME nvs \in Kept
  PROVE  BootServer \in Servers
BY KeptValues, TargetAssumption DEF BootServer, Fixed, TargetAssumption, MaybeServer, Servers

LEMMA DialTypes ==
  ASSUME NEW h \in Targets, NEW o \in MaybeHanded
  PROVE  (IF o # NoBroker THEN o ELSE [at |-> At(h.host), tls |-> h.tls]) \in Brokers
BY Values, TargetValues DEF MaybeHanded

LEMMA LeakedTypes ==
  ASSUME TargetTypeOK, leaked' = leaked \/ leaked' = leaked + 1
  PROVE  leaked' \in Nat
BY DEF TargetTypeOK

LEMMA TypesKept ==
  ASSUME TypeInv, [TargetNext]_targetVars
  PROVE  TypeInv'
<1> USE Values, TargetValues, SetValues, KeptValues, Counted DEF TargetTypeOK, TypeInv
<1>1. ASSUME NEW s \in {"local", "cloud"},
            NEW from \in {"TRY_LOCAL", "TRY_CLOUD"}, NEW to \in {"WAIT_LOCAL", "WAIT_CLOUD"}, Try(s, from, to)
     PROVE  TypeInv'
  <2>1. http' \in Targets /\ s \in Servers
    BY <1>1, SetValues DEF Try, Candidate, SetServer, Servers, Labels, Label, TypeInv, TargetTypeOK, Targets
  <2>2. enroll_job' \in Jobs
    BY <1>1, <2>1 DEF Try, EnrollBegins
  <2>3. QED BY <1>1, <2>1, <2>2 DEF Try, Candidate, SetServer, Forget, EnrollBegins
<1>2. ASSUME NEW s \in {"local", "cloud"},
            NEW from \in {"WAIT_LOCAL", "WAIT_CLOUD"}, NEW next \in {"TRY_CLOUD", "TRY_LOCAL"}, Wait(s, from, next)
     PROVE  TypeInv'
  <2>1. nvs' \in Kept /\ nvs'.issuer = nvs.issuer
    BY <1>2 DEF Wait, Kept
  <2>2. disc' \in {"RESOLVED", "TRY_CLOUD", "TRY_LOCAL"}
    BY <1>2 DEF Wait
  <2>3. QED BY <1>2, <2>1, <2>2 DEF Wait
<1>3. CASE EnrollStart
  BY <1>3 DEF EnrollStart, EnrollBegins, RetryDue
<1>4. CASE JobPosts
  BY <1>4 DEF JobPosts, Resolve
<1>5. ASSUME NEW s \in Servers, JobEnrolled(s)
     PROVE  TypeInv'
  <2>1. Says(s) \in Brokers /\ adv[s] \in MaybeHanded
    BY <1>5 DEF Says, MaybeHanded
  <2>2. nvs' \in Kept /\ nvs'.issuer = s
    <3>1. CASE adv[s] # NoBroker
      BY <1>5, <3>1, <2>1 DEF JobEnrolled, Remember, Kept
    <3>2. CASE adv[s] = NoBroker
      <4>1. nvs' = [nvs EXCEPT !.issuer = s, !.url = nvs.url]
        BY <1>5, <3>2 DEF JobEnrolled, Remember
      <4>2. QED BY <4>1, <1>5 DEF Kept
    <3>3. QED BY <3>1, <3>2
  <2>3. QED BY <1>5, <2>1, <2>2 DEF JobEnrolled
<1>6. CASE JobUnanswered
  BY <1>6 DEF JobUnanswered, EnrollFails
<1>7. CASE JobFails
  BY <1>7 DEF JobFails, EnrollFails
<1>8. CASE ProbeStarts
  BY <1>8 DEF ProbeStarts, Goes
<1>9. CASE ProbeAccepted
  <2>1. http' \in Targets /\ nvs.issuer \in Servers
    BY <1>9 DEF ProbeAccepted, Resolve, AnswersAt
  <2>2. adv[nvs.issuer] \in MaybeHanded
    BY <2>1
  <2>3. CASE Moved
    <3>1. adv[nvs.issuer] \in Handed
      BY <2>2, <2>3 DEF Moved, MaybeHanded
    <3>2. nvs' = [nvs EXCEPT !.url = adv[nvs.issuer]]
      BY <1>9, <2>3 DEF ProbeAccepted, Push, PersistPush
    <3>5. nvs' \in Kept /\ nvs'.issuer = nvs.issuer
      BY <2>2, <3>2 DEF Kept
    <3>6. override' \in MaybeHanded /\ told' \in Brokers
      BY <1>9, <2>3, <2>2, <3>1 DEF ProbeAccepted, Push
    <3>3. loop' \in Waits
      BY <1>9, <2>3, <2>1 DEF ProbeAccepted
    <3>4. QED BY <1>9, <2>1, <2>3, <3>3, <3>5, <3>6 DEF ProbeAccepted, Push, Stop
  <2>4. CASE ~Moved
    BY <1>9, <2>1, <2>4 DEF ProbeAccepted
  <2>5. QED BY <2>3, <2>4
<1>10. CASE ProbeUnanswered
  BY <1>10 DEF ProbeUnanswered, EndProbe, Resolve
<1>11. CASE ProbeFails
  BY <1>11 DEF ProbeFails, EndProbe
<1>12. CASE ProbeRefused
  <2>1. http' \in Targets
    BY <1>12 DEF ProbeRefused, Resolve
  <2>2. enroll_job' \in Jobs
    BY <1>12, <2>1 DEF ProbeRefused, Recover, EnrollBegins
  <2>3. QED BY <1>12, <2>1, <2>2 DEF ProbeRefused, Recover, Stop, EnrollBegins
<1>13. CASE ConnectRefused
  BY <1>13 DEF ConnectRefused, Recover, Stop, EnrollBegins
<1>14. CASE StartBegins
  BY <1>14 DEF StartBegins, Goes
<1>15. CASE LoopDials
  <2>1. http' \in Targets /\ client' \in Brokers
    BY <1>15, DialTypes DEF LoopDials, Dial, Resolve
  <2>2. leaked' \in Nat
    <3>1. leaked' = leaked \/ leaked' = leaked + 1
      BY <1>15 DEF LoopDials, Dial
    <3>2. QED BY <3>1, LeakedTypes
  <2>3. QED BY <1>15, <2>1, <2>2 DEF LoopDials, Dial
<1>16. CASE RxDials
  <2>1. http' \in Targets /\ client' \in Brokers
    BY <1>16, DialTypes DEF RxDials, Dial, Resolve
  <2>2. leaked' \in Nat
    <3>1. leaked' = leaked \/ leaked' = leaked + 1
      BY <1>16 DEF RxDials, Dial
    <3>2. QED BY <3>1, LeakedTypes
  <2>3. QED BY <1>16, <2>1, <2>2 DEF RxDials, Dial
<1>17. CASE StartFails
  BY <1>17 DEF StartFails, Unresolved
<1>18. CASE HbStart
  BY <1>18 DEF HbStart
<1>19. CASE HeartbeatPush
  <2>1. adv[nvs.issuer] \in Handed
    BY <1>19 DEF HeartbeatPush, Moved, MaybeHanded
  <2>2. adv[nvs.issuer] \in MaybeHanded
    BY <2>1 DEF MaybeHanded
  <2>3. nvs' \in Kept /\ nvs'.issuer = nvs.issuer
    BY <1>19, <2>2 DEF HeartbeatPush, Push, PersistPush, Kept
  <2>4. rx' \in Waits /\ rx'.pc = "start"
    BY <1>19 DEF HeartbeatPush, Goes
  <2>5. QED BY <1>19, <2>1, <2>2, <2>3, <2>4 DEF HeartbeatPush, Push, Stop
<1>20. CASE Rediscover
  BY <1>20 DEF Rediscover, Stop
<1>21. ASSUME NEW s \in Servers, PortalServer(s)
     PROVE  TypeInv'
  <2>1. http' \in Targets
    BY <1>21, SetValues DEF PortalServer, SetServer, Servers, Labels, Label, TypeInv, TargetTypeOK, Targets
  <2>2. nvs' \in Kept /\ nvs'.issuer = nvs.issuer
    BY <1>21 DEF PortalServer, Kept
  <2>3. QED BY <1>21, <2>1, <2>2 DEF PortalServer, SetServer
<1>22. CASE Restart
  <2>1. http' \in Targets /\ BootServer \in Servers
    BY <1>22, BootTypes DEF Restart
  <2>2. override' \in MaybeHanded
    BY <1>22 DEF Restart
  <2>3. st' = "DONE" => nvs.issuer \in Servers
    BY <1>22 DEF Restart, MaybeServer
  <2>4. QED BY <1>22, <2>1, <2>2, <2>3 DEF Restart, Stop
<1>23. ASSUME NEW s \in Servers, NEW b \in Handed, Migrate(s, b)
     PROVE  TypeInv'
  <2>1. b \in MaybeHanded
    BY <1>23 DEF MaybeHanded
  <2>2. adv' \in [Servers -> MaybeHanded]
    BY <1>23, <2>1 DEF Migrate
  <2>3. bounds' \in Counts
    BY <1>23 DEF Migrate
  <2>4. QED BY <1>23, <2>2, <2>3 DEF Migrate, code
<1>24. CASE UNCHANGED targetVars
  BY <1>24 DEF targetVars, code
<1>25. QED
  <2>1. CASE RunDiscovery
    BY <2>1, <1>1, <1>2 DEF RunDiscovery
  <2>2. CASE LoopGoesOn
    BY <2>1, <2>2, <1>3, <1>8, <1>9, <1>10, <1>12, <1>14, <1>15, <1>18 DEF LoopGoesOn
  <2>3. CASE Enrolls
    BY <2>3, <1>4, <1>5, <1>6 DEF Enrolls
  <2>4. QED
    BY <2>1, <2>2, <2>3, <1>7, <1>11, <1>13, <1>16, <1>17, <1>19, <1>20, <1>21, <1>22, <1>23, <1>24 DEF TargetNext

(* The types of the variables, for any servers, bounds and interleaving. *)
THEOREM TargetTypesHold == TargetSpec => []TargetTypeOK
<1>1. TargetInit => TypeInv
  BY InitTypes DEF TypeInv, TargetInit
<1>2. TypeInv /\ [TargetNext]_targetVars => TypeInv'
  BY TypesKept
<1>3. TypeInv => TargetTypeOK
  BY DEF TypeInv
<1>4. QED BY <1>1, <1>2, <1>3, PTL DEF TargetSpec

LEMMA OneKept ==
  ASSUME ~Yields, TypeInv, TypeInv', OneInv, [TargetNext]_targetVars
  PROVE  OneInv'
<1> USE Values DEF OneInv, Starting, ready, LoopRuns
<1>1. ASSUME NEW s \in {"local", "cloud"},
            NEW from \in {"TRY_LOCAL", "TRY_CLOUD"}, NEW to \in {"WAIT_LOCAL", "WAIT_CLOUD"}, Try(s, from, to)
     PROVE  OneInv'
  BY <1>1 DEF Try, Candidate, SetServer, Forget, EnrollBegins
<1>2. ASSUME NEW s \in {"local", "cloud"},
            NEW from \in {"WAIT_LOCAL", "WAIT_CLOUD"}, NEW next \in {"TRY_CLOUD", "TRY_LOCAL"}, Wait(s, from, next)
     PROVE  OneInv'
  <2>1. nvs'.issuer = nvs.issuer
    BY <1>2 DEF Wait, TypeInv, TargetTypeOK, Kept
  <2>2. QED BY <1>2, <2>1 DEF Wait
<1>3. CASE EnrollStart
  BY <1>3 DEF EnrollStart, EnrollBegins, RetryDue
<1>4. CASE JobPosts
  BY <1>4 DEF JobPosts, Resolve
<1>5. ASSUME NEW s \in Servers, JobEnrolled(s)
     PROVE  OneInv'
  <2>1. told' # NoBroker
    <3>1. CASE adv[s] # NoBroker
      BY <1>5, <3>1 DEF JobEnrolled, Says
    <3>2. CASE adv[s] = NoBroker
      BY <1>5, <3>2 DEF JobEnrolled, Says
    <3>3. QED BY <3>1, <3>2
  <2>2. token_ok' = token_ok /\ ~token_ok /\ st = "IN_PROGRESS" /\ enroll_job'.pc = "idle"
    BY <1>5 DEF JobEnrolled
  <2>3. loop.pc = "idle" /\ rx.pc # "start" /\ client = NoBroker /\ ~hb_started
    BY <2>2
  <2>4. QED BY <1>5, <2>1, <2>2, <2>3 DEF JobEnrolled
<1>6. CASE JobUnanswered
  BY <1>6 DEF JobUnanswered, EnrollFails
<1>7. CASE JobFails
  BY <1>7 DEF JobFails, EnrollFails
<1>8. CASE ProbeStarts
  BY <1>8 DEF ProbeStarts, Goes
<1>9. CASE ProbeAccepted
  <2>1. CASE Moved
    <3>1. told' # NoBroker
      BY <1>9, <2>1 DEF ProbeAccepted, Push, Moved
    <3>2. QED BY <1>9, <2>1, <3>1 DEF ProbeAccepted, Push, Stop
  <2>2. CASE ~Moved
    BY <1>9, <2>2 DEF ProbeAccepted
  <2>3. QED BY <2>1, <2>2
<1>10. CASE ProbeUnanswered
  BY <1>10 DEF ProbeUnanswered, EndProbe, Resolve
<1>11. CASE ProbeFails
  BY <1>11 DEF ProbeFails, EndProbe
<1>12. CASE ProbeRefused
  <2>1. nvs'.issuer = "none"
    BY <1>12 DEF ProbeRefused, Recover, TypeInv, TargetTypeOK, Kept
  <2>2. QED BY <1>12, <2>1 DEF ProbeRefused, Recover, Stop, EnrollBegins, Servers
<1>13. CASE ConnectRefused
  <2>1. nvs'.issuer = "none"
    BY <1>13 DEF ConnectRefused, Recover, TypeInv, TargetTypeOK, Kept
  <2>2. QED BY <1>13, <2>1 DEF ConnectRefused, Recover, Stop, EnrollBegins, Servers
<1>14. CASE StartBegins
  BY <1>14 DEF StartBegins, MayStart, Goes
<1>15. CASE LoopDials
  <2>1. http' \in Targets /\ override \in MaybeHanded
    BY DEF TypeInv, TargetTypeOK
  <2>2. client' # NoBroker
    BY <1>15, <2>1, DialTypes DEF LoopDials, Dial
  <2>3. QED BY <1>15, <2>2 DEF LoopDials, Dial
<1>16. CASE RxDials
  <2>1. http' \in Targets /\ override \in MaybeHanded
    BY DEF TypeInv, TargetTypeOK
  <2>2. client' # NoBroker
    BY <1>16, <2>1, DialTypes DEF RxDials, Dial
  <2>3. QED BY <1>16, <2>2 DEF RxDials, Dial
<1>17. CASE StartFails
  BY <1>17 DEF StartFails, Unresolved
<1>18. CASE HbStart
  BY <1>18 DEF HbStart
<1>19. CASE HeartbeatPush
  <2>1. told' # NoBroker
    BY <1>19 DEF HeartbeatPush, Push, Moved
  <2>2. client # NoBroker
    BY <1>19 DEF HeartbeatPush, TypeInv
  <2>3. loop.pc = "idle" /\ token_ok
    <3>1. loop.pc \in {"idle", "probe", "start"}
      BY DEF TypeInv, TargetTypeOK, Waits
    <3>2. QED BY <1>19, <2>2, <3>1
  <2>4. QED BY <1>19, <2>1, <2>2, <2>3 DEF HeartbeatPush, Push, Stop, Goes
<1>20. CASE Rediscover
  <2>1. nvs'.issuer = "none"
    BY <1>20 DEF Rediscover, TypeInv, TargetTypeOK, Kept
  <2>2. QED BY <1>20, <2>1 DEF Rediscover, Stop, Servers
<1>21. ASSUME NEW s \in Servers, PortalServer(s)
     PROVE  OneInv'
  <2>1. nvs'.issuer = nvs.issuer
    BY <1>21 DEF PortalServer, TypeInv, TargetTypeOK, Kept
  <2>2. QED BY <1>21, <2>1 DEF PortalServer, SetServer
<1>22. CASE Restart
  BY <1>22 DEF Restart, Stop
<1>23. ASSUME NEW s \in Servers, NEW b \in Handed, Migrate(s, b)
     PROVE  OneInv'
  BY <1>23 DEF Migrate, code
<1>24. CASE UNCHANGED targetVars
  BY <1>24 DEF targetVars, code
<1>25. QED
  <2>1. CASE RunDiscovery
    BY <2>1, <1>1, <1>2 DEF RunDiscovery
  <2>2. CASE LoopGoesOn
    BY <2>1, <2>2, <1>3, <1>8, <1>9, <1>10, <1>12, <1>14, <1>15, <1>18 DEF LoopGoesOn
  <2>3. CASE Enrolls
    BY <2>3, <1>4, <1>5, <1>6 DEF Enrolls
  <2>4. QED
    BY <2>1, <2>2, <2>3, <1>7, <1>11, <1>13, <1>16, <1>17, <1>19, <1>20, <1>21, <1>22, <1>23, <1>24 DEF TargetNext

LEMMA InitOne == TargetInit => OneInv
BY Values DEF TargetInit, OneInv, Starting, Servers

(* OneClient: two tasks that start the client never leave one behind, where *)
(* loop() does not run inside the MQTT task's stop and start.               *)
THEOREM OneClientHolds == ASSUME ~Yields PROVE TargetSpec => []OneClient
<1>1. TargetInit => TypeInv /\ OneInv
  BY InitTypes, InitOne DEF TypeInv, TargetInit
<1>2. TypeInv /\ OneInv /\ [TargetNext]_targetVars => TypeInv' /\ OneInv'
  BY TypesKept, OneKept
<1>3. OneInv => OneClient
  BY DEF OneInv, OneClient
<1>4. QED BY <1>1, <1>2, <1>3, PTL DEF TargetSpec

LEMMA BrokerKept ==
  ASSUME ~Yields, Pinned # "none", TypeInv, OneInv, BrokerInv, [TargetNext]_targetVars
  PROVE  BrokerInv'
<1> USE Values DEF OneInv, BrokerInv, Starting
<1>1. ASSUME NEW s \in {"local", "cloud"},
            NEW from \in {"TRY_LOCAL", "TRY_CLOUD"}, NEW to \in {"WAIT_LOCAL", "WAIT_CLOUD"}, Try(s, from, to)
     PROVE  BrokerInv'
  BY <1>1 DEF Try, EnrollBegins
<1>2. ASSUME NEW s \in {"local", "cloud"},
            NEW from \in {"WAIT_LOCAL", "WAIT_CLOUD"}, NEW next \in {"TRY_CLOUD", "TRY_LOCAL"}, Wait(s, from, next)
     PROVE  BrokerInv'
  <2>1. nvs'.issuer = nvs.issuer /\ nvs'.url = nvs.url
    BY <1>2 DEF Wait, TypeInv, TargetTypeOK, Kept
  <2>2. QED BY <1>2, <2>1 DEF Wait
<1>3. CASE EnrollStart
  BY <1>3 DEF EnrollStart, EnrollBegins, RetryDue
<1>4. CASE JobPosts
  BY <1>4 DEF JobPosts, Resolve
<1>5. ASSUME NEW s \in Servers, JobEnrolled(s)
     PROVE  BrokerInv'
  <2>1. told' = adv[s] /\ override' = adv[s]
    BY <1>5 DEF JobEnrolled, Says
  <2>2. nvs'.url = adv[s]
    BY <1>5 DEF JobEnrolled, Remember, TypeInv, TargetTypeOK, Kept
  <2>3. client = NoBroker /\ client' = client
    BY <1>5 DEF JobEnrolled
  <2>4. QED BY <1>5, <2>1, <2>2, <2>3 DEF JobEnrolled
<1>6. CASE JobUnanswered
  BY <1>6 DEF JobUnanswered, EnrollFails
<1>7. CASE JobFails
  BY <1>7 DEF JobFails, EnrollFails
<1>8. CASE ProbeStarts
  BY <1>8 DEF ProbeStarts, Goes
<1>9. CASE ProbeAccepted
  <2>1. CASE Moved
    <3>1. told' = adv[nvs.issuer] /\ override' = adv[nvs.issuer] /\ client' = NoBroker
      BY <1>9, <2>1 DEF ProbeAccepted, Push, Stop
    <3>2. nvs' = [nvs EXCEPT !.url = adv[nvs.issuer]]
      BY <1>9, <2>1 DEF ProbeAccepted, Push, PersistPush
    <3>3. nvs'.url = adv[nvs.issuer]
      BY <3>2 DEF TypeInv, TargetTypeOK, Kept
    <3>4. QED BY <1>9, <3>1, <3>3 DEF ProbeAccepted
  <2>2. CASE ~Moved
    BY <1>9, <2>2 DEF ProbeAccepted
  <2>3. QED BY <2>1, <2>2
<1>10. CASE ProbeUnanswered
  BY <1>10 DEF ProbeUnanswered, EndProbe, Resolve
<1>11. CASE ProbeFails
  BY <1>11 DEF ProbeFails, EndProbe
<1>12. CASE ProbeRefused
  <2>1. nvs'.issuer = "none"
    BY <1>12 DEF ProbeRefused, Recover, TypeInv, TargetTypeOK, Kept
  <2>2. QED BY <1>12, <2>1 DEF ProbeRefused, Recover, Stop, EnrollBegins
<1>13. CASE ConnectRefused
  <2>1. nvs'.issuer = "none"
    BY <1>13 DEF ConnectRefused, Recover, TypeInv, TargetTypeOK, Kept
  <2>2. QED BY <1>13, <2>1 DEF ConnectRefused, Recover, Stop, EnrollBegins
<1>14. CASE StartBegins
  BY <1>14 DEF StartBegins, MayStart, Goes
<1>15. CASE LoopDials
  <2>1. loop.pc = "start" /\ st = "DONE"
    BY <1>15 DEF LoopDials, Dial
  <2>2. override = told /\ told # NoBroker
    BY <2>1 DEF TypeInv
  <2>3. client' = told
    BY <1>15, <2>2 DEF LoopDials, Dial
  <2>4. QED BY <1>15, <2>3 DEF LoopDials, Dial
<1>16. CASE RxDials
  <2>1. rx.pc = "start" /\ st = "DONE"
    BY <1>16 DEF RxDials, Dial
  <2>2. override = told /\ told # NoBroker
    BY <2>1 DEF TypeInv
  <2>3. client' = told
    BY <1>16, <2>2 DEF RxDials, Dial
  <2>4. QED BY <1>16, <2>3 DEF RxDials, Dial
<1>17. CASE StartFails
  BY <1>17 DEF StartFails, Unresolved
<1>18. CASE HbStart
  BY <1>18 DEF HbStart
<1>19. CASE HeartbeatPush
  <2>1. told' = adv[nvs.issuer] /\ override' = adv[nvs.issuer] /\ client' = NoBroker
    BY <1>19 DEF HeartbeatPush, Push, Stop
  <2>2. nvs'.url = adv[nvs.issuer]
    BY <1>19 DEF HeartbeatPush, Push, PersistPush, TypeInv, TargetTypeOK, Kept
  <2>3. QED BY <1>19, <2>1, <2>2 DEF HeartbeatPush
<1>20. CASE Rediscover
  <2>1. nvs'.issuer = "none"
    BY <1>20 DEF Rediscover, TypeInv, TargetTypeOK, Kept
  <2>2. QED BY <1>20, <2>1 DEF Rediscover, Stop
<1>21. ASSUME NEW s \in Servers, PortalServer(s)
     PROVE  BrokerInv'
  <2>1. nvs'.issuer = nvs.issuer /\ nvs'.url = nvs.url
    BY <1>21 DEF PortalServer, TypeInv, TargetTypeOK, Kept
  <2>2. QED BY <1>21, <2>1 DEF PortalServer
<1>22. CASE Restart
  <2>1. Fixed # "none"
    BY DEF Fixed
  <2>2. client' = NoBroker /\ nvs' = nvs /\ told' = told /\ adv' = adv
    BY <1>22 DEF Restart, Stop
  <2>3. st' = "DONE" => nvs.issuer # "none" /\ override' = nvs.url
    BY <1>22, <2>1 DEF Restart
  <2>4. QED BY <2>2, <2>3
<1>23. ASSUME NEW s \in Servers, NEW b \in Handed, Migrate(s, b)
     PROVE  BrokerInv'
  <2>1. \A r \in Servers : adv'[r] # NoBroker
    BY <1>23 DEF Migrate, TypeInv, TargetTypeOK
  <2>2. QED BY <1>23, <2>1 DEF Migrate, code
<1>24. CASE UNCHANGED targetVars
  BY <1>24 DEF targetVars, code
<1>25. QED
  <2>1. CASE RunDiscovery
    BY <2>1, <1>1, <1>2 DEF RunDiscovery
  <2>2. CASE LoopGoesOn
    BY <2>1, <2>2, <1>3, <1>8, <1>9, <1>10, <1>12, <1>14, <1>15, <1>18 DEF LoopGoesOn
  <2>3. CASE Enrolls
    BY <2>3, <1>4, <1>5, <1>6 DEF Enrolls
  <2>4. QED
    BY <2>1, <2>2, <2>3, <1>7, <1>11, <1>13, <1>16, <1>17, <1>19, <1>20, <1>21, <1>22, <1>23, <1>24 DEF TargetNext

(* DialsAsTold: where the server is fixed and every server names a broker,  *)
(* the client dials the one that the token's server named last.             *)
THEOREM DialsAsToldHolds ==
  ASSUME ~Yields, Pinned # "none", \A s \in Servers : Advertised[s] # NoBroker
  PROVE  TargetSpec => []DialsAsTold
<1>1. TargetInit => TypeInv /\ OneInv /\ BrokerInv
  BY InitTypes, InitOne DEF TypeInv, TargetInit, BrokerInv
<1>2. TypeInv /\ OneInv /\ BrokerInv /\ [TargetNext]_targetVars => TypeInv' /\ OneInv' /\ BrokerInv'
  BY TypesKept, OneKept, BrokerKept
<1>3. BrokerInv => DialsAsTold
  BY DEF BrokerInv, DialsAsTold
<1>4. QED BY <1>1, <1>2, <1>3, PTL DEF TargetSpec

-----------------------------------------------------------------------------
(* The target of requests and of the client, where the portal names no      *)
(* server and loop() does not run inside the MQTT task's restart.           *)

(* A host, with its TLS, that leads to a server. *)
Aims(h, s) == At(h.host) = s /\ h.tls = Tls(s)

(* A task that waits for an address waits for that of the target.           *)
Waiting(p) == p.pc # "idle" => p.label = Label(target)

(* Requests under way go to the target, and a name that is being resolved   *)
(* is the target's.                                                         *)
HostInv ==
  /\ Aims(http, target) /\ http.label = Label(target)
  /\ enroll_job.pc = "resolve" => enroll_job.label = Label(target)
  /\ enroll_job.pc = "post" => Aims(enroll_job, target)
  /\ Waiting(loop) /\ Waiting(rx)

(* What is kept of a broker comes from the target, which has issued the     *)
(* token.                                                                   *)
ServedInv ==
  /\ override # NoBroker => adv[target] # NoBroker
  /\ Pinned # "none" =>
       target = Pinned /\ disc = "OVERRIDE" /\ (nvs.url # NoBroker => adv[Pinned] # NoBroker)
  /\ nvs.issuer # "none" =>
       /\ st = "DONE" /\ nvs.issuer = target
       /\ told \in Handed => override = told /\ nvs.url = told
       /\ told \notin Handed => told = Derived(target) /\ adv[target] = NoBroker
  /\ client # NoBroker => client = told

LEMMA InitAims == TargetInit => HostInv
<1> SUFFICES ASSUME TargetInit PROVE HostInv
  OBVIOUS
<1>1. target \in Servers /\ http = [host |-> target, tls |-> Tls(target), label |-> Label(target)]
  BY TargetAssumption DEF TargetAssumption, TargetInit, Servers
<1>2. At(target) = target
  BY <1>1 DEF At, Servers
<1>3. QED BY <1>1, <1>2, Values DEF TargetInit, HostInv, Aims, Waiting

(* A server that is set is the one requests go to.                          *)
LEMMA SetAims ==
  ASSUME NEW s \in Servers, HostInv, SetServer(s)
  PROVE  Aims(http', s) /\ http'.label = Label(s) /\ target' = s
BY DEF HostInv, Aims, SetServer, At, Servers

(* The address of the target's name leads to the target.                    *)
LEMMA ResolveAims ==
  ASSUME TypeInv, HostInv, NEW p, Resolve(p), p.label = Label(target)
  PROVE  Aims(http', target) /\ http'.label = Label(target)
<1>1. CASE p.label = "none"
  BY <1>1 DEF HostInv, Resolve
<1>2. CASE p.label # "none"
  <2>1. target = "local" /\ p.label = "local"
    BY <1>2 DEF Label
  <2>2. http'.host = "local address" /\ http'.tls = http.tls /\ http'.label = http.label
    BY <1>2, <2>1 DEF Resolve, Address, TypeInv, TargetTypeOK, Targets
  <2>3. QED BY <2>1, <2>2 DEF HostInv, Aims, At
<1>3. QED BY <1>1, <1>2

(* A recovery begins an enrollment with the target.                         *)
LEMMA RecoverAims ==
  ASSUME HostInv, loop' = Idle, Recover, Aims(http', target), http'.label = Label(target)
  PROVE  HostInv'
BY Values DEF HostInv, Aims, Waiting, Recover, EnrollBegins

LEMMA HostKept ==
  ASSUME ~Yields, MaxForms = 0, TypeInv, HostInv, [TargetNext]_targetVars
  PROVE  HostInv'
<1> USE Values DEF HostInv, Waiting
<1>1. ASSUME NEW s \in {"local", "cloud"},
            NEW from \in {"TRY_LOCAL", "TRY_CLOUD"}, NEW to \in {"WAIT_LOCAL", "WAIT_CLOUD"}, Try(s, from, to)
     PROVE  HostInv'
  <2>1. Aims(http', s) /\ http'.label = Label(s) /\ target' = s
    BY <1>1, SetAims DEF Try, Candidate, Servers
  <2>2. loop' = loop /\ rx' = rx /\ loop.pc = "idle" /\ rx.pc = "idle"
    BY <1>1 DEF Try, LoopRuns
  <2>3. enroll_job'.pc = "resolve" /\ enroll_job'.label = http'.label
    BY <1>1 DEF Try, EnrollBegins
  <2>4. QED BY <2>1, <2>2, <2>3 DEF Aims
<1>2. ASSUME NEW s \in {"local", "cloud"},
            NEW from \in {"WAIT_LOCAL", "WAIT_CLOUD"}, NEW next \in {"TRY_CLOUD", "TRY_LOCAL"}, Wait(s, from, next)
     PROVE  HostInv'
  BY <1>2 DEF Wait, Aims
<1>3. CASE EnrollStart
  BY <1>3 DEF EnrollStart, EnrollBegins, Aims
<1>4. CASE JobPosts
  <2>1. Aims(http', target) /\ http'.label = Label(target)
    BY <1>4, ResolveAims DEF JobPosts
  <2>2. enroll_job'.pc = "post" /\ enroll_job'.host = http'.host /\ enroll_job'.tls = http'.tls
    BY <1>4 DEF JobPosts, TypeInv, TargetTypeOK, Jobs
  <2>3. QED BY <1>4, <2>1, <2>2 DEF JobPosts, Aims
<1>5. ASSUME NEW s \in Servers, JobEnrolled(s)
     PROVE  HostInv'
  BY <1>5 DEF JobEnrolled, Aims
<1>6. CASE JobUnanswered
  BY <1>6 DEF JobUnanswered, EnrollFails, Aims
<1>7. CASE JobFails
  BY <1>7 DEF JobFails, EnrollFails, Aims
<1>8. CASE ProbeStarts
  BY <1>8 DEF ProbeStarts, Goes, Aims
<1>9. CASE ProbeAccepted
  <2>1. Aims(http', target) /\ http'.label = Label(target)
    BY <1>9, ResolveAims DEF ProbeAccepted
  <2>2. loop'.pc # "idle" => loop'.label = http'.label
    BY <1>9 DEF ProbeAccepted
  <2>3. QED BY <1>9, <2>1, <2>2 DEF ProbeAccepted, Aims
<1>10. CASE ProbeUnanswered
  <2>1. Aims(http', target) /\ http'.label = Label(target)
    BY <1>10, ResolveAims DEF ProbeUnanswered, EndProbe
  <2>2. QED BY <1>10, <2>1 DEF ProbeUnanswered, EndProbe, Aims
<1>11. CASE ProbeFails
  BY <1>11 DEF ProbeFails, EndProbe, Aims
<1>12. CASE ProbeRefused
  <2>1. Aims(http', target) /\ http'.label = Label(target)
    BY <1>12, ResolveAims DEF ProbeRefused
  <2>2. QED BY <1>12, <2>1, RecoverAims DEF ProbeRefused
<1>13. CASE ConnectRefused
  BY <1>13 DEF ConnectRefused, Recover, EnrollBegins, Aims
<1>14. CASE StartBegins
  BY <1>14 DEF StartBegins, Goes, Aims
<1>15. CASE LoopDials
  <2>1. Aims(http', target) /\ http'.label = Label(target)
    BY <1>15, ResolveAims DEF LoopDials, Dial
  <2>2. QED BY <1>15, <2>1 DEF LoopDials, Dial, Aims
<1>16. CASE RxDials
  <2>1. Aims(http', target) /\ http'.label = Label(target)
    BY <1>16, ResolveAims DEF RxDials, Dial
  <2>2. QED BY <1>16, <2>1 DEF RxDials, Dial, Aims
<1>17. CASE StartFails
  BY <1>17 DEF StartFails, Unresolved, Aims
<1>18. CASE HbStart
  BY <1>18 DEF HbStart, Aims
<1>19. CASE HeartbeatPush
  BY <1>19 DEF HeartbeatPush, Push, Goes, Aims
<1>20. CASE Rediscover
  BY <1>20 DEF Rediscover, Aims
<1>21. ASSUME NEW s \in Servers, PortalServer(s)
     PROVE  HostInv'
  BY <1>21 DEF PortalServer, Count, TypeInv, TargetTypeOK, Counts
<1>22. CASE Restart
  <2>1. BootServer \in Servers
    BY BootTypes DEF TypeInv, TargetTypeOK
  <2>2. At(BootServer) = BootServer
    BY <2>1 DEF At, Servers
  <2>3. QED BY <1>22, <2>2 DEF Restart, Aims
<1>23. ASSUME NEW s \in Servers, NEW b \in Handed, Migrate(s, b)
     PROVE  HostInv'
  BY <1>23 DEF Migrate, code, Aims
<1>24. CASE UNCHANGED targetVars
  BY <1>24 DEF targetVars, code, Aims
<1>25. QED
  <2>1. CASE RunDiscovery
    BY <2>1, <1>1, <1>2 DEF RunDiscovery
  <2>2. CASE LoopGoesOn
    BY <2>1, <2>2, <1>3, <1>8, <1>9, <1>10, <1>12, <1>14, <1>15, <1>18 DEF LoopGoesOn
  <2>3. CASE Enrolls
    BY <2>3, <1>4, <1>5, <1>6 DEF Enrolls
  <2>4. QED
    BY <2>1, <2>2, <2>3, <1>7, <1>11, <1>13, <1>16, <1>17, <1>19, <1>20, <1>21, <1>22, <1>23, <1>24 DEF TargetNext

(* HostIsTarget: requests go to the server last set, through any probes,    *)
(* recoveries, searches and restarts.                                       *)
THEOREM HostIsTargetHolds ==
  ASSUME ~Yields, MaxForms = 0
  PROVE  TargetSpec => []HostIsTarget
<1>1. TargetInit => TypeInv /\ HostInv
  BY InitTypes, InitAims DEF TypeInv, TargetInit
<1>2. TypeInv /\ HostInv /\ [TargetNext]_targetVars => TypeInv' /\ HostInv'
  BY TypesKept, HostKept
<1>3. HostInv => HostIsTarget
  BY DEF HostInv, HostIsTarget, Aims
<1>4. QED BY <1>1, <1>2, <1>3, PTL DEF TargetSpec

LEMMA InitServed == TargetInit => ServedInv
<1> SUFFICES ASSUME TargetInit PROVE ServedInv
  OBVIOUS
<1>1. nvs.issuer = "none" /\ nvs.url = NoBroker /\ override = NoBroker /\ client = NoBroker
  BY DEF TargetInit
<1>2. Pinned # "none" => target = Pinned /\ disc = "OVERRIDE"
  BY DEF TargetInit
<1>3. QED BY <1>1, <1>2 DEF ServedInv

(* What the server that issued the token says is what it is told to be.     *)
LEMMA SaysIs ==
  ASSUME TypeInv, NEW s \in Servers
  PROVE  /\ adv[s] # NoBroker => adv[s] \in Handed /\ Says(s) = adv[s]
         /\ adv[s] = NoBroker => Says(s) = Derived(s) /\ Derived(s) \notin Handed
<1>1. adv[s] \in Handed \cup {NoBroker}
  BY DEF TypeInv, TargetTypeOK, MaybeHanded
<1>2. Derived(s) \notin Handed
  BY DEF Derived, Handed, Servers
<1>3. QED BY <1>1, <1>2 DEF Says

(* What is dialled for an enrolled device is what its server said.          *)
LEMMA DialsTold ==
  ASSUME TypeInv, HostInv', ServedInv, UNCHANGED <<target, override>>, nvs.issuer # "none"
  PROVE  (IF override # NoBroker THEN override ELSE [at |-> At(http'.host), tls |-> http'.tls]) = told
<1>1. CASE told \in Handed
  <2>1. override = told /\ told # NoBroker
    BY <1>1, Values DEF ServedInv, Handed, NoBroker
  <2>2. QED BY <2>1
<1>2. CASE told \notin Handed
  <2>1. override = NoBroker /\ told = Derived(target)
    BY <1>2 DEF ServedInv
  <2>2. At(http'.host) = target /\ http'.tls = Tls(target)
    BY DEF HostInv, Aims
  <2>3. QED BY <2>1, <2>2 DEF Derived
<1>3. QED BY <1>1, <1>2

(* A broker that is pushed by the target.                                   *)
LEMMA PushServes ==
  ASSUME TypeInv, ServedInv, nvs.issuer # "none", Moved, Push, UNCHANGED <<disc, st, adv, target>>
  PROVE  ServedInv'
<1> DEFINE a == adv[nvs.issuer]
<1>1. nvs.issuer = target /\ target \in Servers
  BY DEF ServedInv, TypeInv, TargetTypeOK
<1>2. a \in Handed /\ a # NoBroker
  BY <1>1, SaysIs DEF Moved
<1>3. nvs'.url = a /\ nvs'.issuer = nvs.issuer
  BY DEF Push, PersistPush, TypeInv, TargetTypeOK, Kept
<1>4. override' = a /\ told' = a /\ client' = NoBroker
  BY DEF Push, Stop
<1>5. Pinned # "none" => adv[Pinned] # NoBroker
  BY <1>1, <1>2 DEF ServedInv
<1>6. QED BY <1>1, <1>2, <1>3, <1>4, <1>5 DEF ServedInv

LEMMA ServedKept ==
  ASSUME ~Yields, MaxForms = 0, Pinned # "none" \/ MaxBoots = 0,
         TypeInv, OneInv, HostInv, HostInv', ServedInv, [TargetNext]_targetVars
  PROVE  ServedInv'
<1> USE DEF ServedInv
<1>1. ASSUME NEW s \in {"local", "cloud"},
            NEW from \in {"TRY_LOCAL", "TRY_CLOUD"}, NEW to \in {"WAIT_LOCAL", "WAIT_CLOUD"}, Try(s, from, to)
     PROVE  ServedInv'
  <2>1. nvs' = nvs /\ client' = client /\ told' = told /\ override' = NoBroker /\ Pinned = "none"
    BY <1>1 DEF Try, Candidate, Forget
  <2>2. nvs.issuer = "none"
    BY <1>1 DEF Try, OneInv
  <2>3. QED BY <2>1, <2>2
<1>2. ASSUME NEW s \in {"local", "cloud"},
            NEW from \in {"WAIT_LOCAL", "WAIT_CLOUD"}, NEW next \in {"TRY_CLOUD", "TRY_LOCAL"}, Wait(s, from, next)
     PROVE  ServedInv'
  <2>1. nvs'.issuer = nvs.issuer /\ nvs'.url = nvs.url
    BY <1>2 DEF Wait, TypeInv, TargetTypeOK, Kept
  <2>2. Pinned = "none"
    BY <1>2 DEF Wait
  <2>3. QED BY <1>2, <2>1, <2>2 DEF Wait
<1>3. CASE EnrollStart
  BY <1>3 DEF EnrollStart, EnrollBegins, RetryDue
<1>4. CASE JobPosts
  BY <1>4 DEF JobPosts
<1>5. ASSUME NEW s \in Servers, JobEnrolled(s)
     PROVE  ServedInv'
  <2>1. s = target /\ target' = target /\ adv' = adv
    BY <1>5 DEF JobEnrolled, AnswersAt, HostInv, Aims
  <2>2. nvs'.issuer = s /\ nvs'.url = IF adv[s] # NoBroker THEN adv[s] ELSE nvs.url
    BY <1>5 DEF JobEnrolled, Remember, TypeInv, TargetTypeOK, Kept
  <2>3. st' = "DONE" /\ told' = Says(s) /\ client' = client /\ disc' = disc
        /\ override' = IF adv[s] # NoBroker THEN adv[s] ELSE override
    BY <1>5 DEF JobEnrolled
  <2>4. client = NoBroker
    BY <1>5 DEF JobEnrolled, OneInv
  <2>5. CASE adv[s] # NoBroker
    BY <2>1, <2>2, <2>3, <2>4, <2>5, SaysIs
  <2>6. CASE adv[s] = NoBroker
    BY <2>1, <2>2, <2>3, <2>4, <2>6, SaysIs
  <2>7. QED BY <2>5, <2>6
<1>6. CASE JobUnanswered
  BY <1>6 DEF JobUnanswered, EnrollFails, OneInv
<1>7. CASE JobFails
  BY <1>7 DEF JobFails, EnrollFails, OneInv
<1>8. CASE ProbeStarts
  BY <1>8 DEF ProbeStarts
<1>9. CASE ProbeAccepted
  <2>1. nvs.issuer # "none"
    BY <1>9 DEF ProbeAccepted, AnswersAt, Servers
  <2>2. CASE Moved
    BY <1>9, <2>1, <2>2, PushServes DEF ProbeAccepted
  <2>3. CASE ~Moved
    BY <1>9, <2>3 DEF ProbeAccepted
  <2>4. QED BY <2>2, <2>3
<1>10. CASE ProbeUnanswered
  BY <1>10 DEF ProbeUnanswered, EndProbe
<1>11. CASE ProbeFails
  BY <1>11 DEF ProbeFails, EndProbe
<1>12. CASE ProbeRefused
  <2>1. nvs'.issuer = "none" /\ nvs'.url = nvs.url
    BY <1>12 DEF ProbeRefused, Recover, TypeInv, TargetTypeOK, Kept
  <2>2. QED BY <1>12, <2>1 DEF ProbeRefused, Recover, Stop
<1>13. CASE ConnectRefused
  <2>1. nvs'.issuer = "none" /\ nvs'.url = nvs.url
    BY <1>13 DEF ConnectRefused, Recover, TypeInv, TargetTypeOK, Kept
  <2>2. QED BY <1>13, <2>1 DEF ConnectRefused, Recover, Stop
<1>14. CASE StartBegins
  BY <1>14 DEF StartBegins
<1>15. CASE LoopDials
  <2>1. nvs.issuer # "none"
    BY <1>15 DEF LoopDials, Dial, OneInv, Starting, TypeInv, Servers
  <2>2. client' = told
    BY <1>15, <2>1, DialsTold DEF LoopDials, Dial
  <2>3. QED BY <1>15, <2>2 DEF LoopDials, Dial
<1>16. CASE RxDials
  <2>1. nvs.issuer # "none"
    BY <1>16 DEF RxDials, Dial, OneInv, Starting, TypeInv, Servers
  <2>2. client' = told
    BY <1>16, <2>1, DialsTold DEF RxDials, Dial
  <2>3. QED BY <1>16, <2>2 DEF RxDials, Dial
<1>17. CASE StartFails
  BY <1>17 DEF StartFails, Unresolved
<1>18. CASE HbStart
  BY <1>18 DEF HbStart
<1>19. CASE HeartbeatPush
  <2>1. nvs.issuer # "none"
    BY <1>19 DEF HeartbeatPush, TypeInv, Servers
  <2>2. QED BY <1>19, <2>1, PushServes DEF HeartbeatPush
<1>20. CASE Rediscover
  <2>1. nvs'.issuer = "none" /\ nvs'.url = nvs.url
    BY <1>20 DEF Rediscover, TypeInv, TargetTypeOK, Kept
  <2>2. QED BY <1>20, <2>1 DEF Rediscover, Stop
<1>21. ASSUME NEW s \in Servers, PortalServer(s)
     PROVE  ServedInv'
  BY <1>21 DEF PortalServer, Count, TypeInv, TargetTypeOK, Counts
<1>22. CASE Restart
  <2>1. Pinned # "none"
    BY <1>22 DEF Restart, Count, TypeInv, TargetTypeOK, Counts
  <2>2. target' = Pinned /\ target' = target /\ disc' = "OVERRIDE"
    BY <1>22, <2>1 DEF Restart, BootServer, Fixed
  <2>3. nvs' = nvs /\ adv' = adv /\ told' = told /\ client' = NoBroker
    BY <1>22 DEF Restart, Stop
  <2>4. CASE nvs.issuer = "none"
    <3>1. override' = NoBroker
      BY <1>22, <2>4 DEF Restart
    <3>2. QED BY <2>1, <2>2, <2>3, <2>4, <3>1
  <2>5. CASE nvs.issuer # "none"
    <3>1. override' = nvs.url /\ st' = "DONE"
      BY <1>22, <2>1, <2>5 DEF Restart, Fixed
    <3>2. told \notin Handed => nvs.url = NoBroker
      BY <2>1, <2>5
    <3>3. QED BY <2>1, <2>2, <2>3, <2>5, <3>1, <3>2
  <2>6. QED BY <2>4, <2>5
<1>23. ASSUME NEW s \in Servers, NEW b \in Handed, Migrate(s, b)
     PROVE  ServedInv'
  <2>1. \A r \in Servers : adv'[r] = NoBroker <=> adv[r] = NoBroker
    BY <1>23, Values DEF Migrate, TypeInv, TargetTypeOK
  <2>2. target \in Servers /\ (Pinned # "none" => Pinned \in Servers)
    BY TargetAssumption DEF TargetAssumption, TypeInv, TargetTypeOK
  <2>3. UNCHANGED <<override, nvs, disc, st, client, told, target>>
    BY <1>23 DEF Migrate, code
  <2>4. QED BY <2>1, <2>2, <2>3
<1>24. CASE UNCHANGED targetVars
  BY <1>24 DEF targetVars, code
<1>25. QED
  <2>1. CASE RunDiscovery
    BY <2>1, <1>1, <1>2 DEF RunDiscovery
  <2>2. CASE LoopGoesOn
    BY <2>1, <2>2, <1>3, <1>8, <1>9, <1>10, <1>12, <1>14, <1>15, <1>18 DEF LoopGoesOn
  <2>3. CASE Enrolls
    BY <2>3, <1>4, <1>5, <1>6 DEF Enrolls
  <2>4. QED
    BY <2>1, <2>2, <2>3, <1>7, <1>11, <1>13, <1>16, <1>17, <1>19, <1>20, <1>21, <1>22, <1>23, <1>24 DEF TargetNext

(* Whichever servers hand a broker out, the client dials the one its server *)
(* named last, or the derived one (DialsAsTold), and nothing is left of the *)
(* broker of another server (DerivesWhenUntold): in a search until the next *)
(* restart, and with a fixed server through restarts too.                   *)
THEOREM ServerIsFollowed ==
  ASSUME ~Yields, MaxForms = 0, Pinned # "none" \/ MaxBoots = 0
  PROVE  TargetSpec => [](DialsAsTold /\ DerivesWhenUntold)
<1>1. TargetInit => TypeInv /\ OneInv /\ HostInv /\ ServedInv
  BY InitTypes, InitOne, InitAims, InitServed DEF TypeInv, TargetInit
<1>2. TypeInv /\ OneInv /\ HostInv /\ ServedInv /\ [TargetNext]_targetVars
      => TypeInv' /\ OneInv' /\ HostInv' /\ ServedInv'
  BY TypesKept, OneKept, HostKept, ServedKept
<1>3. TypeInv /\ ServedInv => DialsAsTold /\ DerivesWhenUntold
  BY DEF ServedInv, TypeInv, DialsAsTold, DerivesWhenUntold, Servers
<1>4. QED BY <1>1, <1>2, <1>3, PTL DEF TargetSpec

=============================================================================
