--------------------------- MODULE LifecycleProof ---------------------------
(* Proofs about the lifecycle: it uses the enrollment component as the      *)
(* component is specified, so that what is proved of the component holds in *)
(* the device; and the pairing code in use is the device's current one.     *)
EXTENDS Lifecycle, EnrollProof

(* A portal handler only runs where a portal may be open, and is outside    *)
(* the enrollment API before its first call; codes are codes.               *)
PortalInv ==
  /\ portal # "idle" => Httpd \in Callers
  /\ Httpd \in Callers /\ portal \in {"idle", "stopping", "stopped"} => step[Httpd] = "idle"
  /\ main_code \in Codes \cup {NoCode}
  /\ pair_code \in Codes \cup {NoCode}
  /\ form.code \in Codes \cup {NoCode}

(* The code in use is the current one, but between the portal's change of   *)
(* _pairing_code and the copy it makes in enroll_init.                      *)
Applying == Httpd \in Callers /\ step[Httpd] = "init_code"
CodeInv == /\ ~Applying => pairing_code = main_code
           /\ Applying => form.code = main_code

-----------------------------------------------------------------------------
(* Every step of loop() that is not a call leaves the component alone; a    *)
(* call is a step of its specification.                                     *)
LEMMA LoopUsesEnroll ==
  ASSUME TypeOK, PortalInv, LoopPass
  PROVE  [Next]_enrollVars
<1> USE EnrollAssumption DEF EnrollAssumption
<1>1. CASE CallGoesOn
  BY <1>1 DEF CallGoesOn, Next, CallerStep, LoopStep, PortalInv
<1>2. ASSUME NEW p, NEW n, CallStart(p, n) PROVE [Next]_enrollVars
  BY <1>2 DEF CallStart, Next, LoopStep
<1>3. CASE Discovery
  BY <1>2, <1>3 DEF Discovery, Top, Settled, TryCandidate, TryInit, TryStart, TryWait, WaitReads,
                    Won, Lost, NoServerRetry, NoServerWaits, Next, CallerStep
<1>4. CASE Recovery
  BY <1>2, <1>4 DEF Recovery, TakeUnauthorized, RecoverSkips, Recover, RecoverReset, RecoverStart,
                    Next, CallerStep, LoopStep
<1>5. CASE EnrollStep
  BY <1>2, <1>5 DEF EnrollStep, FailedWaits, FailedRetries, Check, CheckedDone, CheckedNeeded,
                    EnrollPasses, Settle, Next, LoopStep
<1>6. CASE Online
  BY <1>6 DEF Online, Probe, ProbeAccepted, ProbeRejected, ProbeFails, Gate, StartMqtt,
              StartHeartbeat, HeartbeatFresh, HeartbeatStale, Rediscover, Next, CallerStep
<1>7. QED BY <1>1, <1>3, <1>4, <1>5, <1>6 DEF LoopPass

(* The same for the portal's handlers. *)
LEMMA PortalUsesEnroll ==
  ASSUME TypeOK, PortalInv, Portal
  PROVE  [Next]_enrollVars
<1>1. CASE HttpdCall
  BY <1>1 DEF HttpdCall, Next, CallerStep, PortalInv
<1>2. CASE RepairReset
  BY <1>2 DEF RepairReset, Next, CallerStep, PortalInv
<1>3. CASE ApplyCode
  BY <1>3 DEF ApplyCode, Next, CallerStep, PortalInv
<1>4. CASE RepairStop \/ RepairTarget \/ CredentialsNoCode \/ PortalEnds
  BY <1>4 DEF RepairStop, RepairTarget, CredentialsNoCode, PortalEnds
<1>5. CASE (\E c \in Codes : Repair(c))
           \/ (\E c \in Codes \cup {NoCode}, s \in {"own", "none"} : Credentials(c, s))
           \/ SaveServer("own")
  BY <1>5 DEF Repair, Credentials, SaveServer
<1>6. QED BY <1>1, <1>2, <1>3, <1>4, <1>5 DEF Portal, Handler

(* Every step of the device is a step of the enrollment component, or       *)
(* leaves it alone.                                                         *)
LEMMA StepUsesEnroll ==
  ASSUME TypeOK, PortalInv, [LifeNext]_vars
  PROVE  [Next]_enrollVars
<1>1. CASE LoopPass
  BY <1>1, LoopUsesEnroll
<1>2. ASSUME NEW t \in Tasks, EnrollTask(t) PROVE [Next]_enrollVars
  BY <1>2 DEF EnrollTask, Send, Post, Next, TaskStep
<1>3. CASE Broker
  BY <1>3 DEF Broker, MqttConnects, MqttRefused, MqttDrops, MqttMessage, Next
<1>4. CASE Environment
  BY <1>4 DEF Environment, WifiDown, WifiUp, Revoke
<1>5. ASSUME NEW x, Expire(x) PROVE UNCHANGED enrollVars
  BY <1>5 DEF Expire
<1>6. CASE Portal
  BY <1>6, PortalUsesEnroll
<1>7. CASE Restart
  <2>1. BootCode \in Codes \cup {NoCode}
    BY LifecycleAssumption DEF LifecycleAssumption, BootCode, PortalInv
  <2>2. QED BY <1>7, <2>1 DEF Restart, Next
<1>8. CASE UNCHANGED vars
  BY <1>8 DEF vars
<1>9. QED BY <1>1, <1>2, <1>3, <1>4, <1>5, <1>6, <1>7, <1>8 DEF LifeNext

-----------------------------------------------------------------------------
(* Who writes what PortalInv and CodeInv speak of.                          *)
LEMMA LoopFrame ==
  ASSUME TypeOK, LoopPass
  PROVE  /\ UNCHANGED <<portal, form, main_code, pair_code>>
         /\ Httpd \in Callers => step'[Httpd] = step[Httpd]
         /\ pairing_code' \in {pairing_code, main_code}
<1> DEFINE Quiet == UNCHANGED <<portal, form, main_code, pair_code>>
           Frame == /\ Httpd \in Callers => step'[Httpd] = step[Httpd]
                    /\ pairing_code' \in {pairing_code, main_code}
<1> USE LifecycleAssumption DEF LifecycleAssumption, TypeOK, disco, noted, form_, At, shared, call,
                                enrollVars
<1>1. CASE CallGoesOn
  <2>1. Quiet
    BY <1>1 DEF CallGoesOn
  <2>2. Frame
    BY <1>1 DEF CallGoesOn, InitCode, InitState, ResetToken, ResetId, ResetState, CheckId,
                CheckState, StartCode, StartGivesUp, StartId, StartState, StartCreate
  <2>3. QED BY <2>1, <2>2
<1>2. ASSUME NEW p, NEW n, CallStart(p, n) PROVE Quiet /\ Frame
  BY <1>2 DEF CallStart, StartCall
<1>3. CASE Discovery
  BY <1>2, <1>3 DEF Discovery, Top, Settled, TryCandidate, TryInit, TryStart, TryWait, WaitReads,
                    Won, Lost, NoServerRetry, NoServerWaits, InitCall
<1>4. CASE Recovery
  BY <1>2, <1>4 DEF Recovery, TakeUnauthorized, RecoverSkips, Recover, RecoverReset, RecoverStart,
                    ResetCall, ClearToken
<1>5. CASE EnrollStep
  BY <1>2, <1>5 DEF EnrollStep, FailedWaits, FailedRetries, Check, CheckedDone, CheckedNeeded,
                    EnrollPasses, Settle, CheckCall
<1>6. CASE Online
  BY <1>6 DEF Online, Probe, ProbeAccepted, ProbeRejected, ProbeFails, Gate, StartMqtt,
              StartHeartbeat, HeartbeatFresh, HeartbeatStale, Rediscover, ResetCall
<1>7. QED BY <1>1, <1>3, <1>4, <1>5, <1>6 DEF LoopPass

LEMMA OthersFrame ==
  ASSUME TypeOK, (\E t \in Tasks : EnrollTask(t)) \/ Broker \/ Environment \/ (\E x : Expire(x))
  PROVE  UNCHANGED <<portal, form, main_code, pair_code, step, pairing_code>>
<1> USE DEF disco, noted, form_, shared, call, enrollVars
<1>1. ASSUME NEW t \in Tasks, EnrollTask(t)
      PROVE  UNCHANGED <<portal, form, main_code, pair_code, step, pairing_code>>
  <2>1. TaskStep(t) \/ UNCHANGED enrollVars
    BY <1>1 DEF EnrollTask, Send, Post, TaskStep
  <2>2. UNCHANGED <<step, pairing_code>>
    BY <2>1, TaskFrame
  <2>3. QED BY <1>1, <2>2 DEF EnrollTask
<1>2. CASE Broker
  BY <1>2 DEF Broker, MqttConnects, MqttRefused, MqttDrops, MqttMessage,
              RxSeesProgress, RxFailsEnrollment
<1>3. CASE Environment
  BY <1>3 DEF Environment, WifiDown, WifiUp, Revoke
<1>4. ASSUME NEW x, Expire(x)
      PROVE  UNCHANGED <<portal, form, main_code, pair_code, step, pairing_code>>
  BY <1>4 DEF Expire
<1>5. QED BY <1>1, <1>2, <1>3, <1>4

(* PortalInv and CodeInv are inductive. *)
LEMMA PortalStep ==
  ASSUME TypeOK, PortalInv, CodeInv, Portal
  PROVE  (PortalInv /\ CodeInv)'
<1> USE LifecycleAssumption DEF LifecycleAssumption, TypeOK, PortalInv, CodeInv, Applying,
                                disco, noted, form_, At, shared, call, enrollVars
<1>1. CASE HttpdCall
  <2>1. UNCHANGED <<portal, form, main_code, pair_code>> /\ Httpd \in Callers
    BY <1>1 DEF HttpdCall
  <2>2. CASE InitCode(Httpd, form.code)
    BY <2>1, <2>2 DEF InitCode
  <2>3. CASE InitState(Httpd) \/ ResetToken(Httpd) \/ ResetId(Httpd) \/ ResetState(Httpd)
    BY <2>1, <2>3 DEF InitState, ResetToken, ResetId, ResetState
  <2>4. QED BY <1>1, <2>2, <2>3 DEF HttpdCall
<1>2. CASE RepairReset
  BY <1>2 DEF RepairReset, ResetCall
<1>3. CASE ApplyCode
  <2>1. Httpd \in Callers /\ portal' \in {"target", "wifi"} /\ form' = form
    BY <1>3 DEF ApplyCode
  <2>2. /\ step'[Httpd] = "init_code" /\ main_code' = form.code
        /\ pair_code' \in {pair_code, form.code}
    BY <1>3, <2>1 DEF ApplyCode, InitCall, WriteFails
  <2>3. QED BY <2>1, <2>2
<1>4. CASE RepairStop \/ RepairTarget \/ CredentialsNoCode \/ PortalEnds
  BY <1>4 DEF RepairStop, RepairTarget, CredentialsNoCode, PortalEnds, NoForm
<1>5. ASSUME NEW c \in Codes, Repair(c) PROVE (PortalInv /\ CodeInv)'
  BY <1>5 DEF Repair, Submit, NoForm
<1>6. ASSUME NEW c \in Codes \cup {NoCode}, NEW s \in {"own", "none"}, Credentials(c, s)
      PROVE  (PortalInv /\ CodeInv)'
  BY <1>6 DEF Credentials, Submit
<1>7. CASE SaveServer("own")
  BY <1>7 DEF SaveServer, Submit
<1>8. QED BY <1>1, <1>2, <1>3, <1>4, <1>5, <1>6, <1>7 DEF Portal, Handler

LEMMA InvStep ==
  ASSUME TypeOK, PortalInv, CodeInv, [LifeNext]_vars
  PROVE  (PortalInv /\ CodeInv)'
<1> USE DEF PortalInv, CodeInv, Applying
<1>1. CASE LoopPass
  BY <1>1, LoopFrame
<1>2. CASE (\E t \in Tasks : EnrollTask(t)) \/ Broker \/ Environment \/ (\E x : Expire(x))
  BY <1>2, OthersFrame
<1>3. CASE Portal
  BY <1>3, PortalStep
<1>4. CASE Restart
  <2>1. BootCode \in Codes \cup {NoCode}
    BY LifecycleAssumption DEF LifecycleAssumption, BootCode
  <2>2. step' = [c \in Callers |-> "idle"] /\ pairing_code' = BootCode
    BY <1>4 DEF Restart, Reboot
  <2>3. portal' = "idle" /\ main_code' = BootCode /\ pair_code' = pair_code /\ form'.code = NoCode
    BY <1>4 DEF Restart, noted, NoForm
  <2>4. QED BY <2>1, <2>2, <2>3
<1>5. CASE UNCHANGED vars
  BY <1>5 DEF vars, disco, noted, form_, enrollVars, shared, call
<1>6. QED BY <1>1, <1>2, <1>3, <1>4, <1>5 DEF LifeNext

-----------------------------------------------------------------------------
(* The device implements the enrollment component, whatever the number of   *)
(* cores: with the state and the tests it keeps around the calls, loop()    *)
(* and the portal do nothing to it that its specification does not allow.   *)
THEOREM LifecycleImplementsEnroll == LifeSpec => Spec /\ [](PortalInv /\ CodeInv)
<1>1. FirstBoot => Init /\ TypeOK /\ PortalInv /\ CodeInv
  <2>1. FirstBoot => Init
    BY LifecycleAssumption DEF LifecycleAssumption, FirstBoot, Init
  <2>2. FirstBoot => TypeOK
    BY <2>1, TypeInitially
  <2>3. FirstBoot => PortalInv /\ CodeInv
    BY LifecycleAssumption DEF LifecycleAssumption, FirstBoot, EnrollInit, PortalInv, CodeInv,
                               Applying, NoForm
  <2>4. QED BY <2>1, <2>2, <2>3
<1>2. TypeOK /\ PortalInv /\ CodeInv /\ [LifeNext]_vars
        => [Next]_enrollVars /\ TypeOK' /\ PortalInv' /\ CodeInv'
  BY StepUsesEnroll, TypeStep, InvStep
<1>3. QED BY <1>1, <1>2, PTL DEF LifeSpec, Spec

(* Outside the calls, the code enrollment would post is the device's code:  *)
(* neither a discovery that starts over nor a restart brings back a code    *)
(* that the portal has replaced.                                            *)
THEOREM CodeInUse == LifeSpec => []CodesAgree
<1>1. PortalInv /\ CodeInv => CodesAgree
  BY DEF CodeInv, Applying, CodesAgree
<1>2. QED BY <1>1, LifecycleImplementsEnroll, PTL

(* What is proved of the component holds in the device: one enroll task at  *)
(* a time, and replies applied in the order of the grants.                  *)
THEOREM DeviceEnrollsInOrder == LifeSpec => []OneTaskAtATime /\ LatestGrantStored
BY LifecycleImplementsEnroll, OneTask, RepliesInOrder

(* A device whose portal is never opened does not leave IN_PROGRESS without *)
(* a task, nor use a reply that was asked for with another code.            *)
THEOREM ClosedDeviceProgress ==
  SoleCaller => (LifeSpec => [](ProgressHasTask /\ CurrentAttemptHasCurrentCode))
<1> SUFFICES ASSUME SoleCaller
             PROVE  LifeSpec => [](ProgressHasTask /\ CurrentAttemptHasCurrentCode)
  OBVIOUS
<1>1. Spec => []ProgressHasTask
  BY ProgressIsOwned
<1>2. Spec => []CurrentAttemptHasCurrentCode
  BY AttemptCodesAgree
<1>3. QED BY <1>1, <1>2, LifecycleImplementsEnroll, PTL


-----------------------------------------------------------------------------
(* The first boot gives the variables of the lifecycle their types. *)
LEMMA LifeTypeInitially == FirstBoot => LifeTypeOK
<1> SUFFICES ASSUME FirstBoot PROVE LifeTypeOK
  OBVIOUS
<1> USE LifecycleAssumption DEF LifecycleAssumption, FirstBoot
<1>1. TypeOK
  BY TypeInitially DEF Init
<1>2. server \in Server /\ disc \in {"OVERRIDE", "RESOLVED", "TRY_LOCAL"}
  BY DEF BootServer, BootDisc, Fixed, Server
<1>3. LoopTypeOK
  BY <1>2 DEF LoopTypeOK
<1>4. FlagTypeOK
  BY DEF FlagTypeOK, NoForm
<1>5. LinkTypeOK
  BY InitialValues DEF LinkTypeOK, Off, NotAsked
<1>6. WorldTypeOK
  BY DEF WorldTypeOK
<1>7. QED BY <1>1, <1>3, <1>4, <1>5, <1>6 DEF LifeTypeOK

(* Where loop() is, its discovery and its servers. *)
LEMMA LoopTypeStep == ASSUME LoopTypeOK, [LifeNext]_vars PROVE LoopTypeOK'
<1> USE LifecycleAssumption DEF LifecycleAssumption, LoopTypeOK, disco, noted, LoopGoes, WriteFails
<1>1. CASE CallGoesOn
  BY <1>1 DEF CallGoesOn
<1>2. CASE Discovery
  BY <1>2 DEF Discovery, Top, Settled, TryCandidate, TryInit, TryStart, TryWait, WaitReads, Won,
              Lost, NoServerRetry, NoServerWaits, CallStart, Candidate, Server
<1>3. CASE Recovery
  BY <1>3 DEF Recovery, TakeUnauthorized, RecoverSkips, Recover, RecoverReset, RecoverStart,
              CallStart
<1>4. CASE EnrollStep
  BY <1>4 DEF EnrollStep, FailedWaits, FailedRetries, Check, CheckedDone, CheckedNeeded,
              EnrollPasses, Settle, CallStart
<1>5. CASE Online
  BY <1>5 DEF Online, Probe, ProbeAccepted, ProbeRejected, ProbeFails, Gate, StartMqtt,
              StartHeartbeat, HeartbeatFresh, HeartbeatStale, Rediscover
<1>6. CASE (\E t \in Tasks : EnrollTask(t)) \/ Broker \/ Environment \/ (\E x : Expire(x))
  BY <1>6 DEF EnrollTask, Broker, MqttConnects, MqttRefused, MqttDrops, MqttMessage,
              Environment, WifiDown, WifiUp, Revoke, Expire
<1>7. CASE Portal
  BY <1>7 DEF Portal, Handler, HttpdCall, RepairStop, RepairReset, ApplyCode, RepairTarget,
              CredentialsNoCode, PortalEnds, Repair, Credentials, SaveServer, Server
<1>8. CASE Restart
  BY <1>8 DEF Restart, BootServer, BootDisc, Fixed, Server
<1>9. CASE UNCHANGED vars
  BY <1>9 DEF vars
<1>10. QED BY <1>1, <1>2, <1>3, <1>4, <1>5, <1>6, <1>7, <1>8, <1>9 DEF LifeNext, LoopPass

(* The flags of loop(), the codes and the portal. *)
LEMMA FlagTypeStep == ASSUME FlagTypeOK, [LifeNext]_vars PROVE FlagTypeOK'
<1> USE LifecycleAssumption
    DEF LifecycleAssumption, FlagTypeOK, disco, noted, auth, link, form_, world, LoopGoes
<1>1. CASE CallGoesOn
  BY <1>1 DEF CallGoesOn
<1>2. CASE Discovery
  BY <1>2 DEF Discovery, Top, Settled, TryCandidate, TryInit, TryStart, TryWait, WaitReads, Won,
              Lost, NoServerRetry, NoServerWaits, CallStart
<1>3. CASE Recovery
  <2>1. ASSUME NEW p, NEW n, TakeUnauthorized(p, n) \/ CallStart(p, n) PROVE FlagTypeOK'
    BY <2>1 DEF TakeUnauthorized, CallStart
  <2>2. CASE RecoverSkips \/ RecoverReset
    BY <2>2 DEF RecoverSkips, RecoverReset
  <2>3. CASE Recover
    BY <2>3 DEF Recover
  <2>4. QED BY <1>3, <2>1, <2>2, <2>3 DEF Recovery, RecoverStart
<1>4. CASE EnrollStep
  <2>1. CASE FailedWaits
    BY <2>1 DEF FailedWaits
  <2>2. CASE FailedRetries
    BY <2>2 DEF FailedRetries
  <2>3. CASE Settle
    <3>1. token_ok' \in BOOLEAN
      BY <2>3, Zenon DEF Settle
    <3>2. reauth' \in [on : BOOLEAN, wait : BOOLEAN]
      BY <2>3 DEF Settle
    <3>3. QED BY <2>3, <3>1, <3>2 DEF Settle
  <2>4. CASE Check \/ CheckedDone \/ CheckedNeeded \/ EnrollPasses
    BY <2>4 DEF Check, CheckedDone, CheckedNeeded, EnrollPasses, CallStart
  <2>5. QED BY <1>4, <2>1, <2>2, <2>3, <2>4 DEF EnrollStep
<1>5. CASE Online
  <2>1. CASE Rediscover \/ HeartbeatStale
    BY <2>1 DEF Rediscover, HeartbeatStale
  <2>2. CASE ~Rediscover /\ ~HeartbeatStale
    BY <1>5, <2>2 DEF Online, Probe, ProbeAccepted, ProbeRejected, ProbeFails, Gate,
                      StartMqtt, StartHeartbeat, HeartbeatFresh
  <2>3. QED BY <2>1, <2>2
<1>6. CASE (\E t \in Tasks : EnrollTask(t)) \/ Broker \/ Environment \/ (\E x : Expire(x))
  <2>1. ASSUME NEW t \in Tasks, EnrollTask(t) PROVE FlagTypeOK'
    <3>1. unauth' \in {unauth, TRUE}
      BY <2>1 DEF EnrollTask, Send, Post
    <3>2. UNCHANGED <<pair_code, main_code, reauth, token_ok, hb_started, wifi, timers, portal, form>>
      BY <2>1 DEF EnrollTask
    <3>3. unauth' \in BOOLEAN
      BY <3>1
    <3>4. QED BY ONLY <3>2, <3>3, FlagTypeOK DEF FlagTypeOK
  <2>2. CASE Broker
    BY <2>2 DEF Broker, MqttConnects, MqttRefused, MqttDrops, MqttMessage
  <2>3. CASE Environment \/ (\E x : Expire(x))
    BY <2>3 DEF Environment, WifiDown, WifiUp, Revoke, Expire
  <2>4. QED BY <1>6, <2>1, <2>2, <2>3
<1>7. CASE Portal
  <2>1. CASE Handler
    <3>1. CASE HttpdCall \/ RepairReset \/ RepairTarget \/ CredentialsNoCode
      BY <3>1 DEF HttpdCall, RepairReset, RepairTarget, CredentialsNoCode
    <3>2. CASE RepairStop
      BY <3>2 DEF RepairStop
    <3>3. CASE ApplyCode
      BY <3>3 DEF ApplyCode, WriteFails
    <3>4. CASE PortalEnds
      BY <3>4 DEF PortalEnds, NoForm
    <3>5. QED BY <2>1, <3>1, <3>2, <3>3, <3>4 DEF Handler
  <2>2. ASSUME NEW c \in Codes, Repair(c) PROVE FlagTypeOK'
    BY <2>2 DEF Repair, Submit, NoForm
  <2>3. ASSUME NEW c \in Codes \cup {NoCode}, NEW s \in {"own", "none"}, Credentials(c, s)
        PROVE  FlagTypeOK'
    BY <2>3 DEF Credentials, Submit, Server
  <2>4. CASE SaveServer("own")
    BY <2>4 DEF SaveServer, Submit
  <2>5. QED BY <1>7, <2>1, <2>2, <2>3, <2>4 DEF Portal
<1>8. CASE Restart
  BY <1>8 DEF Restart, BootCode, NoForm
<1>9. CASE UNCHANGED vars
  BY <1>9 DEF vars
<1>10. QED BY <1>1, <1>2, <1>3, <1>4, <1>5, <1>6, <1>7, <1>8, <1>9 DEF LifeNext, LoopPass

(* The MQTT client and the requests under way. *)
LEMMA LinkTypeStep == ASSUME LifeTypeOK, [LifeNext]_vars PROVE LinkTypeOK'
<1> USE InitialValues
    DEF LifeTypeOK, LinkTypeOK, disco, link, LoopGoes, StopMqtt, Off, NotAsked
<1>1. CASE CallGoesOn
  BY <1>1 DEF CallGoesOn
<1>2. CASE Discovery
  BY <1>2 DEF Discovery, Top, Settled, TryCandidate, TryInit, TryStart, TryWait, WaitReads, Won,
              Lost, NoServerRetry, NoServerWaits, CallStart
<1>3. CASE Recovery
  BY <1>3 DEF Recovery, TakeUnauthorized, RecoverSkips, Recover, RecoverReset, RecoverStart,
              CallStart
<1>4. CASE EnrollStep
  BY <1>4 DEF EnrollStep, FailedWaits, FailedRetries, Check, CheckedDone, CheckedNeeded,
              EnrollPasses, Settle, CallStart
<1>5. CASE Online
  <2>1. CASE Probe
    BY <2>1 DEF Probe, TypeOK, Pair, LoopTypeOK
  <2>2. CASE StartMqtt
    BY <2>2 DEF StartMqtt, TypeOK, Pair, LoopTypeOK
  <2>3. CASE ~Probe /\ ~StartMqtt
    BY <1>5, <2>3 DEF Online, ProbeAccepted, ProbeRejected, ProbeFails, Gate, StartHeartbeat,
                      HeartbeatFresh, HeartbeatStale, Rediscover
  <2>4. QED BY <2>1, <2>2, <2>3
<1>6. CASE (\E t \in Tasks : EnrollTask(t)) \/ Broker \/ Environment \/ (\E x : Expire(x))
  <2>1. ASSUME NEW t \in Tasks, EnrollTask(t) PROVE LinkTypeOK'
    <3>1. mqtt' = mqtt
      BY <2>1 DEF EnrollTask
    <3>2. server \in Server /\ tx.token \in Cred /\ 0 \in Cred
      BY DEF LoopTypeOK, TypeOK, Pair
    <3>3. asked' \in {asked, [asked EXCEPT !.post = server, !.posted = tx.token],
                      [asked EXCEPT !.post = "none", !.posted = 0]}
      BY <2>1 DEF EnrollTask, Send, Post
    <3>4. QED BY ONLY <3>1, <3>2, <3>3, LinkTypeOK DEF LinkTypeOK
  <2>2. CASE Broker
    BY <2>2 DEF Broker, MqttConnects, MqttRefused, MqttDrops, MqttMessage
  <2>3. CASE Environment \/ (\E x : Expire(x))
    BY <2>3 DEF Environment, WifiDown, WifiUp, Revoke, Expire
  <2>4. QED BY <1>6, <2>1, <2>2, <2>3
<1>7. CASE Portal
  BY <1>7 DEF Portal, Handler, HttpdCall, RepairStop, RepairReset, ApplyCode, RepairTarget,
              CredentialsNoCode, PortalEnds, Repair, Credentials, SaveServer
<1>8. CASE Restart
  BY <1>8 DEF Restart
<1>9. CASE UNCHANGED vars
  BY <1>9 DEF vars
<1>10. QED BY <1>1, <1>2, <1>3, <1>4, <1>5, <1>6, <1>7, <1>8, <1>9 DEF LifeNext, LoopPass

(* The servers' side and the bounds. *)
LEMMA WorldTypeStep == ASSUME LifeTypeOK, [LifeNext]_vars PROVE WorldTypeOK'
<1> USE LifecycleAssumption
    DEF LifecycleAssumption, LifeTypeOK, WorldTypeOK, LinkTypeOK, world, form_, Fault, NoFault
<1>1. CASE CallGoesOn
  BY <1>1 DEF CallGoesOn
<1>2. CASE Discovery
  BY <1>2 DEF Discovery, Top, Settled, TryCandidate, TryInit, TryStart, TryWait, WaitReads, Won,
              Lost, NoServerRetry, NoServerWaits, CallStart
<1>3. CASE Recovery
  BY <1>3 DEF Recovery, TakeUnauthorized, RecoverSkips, Recover, RecoverReset, RecoverStart,
              CallStart
<1>4. CASE EnrollStep
  BY <1>4 DEF EnrollStep, FailedWaits, FailedRetries, Check, CheckedDone, CheckedNeeded,
              EnrollPasses, Settle, CallStart
<1>5. CASE Online
  BY <1>5 DEF Online, Probe, ProbeAccepted, ProbeRejected, ProbeFails, Gate, StartMqtt,
              StartHeartbeat, HeartbeatFresh, HeartbeatStale, Rediscover
<1>6. CASE (\E t \in Tasks : EnrollTask(t)) \/ Broker \/ Environment \/ (\E x : Expire(x))
  <2>1. ASSUME NEW t \in Tasks, EnrollTask(t) PROVE WorldTypeOK'
    BY <2>1 DEF EnrollTask, Send, Post
  <2>2. ASSUME NEW n \in 1 .. MaxGrants, Revoke(n) PROVE WorldTypeOK'
    BY <2>2, EnrollAssumption DEF Revoke, EnrollAssumption, Cred
  <2>3. CASE Broker \/ WifiDown \/ WifiUp \/ (\E x : Expire(x))
    BY <2>3 DEF Broker, MqttConnects, MqttRefused, MqttDrops, MqttMessage, WifiDown, WifiUp,
                Expire
  <2>4. QED BY <1>6, <2>1, <2>2, <2>3 DEF Environment
<1>7. CASE Portal
  BY <1>7 DEF Portal, Handler, HttpdCall, RepairStop, RepairReset, ApplyCode, RepairTarget,
              CredentialsNoCode, PortalEnds, Repair, Credentials, SaveServer, Submit
<1>8. CASE Restart
  BY <1>8 DEF Restart
<1>9. CASE UNCHANGED vars
  BY <1>9 DEF vars
<1>10. QED BY <1>1, <1>2, <1>3, <1>4, <1>5, <1>6, <1>7, <1>8, <1>9 DEF LifeNext, LoopPass

(* Every variable of the device keeps its type. *)
THEOREM LifeTypesHold == LifeSpec => []LifeTypeOK
<1>1. LifeTypeOK /\ TypeOK' /\ [LifeNext]_vars => LifeTypeOK'
  BY LoopTypeStep, FlagTypeStep, LinkTypeStep, WorldTypeStep DEF LifeTypeOK
<1>2. QED
  BY <1>1, LifeTypeInitially, LifecycleImplementsEnroll, TypeCorrect, PTL DEF LifeSpec
=============================================================================
