---------------------------- MODULE SettledProof ----------------------------
(***************************************************************************)
(* What holds of the device until a form of the portal comes in, whatever   *)
(* fails, times out, is refused or revoked and wherever power is cut:       *)
(* SettledWithoutForm and TokensInUseStayHome of module Lifecycle.          *)
(*                                                                          *)
(* The calm invariant says where loop() can be in each state of enrollment  *)
(* and of discovery (PlaceInv, StateInv), what a task at work finds around  *)
(* it (TaskInv), that a refusal which meets an attempt has nothing to lose  *)
(* (RefusalInv), how far a check or a commit has come (CheckInv,            *)
(* CoherentInv) and what a confirmation rests on (ConfirmInv).  The origin  *)
(* invariant follows the tokens back to their issuers on top of it, and     *)
(* says what a recovery has left of the rejected one (BareRecovery).        *)
(***************************************************************************)
EXTENDS LifecycleProof

(* Where loop() is in its search, its calls and its recovery. *)
Tries  == {"TRY_LOCAL", "TRY_CLOUD"}
Waits  == {"WAIT_LOCAL", "WAIT_CLOUD"}
Chosen == disc \in {"OVERRIDE", "RESOLVED"}

InInit  == step[Loop] \in {"init_code", "init_state"}
InReset == step[Loop] \in {"reset_token", "reset_id", "reset_state"}
InCheck == step[Loop] \in {"check_id", "check_state"}

AtWork(t)     == job[t].pc \notin {"none", "exit"}
Current(t)    == job[t].id = attempt_id
Committing(t) == job[t].pc \in {"store_token", "store_id", "adopt", "done"}
Refused(t)    == job[t].pc \in {"check", "fail"} /\ job[t].cred = 0

Enrolled == nvs.token # 0 /\ nvs.id # 0

PortalClosed ==
  /\ portal = "idle" /\ form = NoForm /\ ~rx
  /\ Httpd \in Callers => step[Httpd] = "idle"

PlaceInv ==
  /\ pc \in {"try_init", "try_start", "try_wait"} => disc \in Tries
  /\ pc \in {"won", "lost"} => disc \in Waits
  /\ pc \notin {"top", "disc", "try_init", "try_start", "try_wait", "won", "lost"} => Chosen
  /\ pc = "stale_srv" => disc = "RESOLVED"
  /\ InInit => pc = "try_start"
  /\ InReset => pc \in {"restart", "stale_srv"}
  /\ InCheck => pc = "checked"
  /\ InStart => pc \in {"try_wait", "settle", "enroll", "mqtt"}
  /\ InStart /\ Chosen => reauth.on \/ pc = "settle"
  /\ pc \in {"recover", "reset", "restart"} => ret \in {"enroll", "settle", "mqtt"}
  /\ pc \in {"reset", "restart"} => reauth.on

StateInv ==
  /\ (disc \in Tries /\ pc # "try_wait") \/ disc = "NO_SERVER" \/ pc = "lost" =>
       state \notin {"IN_PROGRESS", "DONE"}
  /\ pc = "stale_srv" => state # "IN_PROGRESS" /\ (step[Loop] = "idle" => state # "DONE")
  /\ pc = "won" => state = "DONE"
  /\ disc = "RESOLVED" /\ ~reauth.on /\ pc # "stale_srv" => state = "DONE"
  /\ InCheck => state \notin {"IN_PROGRESS", "DONE"}
  /\ pc = "checked" => state # "IN_PROGRESS"
  /\ step[Loop] \in {"start_code", "start_id", "start_state"} =>
       state \notin {"IN_PROGRESS", "DONE"}
  /\ step[Loop] = "start_create" => state = "IN_PROGRESS"
  /\ step[Loop] \in {"start_state", "start_create"} => draft.id = attempt_id

(* What a task at work finds around it. *)
TaskFinds(t) ==
  /\ job[t].id <= attempt_id /\ (job[t].pc = "post" => job[t].cred = 0)
  /\ Current(t) => state = "IN_PROGRESS" /\ ~InInit /\ ~InReset
  /\ ~Current(t) =>
       /\ Refused(t) /\ reauth.on /\ disc = "OVERRIDE"
       /\ state # "DONE" /\ ~Enrolled

TaskInv == \A t \in Tasks : AtWork(t) => TaskFinds(t)

(* A 401 to the POST of a task at work can only start a recovery while the  *)
(* recovery has nothing to lose: nothing is enrolled, and the task will not *)
(* commit.                                                                  *)
RefusedMidway(t) ==
  AtWork(t) /\ Chosen /\ state = "IN_PROGRESS"
    /\ (pc = "reset" \/ (~reauth.on /\ (unauth \/ pc = "recover"))) =>
      Refused(t) /\ disc = "OVERRIDE" /\ ~Enrolled

RefusedBare(t) == Chosen /\ ~reauth.on /\ (job[t].pc = "post" \/ Refused(t)) => ~Enrolled

StartBare ==
  /\ InStart /\ Chosen /\ ~reauth.on => ~Enrolled
  /\ Chosen /\ ~reauth.on
       /\ (InCheck \/ InStart \/ (pc = "enroll" /\ state \in {"IDLE", "NEEDED"})
           \/ (pc = "checked" /\ state # "DONE")) => ~unauth

RefusalInv == (\A t \in Tasks : RefusedMidway(t) /\ RefusedBare(t)) /\ StartBare

CheckInv ==
  /\ InCheck \/ pc = "checked" => have.token = (nvs.token # 0)
  /\ step[Loop] = "check_state" \/ (pc = "checked" /\ step[Loop] = "idle") =>
       have.id = (nvs.id # 0)
  /\ InCheck /\ have.token => ram.token = nvs.token
  /\ step[Loop] = "check_state" /\ have.id => ram.id = nvs.id

(* How far a commit has come. *)
CommitSoFar(t) ==
  /\ Committing(t) => job[t].cred # 0
  /\ job[t].pc \in {"store_id", "adopt", "done"} => nvs.token = job[t].cred
  /\ job[t].pc \in {"adopt", "done"} => nvs.id = job[t].cred
  /\ job[t].pc = "done" => ram = nvs /\ tx = nvs

DoneInv ==
  state = "DONE" /\ step[Loop] = "idle" /\ pc # "reset" => nvs = ram /\ tx = ram /\ Enrolled

CoherentInv == (\A t \in Tasks : CommitSoFar(t)) /\ DoneInv

ConfirmInv ==
  /\ token_ok =>
       /\ Chosen /\ state = "DONE" /\ step[Loop] = "idle" /\ ~reauth.on
       /\ pc # "reset" /\ tx.token \in accepted
  /\ mqtt.st # "off" \/ hb_started \/ pc = "start" => token_ok
  /\ mqtt.st # "off" => mqtt.token \in accepted
  /\ pc \in {"probe", "reply"} => state = "DONE" /\ step[Loop] = "idle" /\ ~reauth.on
  /\ pc = "reply" => asked.token = tx.token

CalmInv ==
  /\ PortalClosed /\ PlaceInv /\ StateInv /\ TaskInv /\ RefusalInv /\ CheckInv
  /\ CoherentInv /\ ConfirmInv

(* From the choice of a candidate to its verdict the target is the          *)
(* candidate.                                                               *)
ServerInv ==
  /\ pc \in {"try_init", "try_start", "try_wait"} \/ disc \in Waits =>
       server = Candidate[disc]
  /\ pc \in {"try_init", "try_start", "try_wait", "won", "lost"} => cand = Candidate[disc]

(* No credential is ahead of the grants. *)
GrantInv ==
  /\ nvs.token <= granted /\ ram.token <= granted /\ tx.token <= granted
  /\ asked.token <= granted /\ mqtt.token <= granted
  /\ \A t \in Tasks : job[t].cred <= granted

(* A POST goes to the present target, and what a task at work has been      *)
(* granted comes from there.                                                *)
Asking ==
  /\ asked.post # "none" => asked.post = server /\ \E t \in Tasks : job[t].pc = "post"
  /\ asked.post = "none" => asked.posted = 0

Posted(t) == AtWork(t) /\ job[t].cred # 0 => issuer[job[t].cred] = server

Tried == (disc \in Waits \/ pc = "try_wait") /\ state = "DONE" => issuer[tx.token] = server

PostInv == Asking /\ (\A t \in Tasks : Posted(t)) /\ Tried

(* Before the first restart the token is at home with the target. *)
DoneHome ==
  state = "DONE" /\ step[Loop] = "idle" /\ pc # "reset" => issuer[tx.token] = server

StoredHome == Chosen /\ nvs.token # 0 => issuer[nvs.token] = server

HomeInv == DoneHome /\ StoredHome

(* A confirmed token comes from the target, and what MQTT has from its own. *)
ConfirmHome ==
  /\ token_ok => issuer[tx.token] = server
  /\ mqtt.st # "off" => issuer[mqtt.token] = mqtt.server
  /\ pc = "reply" => asked.server = server

(* The user's own server is searched for by nobody and noted by nobody.     *)
FixedInv ==
  /\ saved_server = "none"
  /\ disc = "OVERRIDE" => Pinned # "none"
  /\ Pinned # "none" => disc = "OVERRIDE" /\ token_srv = "none"

(* A recovery does not search.  If no erase fails it finds no token in NVS  *)
(* once it is through its reset, and puts none into its POST.               *)
RecoveryStays == reauth.on => Chosen /\ pc # "stale_srv"

PostIsBare == reauth.on => asked.posted = 0

TokenIsNew ==
  reauth.on /\ tx.token # 0 =>
    (state = "DONE" /\ pc # "reset" /\ step[Loop] = "idle") \/ \E t \in Tasks : job[t].pc = "done"

TokenErased ==
  /\ step[Loop] \in {"reset_id", "reset_state"} => nvs.token = 0
  /\ reauth.on /\ pc # "reset" /\ step[Loop] # "reset_token" /\ state # "DONE"
       /\ (\A t \in Tasks : ~Committing(t)) => nvs.token = 0

BareRecovery == PostIsBare /\ TokenIsNew /\ TokenErased

(* What is noted as the issuer. *)
NoteInv ==
  /\ disc = "RESOLVED" /\ pc # "stale_srv" => token_srv \in {"none", server}
  /\ disc = "RESOLVED" /\ nvs.token # 0 => token_srv \in {"none", issuer[nvs.token]}

FirstNoteInv == disc # "RESOLVED" => token_srv = "none"

(* Without a cut or a failing write NVS is empty unless enrollment is DONE, *)
(* is being erased, or is being written.                                    *)
Bare ==
  state # "DONE" /\ step[Loop] \notin {"reset_token", "reset_id"}
    /\ (\A t \in Tasks : ~Committing(t)) => nvs = Empty

BareReset ==
  /\ step[Loop] = "reset_id" => nvs.token = 0
  /\ step[Loop] = "reset_state" => nvs = Empty

BareCommit(t) ==
  /\ job[t].pc = "store_token" => nvs = Empty
  /\ job[t].pc = "store_id" => nvs.id = 0

ErasedInv == Bare /\ BareReset /\ \A t \in Tasks : BareCommit(t)

(* Two grants meet in NVS only between the two writes of a commit. *)
PairInv == Enrolled /\ nvs.token # nvs.id => \E t \in Tasks : job[t].pc = "store_id"

OriginInv ==
  /\ ServerInv /\ GrantInv /\ PostInv /\ ConfirmHome /\ FixedInv /\ RecoveryStays
  /\ reboots = 0 => HomeInv
  /\ ~NvsFails => BareRecovery
  /\ ~NvsFails /\ reboots = 0 => FirstNoteInv /\ ErasedInv
  /\ ~NvsFails /\ reboots <= 1 => NoteInv /\ PairInv
-----------------------------------------------------------------------------
(* Until the first form, and while no message is being looked at, nothing of *)
(* the portal moves.                                                        *)
LEMMA NoHandler ==
  ASSUME LifeTypeOK, PortalClosed, Portal
  PROVE  submits' # 0
<1> USE DEF PortalClosed, LifeTypeOK, WorldTypeOK, Submit
<1>1. ~Handler
  BY DEF Handler, HttpdCall, InitCode, InitState, ResetToken, ResetId, ResetState, At,
         RepairStop, RepairReset, ApplyCode, RepairTarget, CredentialsNoCode, PortalEnds
<1>2. \A c : Repair(c) => submits' = submits + 1
  BY DEF Repair
<1>3. \A c, s : Credentials(c, s) => submits' = submits + 1
  BY DEF Credentials
<1>4. SaveServer("own") => submits' = submits + 1
  BY DEF SaveServer
<1>5. submits \in Nat
  BY LifecycleAssumption DEF LifecycleAssumption
<1>6. QED BY <1>1, <1>2, <1>3, <1>4, <1>5 DEF Portal

(* What the tasks and the world leave to loop(). *)
Others == (\E t \in Tasks : EnrollTask(t)) \/ Broker \/ Environment \/ (\E x : Expire(x))

(* A step of a task, the broker, WiFi or a deadline leaves loop()'s own     *)
(* variables alone, and its calls and drafts.                               *)
LEMMA OthersKeep ==
  ASSUME TypeOK, Others
  PROVE  /\ UNCHANGED <<pc, ret, disco, reauth, token_ok, hb_started, form_, reboots>>
         /\ UNCHANGED <<attempt_id, pairing_code, step, have, draft>>
<1> USE DEF auth, form_, shared, call, outer, enrollVars
<1>1. ASSUME NEW t \in Tasks, EnrollTask(t)
      PROVE  /\ UNCHANGED <<pc, ret, disco, reauth, token_ok, hb_started, form_, reboots>>
             /\ UNCHANGED <<attempt_id, pairing_code, step, have, draft>>
  <2>1. TaskStep(t) \/ UNCHANGED enrollVars
    BY <1>1 DEF EnrollTask, Send, Post, TaskStep
  <2>2. UNCHANGED <<attempt_id, pairing_code, step, have, draft, reboots>>
    BY <2>1 DEF TaskStep, PostGranted, PostFails, CheckAttempt, Fail, StoreToken,
                StoreId, Adopt, Done, Exit
  <2>3. QED BY <1>1, <2>2 DEF EnrollTask
<1>2. CASE Broker
  BY <1>2 DEF Broker, MqttConnects, MqttRefused, MqttDrops, MqttMessage,
              RxSeesProgress, RxFailsEnrollment
<1>3. CASE Environment \/ (\E x : Expire(x))
  BY <1>3 DEF Environment, WifiDown, WifiUp, Revoke, Expire
<1>4. QED BY <1>1, <1>2, <1>3 DEF Others

(* Before the first form a message never reaches the enrollment parser: MQTT *)
(* runs only while enrollment is DONE (pulsync_transport.c, _handleRx).     *)
LEMMA WorldKeeps ==
  ASSUME CalmInv, Broker \/ Environment \/ (\E x : Expire(x))
  PROVE  UNCHANGED <<enrollVars, form_, asked, issuer>>
<1>1. ~MqttMessage
  BY DEF MqttMessage, RxSeesProgress, RxFailsEnrollment, CalmInv, PortalClosed, ConfirmInv
<1>2. Broker => UNCHANGED <<enrollVars, form_, asked, issuer>>
  BY <1>1 DEF Broker, MqttConnects, MqttRefused, MqttDrops, world
<1>3. Environment => UNCHANGED <<enrollVars, form_, asked, issuer>>
  BY DEF Environment, WifiDown, WifiUp, Revoke, link
<1>4. (\E x : Expire(x)) => UNCHANGED <<enrollVars, form_, asked, issuer>>
  BY DEF Expire, link, world
<1>5. QED BY <1>2, <1>3, <1>4

(* A step of enroll_task is a step of the only one. *)
LEMMA OnlyWorker ==
  ASSUME LifeTypeOK, HandleInv, NEW u \in Tasks, EnrollTask(u), NEW t \in Tasks, Live(t)'
  PROVE  t = u
<1> USE DEF Live
<1>1. Live(u) /\ (t # u => job'[t] = job[t])
  BY DEF EnrollTask, Send, Post, Posting, PostGranted, PostFails, CheckAttempt, Fail,
         StoreToken, StoreId, Adopt, Done, Exit, Goes, enrollVars, LifeTypeOK, TypeOK
<1>2. QED BY <1>1 DEF HandleInv, HandleNamesTask

(* What is known of the task that takes a step. *)
LEMMA Worker ==
  ASSUME LifeTypeOK, CalmInv, NEW t \in Tasks, EnrollTask(t)
  PROVE  /\ job \in [Tasks -> Job] /\ job[t].cred \in Nat
         /\ job[t].pc # "none" /\ (AtWork(t) => TaskFinds(t))
         /\ job[t].pc # "post" => UNCHANGED <<unauth, asked, issuer>>
<1>1. job[t].pc # "none"
  BY DEF EnrollTask, Send, Post, Posting, PostGranted, PostFails, CheckAttempt, Fail,
         StoreToken, StoreId, Adopt, Done, Exit, Goes
<1>2. job[t].pc # "post" => UNCHANGED <<unauth, asked, issuer>>
  BY DEF EnrollTask, Send, Post, Posting
<1>3. QED BY <1>1, <1>2 DEF CalmInv, TaskInv, LifeTypeOK, TypeOK, Job, Cred

(* The POST ends: without a grant, or with the next one. *)
LEMMA PostMoves ==
  ASSUME LifeTypeOK, NEW t \in Tasks, Post(t)
  PROVE  /\ job[t].pc = "post" /\ job'[t].pc = "check" /\ job'[t].id = job[t].id
         /\ asked.post # "none" /\ asked' = [asked EXCEPT !.post = "none", !.posted = 0]
         /\ UNCHANGED <<shared, nvs, tx, call, rx, reboots>>
         /\ \/ UNCHANGED <<granted, issuer>> /\ job'[t].cred = job[t].cred
            \/ /\ granted' = granted + 1 /\ granted' \in Cred /\ job'[t].cred = granted'
               /\ UNCHANGED unauth /\ issuer' = [issuer EXCEPT ![granted'] = asked.post]
<1>1. /\ job[t] \in [pc : Pc, id : 0 .. MaxAttempts, code : Codes \cup {NoCode}, cred : Cred]
      /\ job \in [Tasks -> Job]
  BY DEF LifeTypeOK, TypeOK, Job
<1>2. Posting(t) /\ asked' = [asked EXCEPT !.post = "none", !.posted = 0]
  BY DEF Post
<1>3. CASE PostFails(t) /\ UNCHANGED issuer
  BY <1>1, <1>2, <1>3 DEF Posting, PostFails, Goes, outer
<1>4. CASE /\ PostGranted(t) /\ UNCHANGED unauth
           /\ issuer' = [issuer EXCEPT ![granted + 1] = asked.post]
  <2>1. granted' \in Cred
    BY <1>4, EnrollAssumption DEF PostGranted, LifeTypeOK, TypeOK, Cred, EnrollAssumption
  <2>2. job'[t].pc = "check" /\ job'[t].id = job[t].id /\ job'[t].cred = granted'
    BY <1>1, <1>4 DEF PostGranted
  <2>3. QED BY <1>2, <1>4, <2>1, <2>2 DEF Posting, PostGranted
<1>5. QED BY <1>3, <1>4 DEF Post

(* What loop() itself leaves alone inside a call and between its calls. *)
LEMMA PassKeeps ==
  /\ CallGoesOn =>
       UNCHANGED <<pc, ret, disc, cand, server, token_srv, saved_server, reauth, token_ok,
                   hb_started, timers, unauth, mqtt, asked, portal, form, submits, issuer,
                   revoked, accepted>>
  /\ Discovery \/ Recovery \/ EnrollStep \/ Online =>
       UNCHANGED <<state, pairing_code, s_task, nvs, draft, job, rx, granted, reboots,
                   portal, form, submits, issuer, revoked>>
<1> USE DEF disco, auth, link, form_, world, noted
<1>1. CallGoesOn =>
       UNCHANGED <<pc, ret, disc, cand, server, token_srv, saved_server, reauth, token_ok,
                   hb_started, timers, unauth, mqtt, asked, portal, form, submits, issuer,
                   revoked, accepted>>
  BY DEF CallGoesOn
<1> USE DEF enrollVars, shared, call, outer
<1> DEFINE Kept == UNCHANGED <<state, pairing_code, s_task, nvs, draft, job, rx, granted, reboots,
                               portal, form, submits, issuer, revoked>>
<1>2. ASSUME Discovery PROVE Kept
  BY <1>2 DEF Discovery, Top, Settled, TryCandidate, TryInit, TryStart, TryWait,
              WaitReads, Won, Lost, NoServerRetry, NoServerWaits, CallStart, StartCall,
              InitCall
<1>3. ASSUME Recovery PROVE Kept
  BY <1>3 DEF Recovery, TakeUnauthorized, RecoverSkips, Recover, RecoverReset, RecoverStart,
              CallStart, StartCall, ResetCall, ClearToken
<1>4. ASSUME EnrollStep PROVE Kept
  BY <1>4 DEF EnrollStep, FailedWaits, FailedRetries, Check, CheckedDone, CheckedNeeded,
              EnrollPasses, Settle, CallStart, StartCall, CheckCall
<1>5. ASSUME Online PROVE Kept
  BY <1>5 DEF Online, Probe, ProbeAccepted, ProbeRejected, ProbeFails, Gate, StartMqtt,
              StartHeartbeat, HeartbeatFresh, HeartbeatStale, Rediscover, ResetCall
<1>6. QED BY <1>1, <1>2, <1>3, <1>4, <1>5

-----------------------------------------------------------------------------
(* The place of loop() against the state of discovery and of its calls. *)
LEMMA PlaceStep ==
  ASSUME LifeTypeOK, PlaceInv, [LifeNext]_vars, submits' = 0, PortalClosed
  PROVE  PlaceInv'
<1> USE EnrollAssumption, LifecycleAssumption
    DEF EnrollAssumption, LifecycleAssumption, LifeTypeOK, TypeOK, LoopTypeOK, PlaceInv, InInit,
        InReset, InCheck, InStart, Chosen, Tries, Waits, disco, auth, LoopGoes, At
<1>1. CASE CallGoesOn
  BY <1>1 DEF CallGoesOn, InitCode, InitState, ResetToken, ResetId, ResetState, CheckId,
              CheckState, StartCode, StartGivesUp, StartId, StartState, StartCreate
<1>2. CASE Discovery
  BY <1>2 DEF Discovery, Top, Settled, TryCandidate, TryInit, TryStart, TryWait,
              WaitReads, Won, Lost, NoServerRetry, NoServerWaits, CallStart, StartCall,
              InitCall, enrollVars, call
<1>3. CASE Recovery
  BY <1>3 DEF Recovery, TakeUnauthorized, RecoverSkips, Recover, RecoverReset, RecoverStart,
              CallStart, StartCall, ResetCall, ClearToken, enrollVars, call
<1>4. CASE EnrollStep
  <2>1. CASE FailedWaits \/ FailedRetries \/ Check
    BY <2>1 DEF FailedWaits, FailedRetries, Check, CheckCall, FlagTypeOK, enrollVars, call
  <2>2. CASE Settle
    BY <2>2 DEF Settle, enrollVars, call
  <2>3. CASE CheckedDone \/ CheckedNeeded \/ EnrollPasses
    BY <2>3 DEF CheckedDone, CheckedNeeded, EnrollPasses, CallStart, StartCall,
                enrollVars, call
  <2>4. QED BY <1>4, <2>1, <2>2, <2>3 DEF EnrollStep
<1>5. CASE Online
  <2>1. CASE HeartbeatStale \/ Rediscover
    BY <2>1 DEF HeartbeatStale, Rediscover, ResetCall, enrollVars, call
  <2>2. CASE ~HeartbeatStale /\ ~Rediscover
    BY <1>5, <2>2 DEF Online, Probe, ProbeAccepted, ProbeRejected, ProbeFails, Gate,
                      StartMqtt, StartHeartbeat, HeartbeatFresh, enrollVars, call
  <2>3. QED BY <2>1, <2>2
<1>6. CASE Others
  BY <1>6, OthersKeep
<1>7. CASE Restart
  BY <1>7 DEF Restart, Reboot, BootDisc, Fixed
<1>8. CASE UNCHANGED vars
  BY <1>8 DEF vars, enrollVars, call
<1>9. QED
  BY <1>1, <1>2, <1>3, <1>4, <1>5, <1>6, <1>7, <1>8, NoHandler
  DEF LifeNext, LoopPass, Others

(* The state against the place of loop(): Fail and Done are steps of a task *)
(* at work, and a task at work is current in IN_PROGRESS, or was refused.   *)
LEMMA StateStep ==
  ASSUME LifeTypeOK, HandleInv, CalmInv, [LifeNext]_vars, submits' = 0
  PROVE  StateInv'
<1>a. /\ Loop \in Callers /\ step \in [Callers -> Step]
      /\ reauth \in [on : BOOLEAN, wait : BOOLEAN]
      /\ draft \in [code : Codes \cup {NoCode}, id : 0 .. MaxAttempts]
      /\ state \in State
      /\ PlaceInv /\ StateInv
  BY EnrollAssumption DEF EnrollAssumption, LifeTypeOK, TypeOK, FlagTypeOK, LoopTypeOK,
                          CalmInv
<1>b. (disc \in Tries) => pc # "won"
  BY DEF CalmInv, PlaceInv, Tries, Waits
<1> USE DEF PlaceInv, StateInv, InInit, InReset, InCheck, InStart, Chosen, Tries, Waits, LoopGoes,
            At
<1>1. CASE CallGoesOn
  <2>1. CASE InitCode(Loop, main_code) \/ InitState(Loop) \/ ResetToken(Loop)
          \/ ResetId(Loop)
    BY <2>1, <1>1, <1>a, PassKeeps DEF InitCode, InitState, ResetToken, ResetId, shared,
                                       call
  <2>2. CASE ResetState(Loop) \/ CheckId \/ CheckState \/ StartCode
    BY <2>2, <1>1, <1>a, PassKeeps DEF ResetState, CheckId, CheckState, StartCode, shared,
                                       call
  <2>3. CASE (StartGivesUp /\ pairing_code = NoCode) \/ StartId \/ StartState
          \/ \E u \in Tasks : StartCreate(u)
    BY <2>3, <1>1, <1>a, PassKeeps DEF StartGivesUp, StartId, StartState, StartCreate,
                                       shared, call
  <2>4. QED BY <1>1, <2>1, <2>2, <2>3 DEF CallGoesOn
<1>2. CASE Discovery
  <2>1. CASE Top \/ Settled \/ TryCandidate \/ TryInit
    BY <2>1, <1>a DEF Top, Settled, TryCandidate, TryInit, InitCall, shared, call,
                      enrollVars, disco, auth
  <2>2. CASE TryStart \/ TryWait \/ WaitReads \/ Won
    BY <2>2, <1>a DEF TryStart, CallStart, StartCall, StartRefused, TryWait, WaitReads, Won,
                      shared, call, enrollVars, disco, auth
  <2>3. CASE Lost \/ NoServerRetry \/ NoServerWaits
    BY <2>3, <1>a DEF Lost, NoServerRetry, NoServerWaits, shared, call, enrollVars, disco,
                      auth
  <2>4. QED BY <1>2, <2>1, <2>2, <2>3 DEF Discovery
<1>3. CASE Recovery
  <2>1. CASE TakeUnauthorized("unauth1", "enroll") \/ TakeUnauthorized("unauth2", "mqtt")
          \/ RecoverSkips \/ Recover
    BY <2>1, <1>a DEF TakeUnauthorized, RecoverSkips, Recover, ClearToken, StopMqtt, shared,
                      call, enrollVars, disco, auth
  <2>2. CASE RecoverReset \/ RecoverStart
    BY <2>2, <1>a DEF RecoverReset, ResetCall, RecoverStart, CallStart, StartCall,
                      StartRefused, shared, call, enrollVars, disco, auth
  <2>3. QED BY <1>3, <2>1, <2>2 DEF Recovery
<1>4. CASE EnrollStep
  <2>1. CASE FailedWaits \/ FailedRetries \/ Check \/ CheckedDone
    BY <2>1, <1>a DEF FailedWaits, FailedRetries, Check, CheckCall, CheckedDone, shared,
                      call, enrollVars, disco, auth
  <2>2. CASE CheckedNeeded \/ EnrollPasses \/ Settle
    BY <2>2, <1>a DEF CheckedNeeded, CallStart, StartCall, StartRefused, EnrollPasses,
                      Settle, shared, call, enrollVars, disco, auth
  <2>3. QED BY <1>4, <2>1, <2>2 DEF EnrollStep
<1>5. CASE Online
  <2>1. CASE Probe \/ ProbeAccepted \/ ProbeRejected \/ ProbeFails
    BY <2>1, <1>a DEF Probe, ProbeAccepted, ProbeRejected, ProbeFails, shared, call,
                      enrollVars, disco, auth
  <2>2. CASE Gate \/ StartMqtt \/ StartHeartbeat \/ HeartbeatFresh
    BY <2>2, <1>a DEF Gate, StartMqtt, StartHeartbeat, HeartbeatFresh, shared, call,
                      enrollVars, disco, auth
  <2>3. CASE HeartbeatStale
    BY <2>3, <1>a DEF HeartbeatStale, ResetCall, StopMqtt, shared, call, enrollVars, disco,
                      auth, CalmInv, ConfirmInv
  <2>4. CASE Rediscover
    BY <2>4, <1>a DEF Rediscover, shared, call, enrollVars, disco, auth
  <2>5. QED BY <1>5, <2>1, <2>2, <2>3, <2>4 DEF Online
<1>6. CASE Others
  <2>1. UNCHANGED <<pc, disc, reauth, attempt_id, step, draft>>
    BY <1>6, OthersKeep DEF disco, LifeTypeOK
  <2>2. ASSUME state' # state
        PROVE  \E t \in Tasks : Fail(t) \/ Done(t)
    BY <1>6, <2>2 DEF Others, EnrollTask, Send, Post, PostGranted, PostFails,
                      CheckAttempt, StoreToken, StoreId, Adopt, Exit, Broker,
                      MqttConnects, MqttRefused, MqttDrops, MqttMessage, RxSeesProgress,
                      RxFailsEnrollment, CalmInv, PortalClosed, Environment, WifiDown,
                      WifiUp, Revoke, Expire, shared, enrollVars
  <2>3. ASSUME NEW t \in Tasks, Fail(t) \/ Done(t)
        PROVE  /\ state' \in {"FAILED", "DONE"} /\ ~InStart
               /\ \/ state = "IN_PROGRESS" /\ ~InInit /\ ~InReset
                  \/ state' = "FAILED" /\ reauth.on /\ disc = "OVERRIDE" /\ state # "DONE"
    <3>1. /\ AtWork(t) /\ state' \in {"FAILED", "DONE"}
          /\ (Done(t) => ~Refused(t)) /\ (Fail(t) => state' = "FAILED")
      BY <2>3 DEF Fail, Done, Goes, AtWork, Refused
    <3>2. ~InStart
      BY <3>1, EnrollAssumption DEF EnrollAssumption, AtWork, HandleInv,
                                    HandleNamesTask, StartOwnsHandle, Live
    <3>3. QED BY <2>3, <3>1, <3>2 DEF CalmInv, TaskInv, TaskFinds
  <2>4. QED BY <1>a, <2>1, <2>2, <2>3
<1>7. CASE Restart
  BY <1>7, <1>a DEF Restart, Reboot, BootDisc, Fixed
<1>8. CASE UNCHANGED vars
  BY <1>8, <1>a DEF vars, enrollVars, shared, call, disco, auth
<1>9. QED
  BY <1>1, <1>2, <1>3, <1>4, <1>5, <1>6, <1>7, <1>8, NoHandler
  DEF LifeNext, LoopPass, Others, CalmInv

(* A task at work. *)
LEMMA TaskInvStep ==
  ASSUME LifeTypeOK, HandleInv, CalmInv, [LifeNext]_vars, submits' = 0
  PROVE  TaskInv'
<1> SUFFICES ASSUME NEW t \in Tasks, AtWork(t)'
             PROVE  TaskFinds(t)'
  BY DEF TaskInv
<1>a. /\ Loop \in Callers /\ step \in [Callers -> Step]
      /\ reauth \in [on : BOOLEAN, wait : BOOLEAN]
      /\ attempt_id \in Nat /\ nvs \in Pair /\ job[t].id \in Nat
      /\ PlaceInv /\ StateInv
  BY EnrollAssumption DEF EnrollAssumption, LifeTypeOK, TypeOK, FlagTypeOK, LoopTypeOK,
                          CalmInv, Job
<1>b. AtWork(t) => TaskFinds(t)
  BY DEF CalmInv, TaskInv
<1>c. InStart => ~AtWork(t)
  BY EnrollAssumption DEF EnrollAssumption, HandleInv, HandleNamesTask, StartOwnsHandle,
                          Live, AtWork
<1>d. step[Loop] = "check_state" => (have.token /\ have.id <=> Enrolled)
  BY DEF CalmInv, CheckInv, InCheck, Enrolled
<1>e. job' = job => /\ AtWork(t) /\ TaskFinds(t)
                    /\ job'[t].pc = job[t].pc /\ job'[t].id = job[t].id /\ job'[t].cred = job[t].cred
  BY <1>b DEF AtWork
<1> USE DEF TaskFinds, Current, Refused, Enrolled, InInit, InReset, InCheck, InStart, LoopGoes, At
<1>1. CASE CallGoesOn
  <2>1. CASE InitCode(Loop, main_code) \/ InitState(Loop) \/ ResetToken(Loop)
          \/ ResetId(Loop)
    BY <2>1, <1>1, <1>a, <1>c, <1>e, PassKeeps DEF InitCode, InitState, ResetToken, ResetId,
                                                   shared, call, StateInv, Pair
  <2>2. CASE ResetState(Loop) \/ CheckId \/ CheckState \/ StartCode
    BY <2>2, <1>1, <1>a, <1>c, <1>e, PassKeeps, <1>d DEF ResetState, CheckId, CheckState,
                                                         StartCode, shared, call, StateInv
  <2>3. CASE (StartGivesUp /\ pairing_code = NoCode) \/ StartId
    BY <2>3, <1>1, <1>a, <1>c, <1>e, PassKeeps DEF StartGivesUp, StartId, shared, call,
                                                   StateInv
  <2>4. CASE StartState
    BY <2>4, <1>1, <1>a, <1>c, <1>e, PassKeeps DEF StartState, shared, call, StateInv
  <2>5. CASE \E u \in Tasks : StartCreate(u)
    BY <2>5, <1>1, <1>a, <1>c, <1>e, PassKeeps, <1>b DEF StartCreate, shared, call,
                                                         StateInv, Pair, AtWork
  <2>6. QED BY <1>1, <2>1, <2>2, <2>3, <2>4, <2>5 DEF CallGoesOn
<1>2. CASE Discovery
  <2>1. CASE Top \/ Settled \/ TryCandidate \/ TryInit
    BY <2>1, <1>2, <1>a, <1>e, PassKeeps DEF Top, Settled, TryCandidate, TryInit, InitCall,
                                             shared, call, enrollVars, disco, auth,
                                             PlaceInv, StateInv, Tries, Waits
  <2>2. CASE TryStart \/ TryWait \/ WaitReads \/ Won
    BY <2>2, <1>2, <1>a, <1>e, PassKeeps DEF TryStart, CallStart, StartCall, StartRefused,
                                             TryWait, WaitReads, Won, shared, call,
                                             enrollVars, disco, auth, PlaceInv, StateInv,
                                             Tries, Waits
  <2>3. CASE Lost \/ NoServerRetry \/ NoServerWaits
    BY <2>3, <1>2, <1>a, <1>e, PassKeeps DEF Lost, NoServerRetry, NoServerWaits, shared,
                                             call, enrollVars, disco, auth, PlaceInv,
                                             StateInv, Tries, Waits
  <2>4. QED BY <1>2, <2>1, <2>2, <2>3 DEF Discovery
<1>3. CASE Recovery
  <2>1. CASE TakeUnauthorized("unauth1", "enroll") \/ TakeUnauthorized("unauth2", "mqtt")
          \/ RecoverSkips \/ Recover
    BY <2>1, <1>3, <1>a, <1>e, PassKeeps DEF TakeUnauthorized, RecoverSkips, Recover,
                                             ClearToken, StopMqtt, shared, call, enrollVars,
                                             disco, auth, PlaceInv
  <2>2. CASE RecoverReset
    BY <2>2, <1>3, <1>a, <1>e, PassKeeps DEF RecoverReset, ResetCall, shared, call,
                                             enrollVars, disco, auth, PlaceInv, StateInv,
                                             CalmInv, RefusalInv, RefusedMidway, Chosen
  <2>3. CASE RecoverStart
    BY <2>3, <1>3, <1>a, <1>e, PassKeeps DEF RecoverStart, CallStart, StartCall,
                                             StartRefused, shared, call, enrollVars, disco,
                                             auth, PlaceInv
  <2>4. QED BY <1>3, <2>1, <2>2, <2>3 DEF Recovery
<1>4. CASE EnrollStep
  <2>1. CASE FailedWaits \/ FailedRetries \/ Check \/ CheckedDone
    BY <2>1, <1>4, <1>a, <1>e, PassKeeps DEF FailedWaits, FailedRetries, Check, CheckCall,
                                             CheckedDone, shared, call, enrollVars, disco,
                                             auth
  <2>2. CASE CheckedNeeded \/ EnrollPasses \/ Settle
    BY <2>2, <1>4, <1>a, <1>e, PassKeeps DEF CheckedNeeded, CallStart, StartCall,
                                             StartRefused, EnrollPasses, Settle, shared,
                                             call, enrollVars, disco, auth
  <2>3. QED BY <1>4, <2>1, <2>2 DEF EnrollStep
<1>5. CASE Online
  <2>1. CASE Probe \/ ProbeAccepted \/ ProbeRejected \/ ProbeFails
    BY <2>1, <1>5, <1>a, <1>e, PassKeeps DEF Probe, ProbeAccepted, ProbeRejected,
                                             ProbeFails, shared, call, enrollVars, disco,
                                             auth, PlaceInv
  <2>2. CASE Gate \/ StartMqtt \/ StartHeartbeat \/ HeartbeatFresh
    BY <2>2, <1>5, <1>a, <1>e, PassKeeps DEF Gate, StartMqtt, StartHeartbeat,
                                             HeartbeatFresh, shared, call, enrollVars,
                                             disco, auth, PlaceInv
  <2>3. CASE HeartbeatStale
    BY <2>3, <1>5, <1>a, <1>e, PassKeeps DEF HeartbeatStale, ResetCall, StopMqtt, shared,
                                             call, enrollVars, disco, auth, PlaceInv,
                                             CalmInv, ConfirmInv
  <2>4. CASE Rediscover
    BY <2>4, <1>5, <1>a, <1>e, PassKeeps DEF Rediscover, shared, call, enrollVars, disco,
                                             auth, PlaceInv
  <2>5. QED BY <1>5, <2>1, <2>2, <2>3, <2>4 DEF Online
<1>6. CASE Others
  <2>1. UNCHANGED <<disc, reauth, attempt_id, step>>
    BY <1>6, OthersKeep DEF disco, LifeTypeOK
  <2>2. CASE Broker \/ Environment \/ (\E x : Expire(x))
    BY <2>1, <2>2, <1>e, WorldKeeps DEF enrollVars, shared
  <2>3. ASSUME EnrollTask(t) PROVE TaskFinds(t)'
    <3>a. /\ job \in [Tasks -> Job] /\ job[t].cred \in Nat
          /\ job[t].pc # "none" /\ (AtWork(t) => TaskFinds(t))
      BY <2>3, Worker
    <3>1. CASE Send(t)
      BY <3>1, <3>a, <1>a, <2>1 DEF Send, shared, enrollVars, call, Goes, Job, AtWork, Pair
    <3>2. CASE Post(t)
      BY <3>2, <3>a, <1>a, <2>1, PostMoves DEF shared, enrollVars, call, Goes, Job, AtWork,
                                               Pair
    <3>3. CASE CheckAttempt(t)
      BY <3>3, <3>a, <1>a, <2>1 DEF CheckAttempt, shared, enrollVars, call, Goes, Job,
                                    AtWork, Pair
    <3>4. CASE Fail(t)
      BY <3>4, <3>a, <1>a, <2>1 DEF Fail, shared, enrollVars, call, Goes, Job, AtWork, Pair
    <3>5. CASE StoreToken(t)
      BY <3>5, <3>a, <1>a, <2>1 DEF StoreToken, shared, enrollVars, call, Goes, Job, AtWork,
                                    Pair
    <3>6. CASE StoreId(t)
      BY <3>6, <3>a, <1>a, <2>1 DEF StoreId, shared, enrollVars, call, Goes, Job, AtWork,
                                    Pair
    <3>7. CASE Adopt(t)
      BY <3>7, <3>a, <1>a, <2>1 DEF Adopt, shared, enrollVars, call, Goes, Job, AtWork, Pair
    <3>8. CASE Done(t)
      BY <3>8, <3>a, <1>a, <2>1 DEF Done, shared, enrollVars, call, Goes, Job, AtWork, Pair
    <3>9. CASE Exit(t)
      BY <3>9, <3>a, <1>a, <2>1 DEF Exit, NoJob, shared, enrollVars, call, Goes, Job,
                                    AtWork, Pair
    <3>10. QED BY <2>3, <3>1, <3>2, <3>3, <3>4, <3>5, <3>6, <3>7, <3>8, <3>9 DEF EnrollTask
  <2>4. QED BY <1>6, <2>2, <2>3, OnlyWorker DEF Others, Live, AtWork
<1>7. CASE Restart
  BY <1>7, <1>a DEF Restart, Reboot, NoJob, AtWork
<1>8. CASE UNCHANGED vars
  BY <1>8, <1>e DEF vars, enrollVars, shared, call, disco, auth
<1>9. QED
  BY <1>1, <1>2, <1>3, <1>4, <1>5, <1>6, <1>7, <1>8, NoHandler
  DEF LifeNext, LoopPass, Others, CalmInv

(* A refused POST against a recovery. *)
LEMMA RefusedMidwayStep ==
  ASSUME LifeTypeOK, HandleInv, CalmInv, [LifeNext]_vars, submits' = 0, NEW t \in Tasks
  PROVE  RefusedMidway(t)'
<1>a. /\ Loop \in Callers /\ step \in [Callers -> Step]
      /\ reauth \in [on : BOOLEAN, wait : BOOLEAN]
      /\ nvs \in Pair /\ unauth \in BOOLEAN
      /\ PlaceInv /\ StateInv /\ ConfirmInv
      /\ RefusedMidway(t) /\ RefusedBare(t) /\ StartBare
  BY EnrollAssumption DEF EnrollAssumption, LifeTypeOK, TypeOK, FlagTypeOK, CalmInv,
                          RefusalInv
<1>b. AtWork(t) => TaskFinds(t)
  BY DEF CalmInv, TaskInv
<1>c. InStart => ~AtWork(t)
  BY EnrollAssumption DEF EnrollAssumption, HandleInv, HandleNamesTask, StartOwnsHandle,
                          Live, AtWork
<1>d. job' = job => job'[t] = job[t]
  OBVIOUS
<1> USE DEF RefusedMidway, AtWork, Refused, Enrolled, Chosen, LoopGoes, At
<1>1. CASE CallGoesOn
  <2>1. CASE InitCode(Loop, main_code) \/ InitState(Loop)
    BY <2>1, <1>1, <1>a, <1>c, <1>d, PassKeeps DEF InitCode, InitState, shared, call,
                                                   InStart
  <2>2. CASE ResetToken(Loop)
    BY <2>2, <1>1, <1>a, <1>c, <1>d, PassKeeps DEF ResetToken, shared, call, InStart, Pair
  <2>3. CASE ResetId(Loop)
    BY <2>3, <1>1, <1>a, <1>c, <1>d, PassKeeps DEF ResetId, shared, call, InStart, Pair
  <2>4. CASE ResetState(Loop) \/ CheckId \/ CheckState \/ StartCode
    BY <2>4, <1>1, <1>a, <1>c, <1>d, PassKeeps DEF ResetState, CheckId, CheckState,
                                                   StartCode, shared, call, InStart
  <2>5. CASE (StartGivesUp /\ pairing_code = NoCode) \/ StartId \/ StartState
    BY <2>5, <1>1, <1>a, <1>c, <1>d, PassKeeps DEF StartGivesUp, StartId, StartState,
                                                   shared, call, InStart
  <2>6. CASE \E u \in Tasks : StartCreate(u)
    BY <2>6, <1>1, <1>a, <1>c, <1>d, PassKeeps DEF StartCreate, shared, call, InStart, Pair,
                                                   StartBare, PlaceInv
  <2>7. QED BY <1>1, <2>1, <2>2, <2>3, <2>4, <2>5, <2>6 DEF CallGoesOn
<1>2. CASE Discovery
  <2>1. CASE Top \/ Settled \/ TryCandidate \/ TryInit
    BY <2>1, <1>2, <1>a, <1>d, PassKeeps DEF Top, Settled, TryCandidate, TryInit, InitCall,
                                             shared, call, enrollVars, disco, auth, link,
                                             PlaceInv
  <2>2. CASE TryStart \/ TryWait \/ WaitReads
    BY <2>2, <1>2, <1>a, <1>d, PassKeeps DEF TryStart, CallStart, StartCall, StartRefused,
                                             TryWait, WaitReads, shared, call, enrollVars,
                                             disco, auth, link, PlaceInv
  <2>3. CASE Won
    BY <2>3, <1>2, <1>a, <1>d, PassKeeps DEF Won, shared, call, enrollVars, disco, auth,
                                             link, PlaceInv, StateInv
  <2>4. CASE Lost \/ NoServerRetry \/ NoServerWaits
    BY <2>4, <1>2, <1>a, <1>d, PassKeeps DEF Lost, NoServerRetry, NoServerWaits, shared,
                                             call, enrollVars, disco, auth, link, PlaceInv
  <2>5. QED BY <1>2, <2>1, <2>2, <2>3, <2>4 DEF Discovery
<1>3. CASE Recovery
  <2>1. CASE TakeUnauthorized("unauth1", "enroll") \/ TakeUnauthorized("unauth2", "mqtt")
    BY <2>1, <1>3, <1>a, <1>d, PassKeeps DEF TakeUnauthorized, shared, call, enrollVars,
                                             disco, auth, link
  <2>2. CASE RecoverSkips
    BY <2>2, <1>3, <1>a, <1>d, PassKeeps DEF RecoverSkips, shared, call, enrollVars, disco,
                                             auth, link, PlaceInv
  <2>3. CASE Recover \/ RecoverReset
    BY <2>3, <1>3, <1>a, <1>d, PassKeeps DEF Recover, ClearToken, StopMqtt, RecoverReset,
                                             ResetCall, shared, call, enrollVars, disco,
                                             auth, link
  <2>4. CASE RecoverStart
    BY <2>4, <1>3, <1>a, <1>d, PassKeeps DEF RecoverStart, CallStart, StartCall,
                                             StartRefused, shared, call, enrollVars, disco,
                                             auth, link, PlaceInv
  <2>5. QED BY <1>3, <2>1, <2>2, <2>3, <2>4 DEF Recovery
<1>4. CASE EnrollStep
  <2>1. CASE FailedWaits \/ FailedRetries \/ Check \/ CheckedDone
    BY <2>1, <1>4, <1>a, <1>d, PassKeeps DEF FailedWaits, FailedRetries, Check, CheckCall,
                                             CheckedDone, shared, call, enrollVars, disco,
                                             auth, link
  <2>2. CASE CheckedNeeded \/ EnrollPasses \/ Settle
    BY <2>2, <1>4, <1>a, <1>d, PassKeeps DEF CheckedNeeded, CallStart, StartCall,
                                             StartRefused, EnrollPasses, Settle, shared,
                                             call, enrollVars, disco, auth, link
  <2>3. QED BY <1>4, <2>1, <2>2 DEF EnrollStep
<1>5. CASE Online
  <2>1. CASE Probe \/ ProbeAccepted
    BY <2>1, <1>5, <1>a, <1>d, PassKeeps DEF Probe, ProbeAccepted, shared, call, enrollVars,
                                             disco, auth, link
  <2>2. CASE ProbeRejected
    BY <2>2, <1>5, <1>a, <1>d, PassKeeps DEF ProbeRejected, shared, call, enrollVars, disco,
                                             auth, link, ConfirmInv
  <2>3. CASE ProbeFails \/ Gate \/ StartMqtt \/ StartHeartbeat
    BY <2>3, <1>5, <1>a, <1>d, PassKeeps DEF ProbeFails, Gate, StartMqtt, StartHeartbeat,
                                             shared, call, enrollVars, disco, auth, link
  <2>4. CASE HeartbeatFresh \/ HeartbeatStale \/ Rediscover
    BY <2>4, <1>5, <1>a, <1>d, PassKeeps DEF HeartbeatFresh, HeartbeatStale, ResetCall,
                                             StopMqtt, Rediscover, shared, call, enrollVars,
                                             disco, auth, link
  <2>5. QED BY <1>5, <2>1, <2>2, <2>3, <2>4 DEF Online
<1>6. CASE Others
  <2>1. UNCHANGED <<pc, disc, reauth, attempt_id, step>>
    BY <1>6, OthersKeep DEF disco, LifeTypeOK
  <2>2. CASE Broker \/ Environment \/ (\E x : Expire(x))
    <3>1. UNCHANGED <<state, nvs, job>> /\ (state = "DONE" \/ unauth' = unauth)
      BY <2>2, WorldKeeps DEF CalmInv, ConfirmInv, Broker, MqttConnects, MqttRefused,
                              MqttDrops, MqttMessage, Environment, WifiDown, WifiUp,
                              Revoke, Expire, enrollVars, shared, link
    <3>2. QED BY <1>a, <2>1, <3>1
  <2>3. ASSUME EnrollTask(t) PROVE RefusedMidway(t)'
    <3>a. /\ job \in [Tasks -> Job] /\ job[t].cred \in Nat
          /\ job[t].pc # "none" /\ (AtWork(t) => TaskFinds(t))
          /\ job[t].pc # "post" => UNCHANGED unauth
      BY <2>3, Worker
    <3>1. CASE Send(t)
      BY <3>1, <3>a, <1>a, <2>1 DEF Send, shared, enrollVars, call, Goes, Job, Pair
    <3>2. CASE Post(t)
      BY <3>2, <3>a, <1>a, <2>1, PostMoves DEF shared, enrollVars, call, Goes, Job, Pair,
                                               StateInv, TaskFinds, Current, RefusedBare
    <3>3. CASE CheckAttempt(t)
      BY <3>3, <3>a, <1>a, <2>1 DEF CheckAttempt, shared, enrollVars, call, Goes, Job, Pair
    <3>4. CASE Fail(t)
      BY <3>4, <3>a, <1>a, <2>1 DEF Fail, shared, enrollVars, call, Goes, Job, Pair
    <3>5. CASE StoreToken(t)
      BY <3>5, <3>a, <1>a, <2>1 DEF StoreToken, shared, enrollVars, call, Goes, Job, Pair
    <3>6. CASE StoreId(t)
      BY <3>6, <3>a, <1>a, <2>1 DEF StoreId, shared, enrollVars, call, Goes, Job, Pair
    <3>7. CASE Adopt(t)
      BY <3>7, <3>a, <1>a, <2>1 DEF Adopt, shared, enrollVars, call, Goes, Job, Pair
    <3>8. CASE Done(t)
      BY <3>8, <3>a, <1>a, <2>1 DEF Done, shared, enrollVars, call, Goes, Job, Pair
    <3>9. CASE Exit(t)
      BY <3>9, <3>a, <1>a, <2>1 DEF Exit, NoJob, shared, enrollVars, call, Goes, Job, Pair
    <3>10. QED BY <2>3, <3>1, <3>2, <3>3, <3>4, <3>5, <3>6, <3>7, <3>8, <3>9 DEF EnrollTask
  <2>4. QED BY <1>6, <2>2, <2>3, OnlyWorker DEF Others, Live
<1>7. CASE Restart
  BY <1>7, <1>a DEF Restart, Reboot, NoJob
<1>8. CASE UNCHANGED vars
  BY <1>8, <1>a DEF vars, enrollVars, shared, call, disco, auth, link
<1>9. QED
  BY <1>1, <1>2, <1>3, <1>4, <1>5, <1>6, <1>7, <1>8, NoHandler
  DEF LifeNext, LoopPass, Others, CalmInv

(* While a task asks for a token, or was refused one, nothing is enrolled. *)
LEMMA RefusedBareStep ==
  ASSUME LifeTypeOK, HandleInv, CalmInv, [LifeNext]_vars, submits' = 0, NEW t \in Tasks
  PROVE  RefusedBare(t)'
<1>a. /\ Loop \in Callers /\ step \in [Callers -> Step]
      /\ reauth \in [on : BOOLEAN, wait : BOOLEAN]
      /\ nvs \in Pair /\ unauth \in BOOLEAN
      /\ PlaceInv /\ StateInv /\ ConfirmInv
      /\ RefusedBare(t) /\ StartBare
  BY EnrollAssumption DEF EnrollAssumption, LifeTypeOK, TypeOK, FlagTypeOK, CalmInv,
                          RefusalInv
<1>b. AtWork(t) => TaskFinds(t)
  BY DEF CalmInv, TaskInv
<1>d. job' = job => job'[t] = job[t]
  OBVIOUS
<1> USE DEF RefusedBare, AtWork, Refused, Enrolled, Chosen, LoopGoes, At
<1>1. CASE CallGoesOn
  <2>1. CASE InitCode(Loop, main_code) \/ InitState(Loop)
    BY <2>1, <1>1, <1>a, <1>d, PassKeeps DEF InitCode, InitState, shared, call
  <2>2. CASE ResetToken(Loop)
    BY <2>2, <1>1, <1>a, <1>d, PassKeeps DEF ResetToken, shared, call, Pair
  <2>3. CASE ResetId(Loop)
    BY <2>3, <1>1, <1>a, <1>d, PassKeeps DEF ResetId, shared, call, Pair
  <2>4. CASE ResetState(Loop) \/ CheckId \/ CheckState \/ StartCode
    BY <2>4, <1>1, <1>a, <1>d, PassKeeps DEF ResetState, CheckId, CheckState, StartCode,
                                             shared, call
  <2>5. CASE (StartGivesUp /\ pairing_code = NoCode) \/ StartId \/ StartState
    BY <2>5, <1>1, <1>a, <1>d, PassKeeps DEF StartGivesUp, StartId, StartState, shared, call
  <2>6. CASE \E u \in Tasks : StartCreate(u)
    BY <2>6, <1>1, <1>a, <1>d, PassKeeps DEF StartCreate, shared, call, Pair, StartBare,
                                             InStart
  <2>7. QED BY <1>1, <2>1, <2>2, <2>3, <2>4, <2>5, <2>6 DEF CallGoesOn
<1>2. CASE Discovery
  <2>1. CASE Top \/ Settled \/ TryCandidate \/ TryInit
    BY <2>1, <1>2, <1>a, <1>d, PassKeeps DEF Top, Settled, TryCandidate, TryInit, InitCall,
                                             shared, call, enrollVars, disco, auth, PlaceInv
  <2>2. CASE TryStart \/ TryWait \/ WaitReads
    BY <2>2, <1>2, <1>a, <1>d, PassKeeps DEF TryStart, CallStart, StartCall, StartRefused,
                                             TryWait, WaitReads, shared, call, enrollVars,
                                             disco, auth, PlaceInv
  <2>3. CASE Won
    BY <2>3, <1>2, <1>a, <1>d, PassKeeps, <1>b DEF Won, shared, call, enrollVars, disco,
                                                   auth, PlaceInv, StateInv, TaskFinds,
                                                   Current, Waits
  <2>4. CASE Lost \/ NoServerRetry \/ NoServerWaits
    BY <2>4, <1>2, <1>a, <1>d, PassKeeps DEF Lost, NoServerRetry, NoServerWaits, shared,
                                             call, enrollVars, disco, auth, PlaceInv
  <2>5. QED BY <1>2, <2>1, <2>2, <2>3, <2>4 DEF Discovery
<1>3. CASE Recovery
  <2>1. CASE TakeUnauthorized("unauth1", "enroll") \/ TakeUnauthorized("unauth2", "mqtt")
          \/ RecoverSkips \/ Recover
    BY <2>1, <1>3, <1>a, <1>d, PassKeeps DEF TakeUnauthorized, RecoverSkips, Recover,
                                             ClearToken, StopMqtt, shared, call, enrollVars,
                                             disco, auth
  <2>2. CASE RecoverReset \/ RecoverStart
    BY <2>2, <1>3, <1>a, <1>d, PassKeeps DEF RecoverReset, ResetCall, RecoverStart,
                                             CallStart, StartCall, StartRefused, shared,
                                             call, enrollVars, disco, auth
  <2>3. QED BY <1>3, <2>1, <2>2 DEF Recovery
<1>4. CASE EnrollStep
  <2>1. CASE FailedWaits \/ FailedRetries \/ Check \/ CheckedDone
    BY <2>1, <1>4, <1>a, <1>d, PassKeeps DEF FailedWaits, FailedRetries, Check, CheckCall,
                                             CheckedDone, shared, call, enrollVars, disco,
                                             auth
  <2>2. CASE CheckedNeeded \/ EnrollPasses
    BY <2>2, <1>4, <1>a, <1>d, PassKeeps DEF CheckedNeeded, CallStart, StartCall,
                                             StartRefused, EnrollPasses, shared, call,
                                             enrollVars, disco, auth
  <2>3. CASE Settle
    BY <2>3, <1>4, <1>a, <1>d, PassKeeps, <1>b DEF Settle, shared, call, enrollVars, disco,
                                                   auth, TaskFinds, Current
  <2>4. QED BY <1>4, <2>1, <2>2, <2>3 DEF EnrollStep
<1>5. CASE Online
  <2>1. CASE Probe \/ ProbeAccepted \/ ProbeRejected \/ ProbeFails
    BY <2>1, <1>5, <1>a, <1>d, PassKeeps DEF Probe, ProbeAccepted, ProbeRejected,
                                             ProbeFails, shared, call, enrollVars, disco,
                                             auth
  <2>2. CASE Gate \/ StartMqtt \/ StartHeartbeat \/ HeartbeatFresh
    BY <2>2, <1>5, <1>a, <1>d, PassKeeps DEF Gate, StartMqtt, StartHeartbeat,
                                             HeartbeatFresh, shared, call, enrollVars,
                                             disco, auth
  <2>3. CASE HeartbeatStale \/ Rediscover
    BY <2>3, <1>5, <1>a, <1>d, PassKeeps DEF HeartbeatStale, ResetCall, StopMqtt,
                                             Rediscover, shared, call, enrollVars, disco,
                                             auth
  <2>4. QED BY <1>5, <2>1, <2>2, <2>3 DEF Online
<1>6. CASE Others
  <2>1. UNCHANGED <<pc, disc, reauth, attempt_id, step>>
    BY <1>6, OthersKeep DEF disco, LifeTypeOK
  <2>2. CASE Broker \/ Environment \/ (\E x : Expire(x))
    BY <2>1, <2>2, <1>a, WorldKeeps DEF enrollVars, shared
  <2>3. ASSUME EnrollTask(t) PROVE RefusedBare(t)'
    <3>a. /\ job \in [Tasks -> Job] /\ job[t].cred \in Nat
          /\ job[t].pc # "none" /\ (Committing(t) => job[t].cred # 0)
      BY <2>3, Worker DEF CalmInv, CoherentInv, CommitSoFar
    <3>1. CASE Send(t) \/ Post(t) \/ CheckAttempt(t) \/ Fail(t)
      BY <3>1, <3>a, <1>a, <2>1, PostMoves DEF Send, CheckAttempt, Fail, shared, enrollVars,
                                               call, Goes, Job, Pair, Committing
    <3>2. CASE StoreToken(t) \/ StoreId(t) \/ Adopt(t) \/ Done(t)
      BY <3>2, <3>a, <1>a, <2>1 DEF StoreToken, StoreId, Adopt, Done, shared, enrollVars,
                                    call, Goes, Job, Pair, Committing
    <3>3. CASE Exit(t)
      BY <3>3, <3>a, <1>a, <2>1 DEF Exit, NoJob, shared, enrollVars, call, Goes, Job, Pair,
                                    Committing
    <3>4. QED BY <2>3, <3>1, <3>2, <3>3 DEF EnrollTask
  <2>4. QED BY <1>6, <1>a, <2>2, <2>3, OnlyWorker DEF Others, Live
<1>7. CASE Restart
  BY <1>7, <1>a DEF Restart, Reboot, NoJob
<1>8. CASE UNCHANGED vars
  BY <1>8, <1>a DEF vars, enrollVars, shared, call, disco, auth, link
<1>9. QED
  BY <1>1, <1>2, <1>3, <1>4, <1>5, <1>6, <1>7, <1>8, NoHandler
  DEF LifeNext, LoopPass, Others, CalmInv

(* enroll_start outside a recovery finds nothing enrolled. *)
LEMMA StartBareStep ==
  ASSUME LifeTypeOK, HandleInv, CalmInv, [LifeNext]_vars, submits' = 0
  PROVE  StartBare'
<1>a. /\ Loop \in Callers /\ step \in [Callers -> Step]
      /\ reauth \in [on : BOOLEAN, wait : BOOLEAN]
      /\ nvs \in Pair /\ unauth \in BOOLEAN /\ state \in State
      /\ PlaceInv /\ StateInv /\ StartBare
  BY EnrollAssumption DEF EnrollAssumption, LifeTypeOK, TypeOK, FlagTypeOK, CalmInv,
                          RefusalInv
<1> USE DEF StartBare, Enrolled, Chosen, LoopGoes, At, InStart, InCheck, InInit, InReset, Tries
<1>1. CASE CallGoesOn
  <2>1. CASE InitCode(Loop, main_code) \/ InitState(Loop)
    BY <2>1, <1>1, <1>a, PassKeeps DEF InitCode, InitState, shared, call, PlaceInv
  <2>2. CASE ResetToken(Loop)
    BY <2>2, <1>1, <1>a, PassKeeps DEF ResetToken, shared, call, PlaceInv, Pair
  <2>3. CASE ResetId(Loop)
    BY <2>3, <1>1, <1>a, PassKeeps DEF ResetId, shared, call, PlaceInv, Pair
  <2>4. CASE ResetState(Loop) \/ CheckId \/ CheckState \/ StartCode
    BY <2>4, <1>1, <1>a, PassKeeps DEF ResetState, CheckId, CheckState, StartCode, shared,
                                       call, PlaceInv
  <2>5. CASE (StartGivesUp /\ pairing_code = NoCode) \/ StartId \/ StartState
          \/ \E u \in Tasks : StartCreate(u)
    BY <2>5, <1>1, <1>a, PassKeeps DEF StartGivesUp, StartId, StartState, StartCreate,
                                       shared, call, PlaceInv
  <2>6. QED BY <1>1, <2>1, <2>2, <2>3, <2>4, <2>5 DEF CallGoesOn
<1>2. CASE Discovery
  <2>1. CASE Top \/ Settled \/ TryCandidate \/ TryInit
    BY <2>1, <1>2, <1>a, PassKeeps DEF Top, Settled, TryCandidate, TryInit, InitCall,
                                       shared, call, enrollVars, disco, auth, link, PlaceInv
  <2>2. CASE TryStart \/ TryWait \/ WaitReads \/ Won
    BY <2>2, <1>2, <1>a, PassKeeps DEF TryStart, CallStart, StartCall, StartRefused,
                                       TryWait, WaitReads, Won, shared, call, enrollVars,
                                       disco, auth, link, PlaceInv
  <2>3. CASE Lost \/ NoServerRetry \/ NoServerWaits
    BY <2>3, <1>2, <1>a, PassKeeps DEF Lost, NoServerRetry, NoServerWaits, shared, call,
                                       enrollVars, disco, auth, link, PlaceInv
  <2>4. QED BY <1>2, <2>1, <2>2, <2>3 DEF Discovery
<1>3. CASE Recovery
  <2>1. CASE TakeUnauthorized("unauth1", "enroll") \/ TakeUnauthorized("unauth2", "mqtt")
          \/ RecoverSkips \/ Recover
    BY <2>1, <1>3, <1>a, PassKeeps DEF TakeUnauthorized, RecoverSkips, Recover, ClearToken,
                                       StopMqtt, shared, call, enrollVars, disco, auth,
                                       link, PlaceInv
  <2>2. CASE RecoverReset \/ RecoverStart
    BY <2>2, <1>3, <1>a, PassKeeps DEF RecoverReset, ResetCall, RecoverStart, CallStart,
                                       StartCall, StartRefused, shared, call, enrollVars,
                                       disco, auth, link, PlaceInv
  <2>3. QED BY <1>3, <2>1, <2>2 DEF Recovery
<1>4. CASE EnrollStep
  <2>1. CASE FailedWaits \/ FailedRetries \/ Check \/ CheckedDone
    BY <2>1, <1>4, <1>a, PassKeeps DEF FailedWaits, FailedRetries, Check, CheckCall,
                                       CheckedDone, shared, call, enrollVars, disco, auth,
                                       link
  <2>2. CASE CheckedNeeded
    BY <2>2, <1>4, <1>a, PassKeeps DEF CheckedNeeded, CallStart, StartCall, StartRefused,
                                       shared, call, enrollVars, disco, auth, link, CalmInv,
                                       CheckInv
  <2>3. CASE EnrollPasses \/ Settle
    BY <2>3, <1>4, <1>a, PassKeeps DEF EnrollPasses, Settle, shared, call, enrollVars,
                                       disco, auth, link
  <2>4. QED BY <1>4, <2>1, <2>2, <2>3 DEF EnrollStep
<1>5. CASE Online
  <2>1. CASE Probe \/ ProbeAccepted \/ ProbeRejected \/ ProbeFails
    BY <2>1, <1>5, <1>a, PassKeeps DEF Probe, ProbeAccepted, ProbeRejected, ProbeFails,
                                       shared, call, enrollVars, disco, auth, link
  <2>2. CASE Gate \/ StartMqtt \/ StartHeartbeat \/ HeartbeatFresh
    BY <2>2, <1>5, <1>a, PassKeeps DEF Gate, StartMqtt, StartHeartbeat, HeartbeatFresh,
                                       shared, call, enrollVars, disco, auth, link
  <2>3. CASE HeartbeatStale \/ Rediscover
    BY <2>3, <1>5, <1>a, PassKeeps DEF HeartbeatStale, ResetCall, StopMqtt, Rediscover,
                                       shared, call, enrollVars, disco, auth, link
  <2>4. QED BY <1>5, <2>1, <2>2, <2>3 DEF Online
<1>6. CASE Others
  <2>1. UNCHANGED <<pc, disc, reauth, step>>
    BY <1>6, OthersKeep DEF disco, LifeTypeOK
  <2>2. CASE Broker \/ Environment \/ (\E x : Expire(x))
    <3>1. UNCHANGED <<state, nvs>> /\ (unauth' = unauth \/ (state = "DONE" /\ step[Loop] = "idle"))
      BY <2>2, WorldKeeps DEF CalmInv, ConfirmInv, Broker, MqttConnects, MqttRefused,
                              MqttDrops, MqttMessage, Environment, WifiDown, WifiUp,
                              Revoke, Expire, enrollVars, shared, link
    <3>2. QED BY <1>a, <2>1, <3>1
  <2>3. ASSUME NEW t \in Tasks, EnrollTask(t) PROVE StartBare'
    <3>1. ~InStart
      BY <2>3, Worker, EnrollAssumption DEF EnrollAssumption, HandleInv,
          HandleNamesTask, StartOwnsHandle, Live
    <3>2. AtWork(t) => state = "IN_PROGRESS" \/ reauth.on
      BY <2>3, Worker DEF TaskFinds
    <3>3. UNCHANGED unauth \/ AtWork(t)
      BY <2>3, Worker DEF AtWork
    <3>4. state' = state \/ (AtWork(t) /\ state' \in {"DONE", "FAILED"})
      BY <2>3, PostMoves DEF EnrollTask, Send, CheckAttempt, Fail, StoreToken, StoreId,
                             Adopt, Done, Exit, Goes, enrollVars, shared, AtWork
    <3>5. QED BY <1>a, <2>1, <3>1, <3>2, <3>3, <3>4 DEF StateInv, PlaceInv
  <2>4. QED BY <1>6, <2>2, <2>3 DEF Others
<1>7. CASE Restart
  BY <1>7, <1>a DEF Restart, Reboot
<1>8. CASE UNCHANGED vars
  BY <1>8, <1>a DEF vars, enrollVars, shared, call, disco, auth, link
<1>9. QED
  BY <1>1, <1>2, <1>3, <1>4, <1>5, <1>6, <1>7, <1>8, NoHandler
  DEF LifeNext, LoopPass, Others, CalmInv

(* What enroll_check has read is still in NVS when it decides. *)
LEMMA CheckInvStep ==
  ASSUME LifeTypeOK, HandleInv, CalmInv, [LifeNext]_vars, submits' = 0
  PROVE  CheckInv'
<1>a. /\ Loop \in Callers /\ step \in [Callers -> Step]
      /\ have \in [token : BOOLEAN, id : BOOLEAN] /\ nvs \in Pair /\ ram \in Pair
      /\ PlaceInv /\ StateInv /\ CheckInv
  BY EnrollAssumption DEF EnrollAssumption, LifeTypeOK, TypeOK, CalmInv
<1> USE DEF CheckInv, LoopGoes, At, InCheck, InStart
<1>1. CASE CallGoesOn
  <2>1. CASE InitCode(Loop, main_code) \/ InitState(Loop) \/ ResetToken(Loop)
          \/ ResetId(Loop)
    <3>1. pc \in {"try_start", "restart", "stale_srv"} /\ pc' = pc
      BY <2>1, <1>1, <1>a, PassKeeps DEF InitCode, InitState, ResetToken, ResetId, PlaceInv,
                                         InReset, InInit
    <3>2. step'[Loop] \notin {"check_id", "check_state"}
      BY <2>1, <1>a DEF InitCode, InitState, ResetToken, ResetId
    <3>3. QED BY <3>1, <3>2
  <2>2. CASE CheckId
    BY <2>2, <1>1, <1>a, PassKeeps DEF CheckId, PlaceInv, Pair
  <2>3. CASE ResetState(Loop) \/ CheckState \/ StartCode
    BY <2>3, <1>1, <1>a, PassKeeps DEF ResetState, CheckState, StartCode, shared, call,
                                       PlaceInv, InReset
  <2>4. CASE (StartGivesUp /\ pairing_code = NoCode) \/ StartId \/ StartState
          \/ \E u \in Tasks : StartCreate(u)
    BY <2>4, <1>1, <1>a, PassKeeps DEF StartGivesUp, StartId, StartState, StartCreate,
                                       shared, call, PlaceInv
  <2>5. QED BY <1>1, <2>1, <2>2, <2>3, <2>4 DEF CallGoesOn
<1>2. CASE Discovery
  <2>1. CASE Top \/ Settled \/ TryCandidate \/ TryInit
    BY <2>1, <1>2, <1>a, PassKeeps DEF Top, Settled, TryCandidate, TryInit, InitCall,
                                       shared, call, enrollVars
  <2>2. CASE TryStart \/ TryWait \/ WaitReads \/ Won
    BY <2>2, <1>2, <1>a, PassKeeps DEF TryStart, CallStart, StartCall, StartRefused,
                                       TryWait, WaitReads, Won, shared, call, enrollVars
  <2>3. CASE Lost \/ NoServerRetry \/ NoServerWaits
    BY <2>3, <1>2, <1>a, PassKeeps DEF Lost, NoServerRetry, NoServerWaits, shared, call,
                                       enrollVars
  <2>4. QED BY <1>2, <2>1, <2>2, <2>3 DEF Discovery
<1>3. CASE Recovery
  <2>1. CASE TakeUnauthorized("unauth1", "enroll") \/ TakeUnauthorized("unauth2", "mqtt")
          \/ RecoverSkips \/ Recover
    BY <2>1, <1>3, <1>a, PassKeeps DEF TakeUnauthorized, RecoverSkips, Recover, ClearToken,
                                       StopMqtt, shared, call, enrollVars, PlaceInv
  <2>2. CASE RecoverReset \/ RecoverStart
    BY <2>2, <1>3, <1>a, PassKeeps DEF RecoverReset, ResetCall, RecoverStart, CallStart,
                                       StartCall, StartRefused, shared, call, enrollVars,
                                       PlaceInv
  <2>3. QED BY <1>3, <2>1, <2>2 DEF Recovery
<1>4. CASE EnrollStep
  <2>1. CASE Check
    BY <2>1, <1>4, <1>a, PassKeeps DEF Check, CheckCall, Pair
  <2>2. CASE FailedWaits \/ FailedRetries \/ CheckedDone
    BY <2>2, <1>4, <1>a, PassKeeps DEF FailedWaits, FailedRetries, CheckedDone, shared, call,
                                       enrollVars
  <2>3. CASE CheckedNeeded \/ EnrollPasses \/ Settle
    BY <2>3, <1>4, <1>a, PassKeeps DEF CheckedNeeded, CallStart, StartCall, StartRefused,
                                       EnrollPasses, Settle, shared, call, enrollVars
  <2>4. QED BY <1>4, <2>1, <2>2, <2>3 DEF EnrollStep
<1>5. CASE Online
  <2>1. CASE Probe \/ ProbeAccepted \/ ProbeRejected \/ ProbeFails
    BY <2>1, <1>5, <1>a, PassKeeps DEF Probe, ProbeAccepted, ProbeRejected, ProbeFails,
                                       shared, call, enrollVars
  <2>2. CASE Gate \/ StartMqtt \/ StartHeartbeat \/ HeartbeatFresh
    BY <2>2, <1>5, <1>a, PassKeeps DEF Gate, StartMqtt, StartHeartbeat, HeartbeatFresh,
                                       shared, call, enrollVars
  <2>3. CASE HeartbeatStale \/ Rediscover
    BY <2>3, <1>5, <1>a, PassKeeps DEF HeartbeatStale, ResetCall, StopMqtt, Rediscover,
                                       shared, call, enrollVars
  <2>4. QED BY <1>5, <2>1, <2>2, <2>3 DEF Online
<1>6. CASE Others
  <2>1. UNCHANGED <<pc, step, have>>
    BY <1>6, OthersKeep DEF LifeTypeOK
  <2>2. CASE Broker \/ Environment \/ (\E x : Expire(x))
    BY <2>1, <2>2, <1>a, WorldKeeps DEF enrollVars, shared
  <2>3. ASSUME NEW t \in Tasks, EnrollTask(t) PROVE CheckInv'
    <3>1. CASE UNCHANGED <<nvs, ram>>
      BY <1>a, <2>1, <3>1
    <3>2. CASE nvs' # nvs \/ ram' # ram
      <4>1. Committing(t)
        BY <2>3, <3>2, PostMoves DEF EnrollTask, Send, CheckAttempt, Fail, StoreToken,
                                     StoreId, Adopt, Done, Exit, Goes, enrollVars,
                                     shared, Committing
      <4>2. state = "IN_PROGRESS"
        BY <2>3, <4>1, Worker DEF TaskFinds, AtWork, Committing, Refused
      <4>3. QED BY <4>2, <1>a, <2>1 DEF StateInv
    <3>3. QED BY <3>1, <3>2
  <2>4. QED BY <1>6, <2>2, <2>3 DEF Others
<1>7. CASE Restart
  BY <1>7, <1>a DEF Restart, Reboot
<1>8. CASE UNCHANGED vars
  BY <1>8, <1>a DEF vars, enrollVars, shared, call, disco, auth, link
<1>9. QED
  BY <1>1, <1>2, <1>3, <1>4, <1>5, <1>6, <1>7, <1>8, NoHandler
  DEF LifeNext, LoopPass, Others, CalmInv

(* A commit finds its earlier writes where it has put them. *)
LEMMA CommitStep ==
  ASSUME LifeTypeOK, HandleInv, CalmInv, [LifeNext]_vars, submits' = 0, NEW t \in Tasks
  PROVE  CommitSoFar(t)'
<1>a. /\ Loop \in Callers /\ step \in [Callers -> Step]
      /\ nvs \in Pair /\ ram \in Pair /\ tx \in Pair
      /\ PlaceInv /\ StateInv /\ CommitSoFar(t)
  BY EnrollAssumption DEF EnrollAssumption, LifeTypeOK, TypeOK, CalmInv, CoherentInv
<1>b. Committing(t) => /\ state = "IN_PROGRESS" /\ ~InInit /\ ~InReset /\ ~InCheck
                       /\ pc = "recover" => reauth.on
  BY DEF CalmInv, TaskInv, TaskFinds, Committing, AtWork, Refused, StateInv, RefusalInv,
         RefusedMidway, PlaceInv
<1>d. job' = job => job'[t] = job[t]
  OBVIOUS
<1> USE DEF CommitSoFar, LoopGoes, At, Committing
<1>1. CASE CallGoesOn
  <2>1. CASE InitCode(Loop, main_code) \/ InitState(Loop) \/ ResetToken(Loop)
          \/ ResetId(Loop)
    BY <2>1, <1>1, <1>a, <1>b, <1>d, PassKeeps DEF InitCode, InitState, ResetToken, ResetId,
                                                   shared, call, InInit, InReset, InCheck
  <2>2. CASE ResetState(Loop) \/ CheckId \/ CheckState \/ StartCode
    BY <2>2, <1>1, <1>a, <1>b, <1>d, PassKeeps DEF ResetState, CheckId, CheckState,
                                                   StartCode, shared, call, InInit, InReset,
                                                   InCheck
  <2>3. CASE (StartGivesUp /\ pairing_code = NoCode) \/ StartId \/ StartState
    BY <2>3, <1>1, <1>a, <1>b, <1>d, PassKeeps DEF StartGivesUp, StartId, StartState,
                                                   shared, call, InInit, InReset, InCheck
  <2>4. CASE \E u \in Tasks : StartCreate(u)
    BY <2>4, <1>1, <1>a, <1>b, <1>d, PassKeeps DEF StartCreate, shared, call, InInit,
                                                   InReset, InCheck, Pair
  <2>5. QED BY <1>1, <2>1, <2>2, <2>3, <2>4 DEF CallGoesOn
<1>2. CASE Discovery
  <2>1. CASE Top \/ Settled \/ TryCandidate \/ TryInit
    BY <2>1, <1>2, <1>a, <1>d, PassKeeps DEF Top, Settled, TryCandidate, TryInit, InitCall,
                                             shared, call, enrollVars
  <2>2. CASE TryStart \/ TryWait \/ WaitReads \/ Won
    BY <2>2, <1>2, <1>a, <1>d, PassKeeps DEF TryStart, CallStart, StartCall, StartRefused,
                                             TryWait, WaitReads, Won, shared, call,
                                             enrollVars
  <2>3. CASE Lost \/ NoServerRetry \/ NoServerWaits
    BY <2>3, <1>2, <1>a, <1>d, PassKeeps DEF Lost, NoServerRetry, NoServerWaits, shared,
                                             call, enrollVars
  <2>4. QED BY <1>2, <2>1, <2>2, <2>3 DEF Discovery
<1>3. CASE Recovery
  <2>1. CASE TakeUnauthorized("unauth1", "enroll") \/ TakeUnauthorized("unauth2", "mqtt")
          \/ RecoverSkips \/ Recover
    BY <2>1, <1>3, <1>a, <1>b, <1>d, PassKeeps DEF TakeUnauthorized, RecoverSkips, Recover,
                                                   ClearToken, StopMqtt, shared, call,
                                                   enrollVars
  <2>2. CASE RecoverReset \/ RecoverStart
    BY <2>2, <1>3, <1>a, <1>b, <1>d, PassKeeps DEF RecoverReset, ResetCall, RecoverStart,
                                                   CallStart, StartCall, StartRefused,
                                                   shared, call, enrollVars
  <2>3. QED BY <1>3, <2>1, <2>2 DEF Recovery
<1>4. CASE EnrollStep
  <2>1. CASE FailedWaits \/ FailedRetries \/ Check \/ CheckedDone
    BY <2>1, <1>4, <1>a, <1>b, <1>d, PassKeeps DEF FailedWaits, FailedRetries, Check,
                                                   CheckCall, CheckedDone, shared, call,
                                                   enrollVars
  <2>2. CASE CheckedNeeded \/ EnrollPasses \/ Settle
    BY <2>2, <1>4, <1>a, <1>b, <1>d, PassKeeps DEF CheckedNeeded, CallStart, StartCall,
                                                   StartRefused, EnrollPasses, Settle,
                                                   shared, call, enrollVars
  <2>3. QED BY <1>4, <2>1, <2>2 DEF EnrollStep
<1>5. CASE Online
  <2>1. CASE Probe \/ ProbeAccepted \/ ProbeRejected \/ ProbeFails
    BY <2>1, <1>5, <1>a, <1>d, PassKeeps DEF Probe, ProbeAccepted, ProbeRejected,
                                             ProbeFails, shared, call, enrollVars
  <2>2. CASE Gate \/ StartMqtt \/ StartHeartbeat \/ HeartbeatFresh
    BY <2>2, <1>5, <1>a, <1>d, PassKeeps DEF Gate, StartMqtt, StartHeartbeat,
                                             HeartbeatFresh, shared, call, enrollVars
  <2>3. CASE HeartbeatStale \/ Rediscover
    BY <2>3, <1>5, <1>a, <1>d, PassKeeps DEF HeartbeatStale, ResetCall, StopMqtt,
                                             Rediscover, shared, call, enrollVars
  <2>4. QED BY <1>5, <2>1, <2>2, <2>3 DEF Online
<1>6. CASE Others
  <2>2. CASE Broker \/ Environment \/ (\E x : Expire(x))
    BY <2>2, <1>a, WorldKeeps DEF enrollVars, shared
  <2>3. ASSUME EnrollTask(t) PROVE CommitSoFar(t)'
    <3>a. /\ job \in [Tasks -> Job] /\ job[t].cred \in Cred /\ job[t].pc # "none"
      BY <2>3, Worker DEF Job, LifeTypeOK, TypeOK
    <3>1. CASE Send(t) \/ Post(t) \/ CheckAttempt(t) \/ Fail(t)
      BY <3>1, <3>a, <1>a, PostMoves DEF Send, CheckAttempt, Fail, shared, enrollVars, call,
                                         Goes, Job, Pair
    <3>2. CASE StoreToken(t) \/ StoreId(t) \/ Adopt(t) \/ Done(t)
      BY <3>2, <3>a, <1>a DEF StoreToken, StoreId, Adopt, Done, shared, enrollVars, call,
                              Goes, Job, Pair
    <3>3. CASE Exit(t)
      BY <3>3, <3>a, <1>a DEF Exit, NoJob, shared, enrollVars, call, Goes, Job, Pair
    <3>4. QED BY <2>3, <3>1, <3>2, <3>3 DEF EnrollTask
  <2>4. QED BY <1>6, <1>a, <2>2, <2>3, OnlyWorker DEF Others, Live
<1>7. CASE Restart
  BY <1>7, <1>a DEF Restart, Reboot, NoJob
<1>8. CASE UNCHANGED vars
  BY <1>8, <1>a DEF vars, enrollVars, shared, call, disco, auth, link
<1>9. QED
  BY <1>1, <1>2, <1>3, <1>4, <1>5, <1>6, <1>7, <1>8, NoHandler
  DEF LifeNext, LoopPass, Others, CalmInv

(* DONE comes from a commit, a check or a boot, and each leaves the copies  *)
(* equal.                                                                   *)
LEMMA DoneInvStep ==
  ASSUME LifeTypeOK, HandleInv, CalmInv, [LifeNext]_vars, submits' = 0
  PROVE  DoneInv'
<1>a. /\ Loop \in Callers /\ step \in [Callers -> Step]
      /\ have \in [token : BOOLEAN, id : BOOLEAN] /\ nvs \in Pair /\ ram \in Pair /\ tx \in Pair
      /\ PlaceInv /\ StateInv /\ CheckInv /\ DoneInv
  BY EnrollAssumption DEF EnrollAssumption, LifeTypeOK, TypeOK, CalmInv, CoherentInv
<1> USE DEF LoopGoes, At
<1>1. CASE CallGoesOn
  <2>1. CASE InitCode(Loop, main_code) \/ InitState(Loop) \/ ResetToken(Loop)
          \/ ResetId(Loop)
    BY <2>1, <1>1, <1>a, PassKeeps DEF InitCode, InitState, ResetToken, ResetId, DoneInv,
                                       Enrolled, shared, call
  <2>2. CASE ResetState(Loop) \/ CheckId
    BY <2>2, <1>1, <1>a, PassKeeps DEF ResetState, CheckId, DoneInv, Enrolled, shared, call
  <2>3. CASE CheckState
    BY <2>3, <1>1, <1>a, PassKeeps DEF CheckState, DoneInv, Enrolled, shared, call,
                                       CheckInv, InCheck, Pair
  <2>4. CASE StartCode \/ (StartGivesUp /\ pairing_code = NoCode) \/ StartId \/ StartState
    BY <2>4, <1>1, <1>a, PassKeeps DEF StartCode, StartGivesUp, StartId, StartState,
                                       DoneInv, Enrolled, shared, call
  <2>5. CASE \E u \in Tasks : StartCreate(u)
    BY <2>5, <1>1, <1>a, PassKeeps DEF StartCreate, DoneInv, Enrolled, shared, call,
                                       StateInv
  <2>6. QED BY <1>1, <2>1, <2>2, <2>3, <2>4, <2>5 DEF CallGoesOn
<1>2. CASE Discovery
  <2>1. CASE Top \/ Settled \/ TryCandidate \/ TryInit
    BY <2>1, <1>2, <1>a, PassKeeps DEF Top, Settled, TryCandidate, TryInit, InitCall,
                                       DoneInv, Enrolled, shared, call, enrollVars
  <2>2. CASE TryStart \/ TryWait \/ WaitReads \/ Won
    BY <2>2, <1>2, <1>a, PassKeeps DEF TryStart, CallStart, StartCall, StartRefused,
                                       TryWait, WaitReads, Won, DoneInv, Enrolled, shared,
                                       call, enrollVars
  <2>3. CASE Lost \/ NoServerRetry \/ NoServerWaits
    BY <2>3, <1>2, <1>a, PassKeeps DEF Lost, NoServerRetry, NoServerWaits, DoneInv,
                                       Enrolled, shared, call, enrollVars
  <2>4. QED BY <1>2, <2>1, <2>2, <2>3 DEF Discovery
<1>3. CASE Recovery
  <2>1. CASE TakeUnauthorized("unauth1", "enroll") \/ TakeUnauthorized("unauth2", "mqtt")
          \/ RecoverSkips \/ Recover
    BY <2>1, <1>3, <1>a, PassKeeps DEF TakeUnauthorized, RecoverSkips, Recover, ClearToken,
                                       StopMqtt, DoneInv, Enrolled, shared, call, enrollVars
  <2>2. CASE RecoverReset \/ RecoverStart
    BY <2>2, <1>3, <1>a, PassKeeps DEF RecoverReset, ResetCall, RecoverStart, CallStart,
                                       StartCall, StartRefused, DoneInv, Enrolled, shared,
                                       call, enrollVars
  <2>3. QED BY <1>3, <2>1, <2>2 DEF Recovery
<1>4. CASE EnrollStep
  <2>1. CASE FailedWaits \/ FailedRetries \/ Check \/ CheckedDone
    BY <2>1, <1>4, <1>a, PassKeeps DEF FailedWaits, FailedRetries, Check, CheckCall,
                                       CheckedDone, DoneInv, Enrolled, shared, call,
                                       enrollVars
  <2>2. CASE CheckedNeeded \/ EnrollPasses \/ Settle
    BY <2>2, <1>4, <1>a, PassKeeps DEF CheckedNeeded, CallStart, StartCall, StartRefused,
                                       EnrollPasses, Settle, DoneInv, Enrolled, shared,
                                       call, enrollVars
  <2>3. QED BY <1>4, <2>1, <2>2 DEF EnrollStep
<1>5. CASE Online
  <2>1. CASE Probe \/ ProbeAccepted \/ ProbeRejected \/ ProbeFails
    BY <2>1, <1>5, <1>a, PassKeeps DEF Probe, ProbeAccepted, ProbeRejected, ProbeFails,
                                       DoneInv, Enrolled, shared, call, enrollVars
  <2>2. CASE Gate \/ StartMqtt \/ StartHeartbeat \/ HeartbeatFresh
    BY <2>2, <1>5, <1>a, PassKeeps DEF Gate, StartMqtt, StartHeartbeat, HeartbeatFresh,
                                       DoneInv, Enrolled, shared, call, enrollVars
  <2>3. CASE HeartbeatStale \/ Rediscover
    BY <2>3, <1>5, <1>a, PassKeeps DEF HeartbeatStale, ResetCall, StopMqtt, Rediscover,
                                       DoneInv, Enrolled, shared, call, enrollVars
  <2>4. QED BY <1>5, <2>1, <2>2, <2>3 DEF Online
<1>6. CASE Others
  <2>1. UNCHANGED <<pc, step>>
    BY <1>6, OthersKeep DEF LifeTypeOK
  <2>2. CASE Broker \/ Environment \/ (\E x : Expire(x))
    BY <2>1, <2>2, <1>a, WorldKeeps DEF enrollVars, shared, DoneInv, Enrolled
  <2>3. ASSUME NEW t \in Tasks, EnrollTask(t) PROVE DoneInv'
    <3>a. /\ AtWork(t) => state # "DONE"
          /\ CommitSoFar(t)
      BY <2>3, Worker DEF TaskFinds, CalmInv, CoherentInv
    <3>1. CASE Send(t)
      BY <3>1, <3>a, <1>a, <2>1 DEF Send, DoneInv, Enrolled, shared, enrollVars, Goes,
                                    AtWork, CommitSoFar, Committing
    <3>2. CASE Post(t)
      BY <3>2, <3>a, <1>a, <2>1, PostMoves DEF DoneInv, Enrolled, shared, enrollVars, Goes,
                                               AtWork, CommitSoFar, Committing
    <3>3. CASE CheckAttempt(t)
      BY <3>3, <3>a, <1>a, <2>1 DEF CheckAttempt, DoneInv, Enrolled, shared, enrollVars,
                                    Goes, AtWork, CommitSoFar, Committing
    <3>4. CASE Fail(t)
      BY <3>4, <3>a, <1>a, <2>1 DEF Fail, DoneInv, Enrolled, shared, enrollVars, Goes,
                                    AtWork, CommitSoFar, Committing
    <3>5. CASE StoreToken(t)
      BY <3>5, <3>a, <1>a, <2>1 DEF StoreToken, DoneInv, Enrolled, shared, enrollVars, Goes,
                                    AtWork, CommitSoFar, Committing
    <3>6. CASE StoreId(t)
      BY <3>6, <3>a, <1>a, <2>1 DEF StoreId, DoneInv, Enrolled, shared, enrollVars, Goes,
                                    AtWork, CommitSoFar, Committing
    <3>7. CASE Adopt(t)
      BY <3>7, <3>a, <1>a, <2>1 DEF Adopt, DoneInv, Enrolled, shared, enrollVars, Goes,
                                    AtWork, CommitSoFar, Committing
    <3>8. CASE Done(t)
      BY <3>8, <3>a, <1>a, <2>1 DEF Done, DoneInv, Enrolled, shared, enrollVars, Goes,
                                    AtWork, CommitSoFar, Committing
    <3>9. CASE Exit(t)
      BY <3>9, <3>a, <1>a, <2>1 DEF Exit, NoJob, DoneInv, Enrolled, shared, enrollVars,
                                    Goes, AtWork, CommitSoFar, Committing
    <3>10. QED BY <2>3, <3>1, <3>2, <3>3, <3>4, <3>5, <3>6, <3>7, <3>8, <3>9 DEF EnrollTask
  <2>4. QED BY <1>6, <2>2, <2>3 DEF Others
<1>7. CASE Restart
  BY <1>7, <1>a DEF Restart, Reboot, DoneInv, Enrolled
<1>8. CASE UNCHANGED vars
  BY <1>8, <1>a DEF vars, enrollVars, shared, call, DoneInv, Enrolled
<1>9. QED
  BY <1>1, <1>2, <1>3, <1>4, <1>5, <1>6, <1>7, <1>8, NoHandler
  DEF LifeNext, LoopPass, Others, CalmInv

(* token_ok, MQTT and the heartbeat task only after an accepted heartbeat. *)
LEMMA ConfirmStep ==
  ASSUME LifeTypeOK, HandleInv, CalmInv, [LifeNext]_vars, submits' = 0
  PROVE  ConfirmInv'
<1>a. /\ Loop \in Callers /\ step \in [Callers -> Step]
      /\ reauth \in [on : BOOLEAN, wait : BOOLEAN]
      /\ token_ok \in BOOLEAN /\ hb_started \in BOOLEAN
      /\ PlaceInv /\ StateInv /\ ConfirmInv /\ LinkTypeOK
  BY EnrollAssumption DEF EnrollAssumption, LifeTypeOK, TypeOK, FlagTypeOK, CalmInv
<1> USE DEF ConfirmInv, LoopGoes, At, Chosen
<1>1. CASE CallGoesOn
  <2>1. CASE InitCode(Loop, main_code) \/ InitState(Loop) \/ ResetToken(Loop)
          \/ ResetId(Loop)
    BY <2>1, <1>1, <1>a, PassKeeps DEF InitCode, InitState, ResetToken, ResetId, shared,
                                       call
  <2>2. CASE ResetState(Loop) \/ CheckId \/ CheckState \/ StartCode
    BY <2>2, <1>1, <1>a, PassKeeps DEF ResetState, CheckId, CheckState, StartCode, shared,
                                       call
  <2>3. CASE (StartGivesUp /\ pairing_code = NoCode) \/ StartId \/ StartState
          \/ \E u \in Tasks : StartCreate(u)
    BY <2>3, <1>1, <1>a, PassKeeps DEF StartGivesUp, StartId, StartState, StartCreate,
                                       shared, call
  <2>4. QED BY <1>1, <2>1, <2>2, <2>3 DEF CallGoesOn
<1>2. CASE Discovery
  <2>1. CASE Top \/ Settled \/ TryCandidate \/ TryInit
    BY <2>1, <1>2, <1>a, PassKeeps DEF Top, Settled, TryCandidate, TryInit, InitCall,
                                       shared, call, enrollVars, disco, auth, link, world,
                                       PlaceInv, Tries, Waits
  <2>2. CASE TryStart \/ TryWait \/ WaitReads \/ Won
    BY <2>2, <1>2, <1>a, PassKeeps DEF TryStart, CallStart, StartCall, StartRefused,
                                       TryWait, WaitReads, Won, shared, call, enrollVars,
                                       disco, auth, link, world, PlaceInv, Tries, Waits
  <2>3. CASE Lost \/ NoServerRetry \/ NoServerWaits
    BY <2>3, <1>2, <1>a, PassKeeps DEF Lost, NoServerRetry, NoServerWaits, shared, call,
                                       enrollVars, disco, auth, link, world, PlaceInv,
                                       Tries, Waits
  <2>4. QED BY <1>2, <2>1, <2>2, <2>3 DEF Discovery
<1>3. CASE Recovery
  <2>1. CASE TakeUnauthorized("unauth1", "enroll") \/ TakeUnauthorized("unauth2", "mqtt")
          \/ RecoverSkips \/ Recover
    BY <2>1, <1>3, <1>a, PassKeeps DEF TakeUnauthorized, RecoverSkips, Recover, ClearToken,
                                       StopMqtt, shared, call, enrollVars, disco, auth,
                                       link, world, Off, PlaceInv
  <2>2. CASE RecoverReset \/ RecoverStart
    BY <2>2, <1>3, <1>a, PassKeeps DEF RecoverReset, ResetCall, RecoverStart, CallStart,
                                       StartCall, StartRefused, shared, call, enrollVars,
                                       disco, auth, link, world, Off, PlaceInv
  <2>3. QED BY <1>3, <2>1, <2>2 DEF Recovery
<1>4. CASE EnrollStep
  <2>1. CASE FailedWaits \/ FailedRetries \/ Check \/ CheckedDone
    BY <2>1, <1>4, <1>a, PassKeeps DEF FailedWaits, FailedRetries, Check, CheckCall,
                                       CheckedDone, shared, call, enrollVars, disco, auth,
                                       link, world
  <2>2. CASE CheckedNeeded \/ EnrollPasses \/ Settle
    BY <2>2, <1>4, <1>a, PassKeeps DEF CheckedNeeded, CallStart, StartCall, StartRefused,
                                       EnrollPasses, Settle, shared, call, enrollVars,
                                       disco, auth, link, world
  <2>3. QED BY <1>4, <2>1, <2>2 DEF EnrollStep
<1>5. CASE Online
  <2>1. CASE Probe
    BY <2>1, <1>5, <1>a, PassKeeps DEF Probe, shared, call, enrollVars, disco, auth, link,
                                       world, Off, LinkTypeOK
  <2>2. CASE ProbeAccepted
    BY <2>2, <1>5, <1>a, PassKeeps DEF ProbeAccepted, shared, call, enrollVars, disco, auth,
                                       link, world, Off, PlaceInv
  <2>3. CASE ProbeRejected \/ ProbeFails \/ Gate \/ StartMqtt
    BY <2>3, <1>5, <1>a, PassKeeps DEF ProbeRejected, ProbeFails, Gate, StartMqtt, shared,
                                       call, enrollVars, disco, auth, link, world, Off
  <2>4. CASE StartHeartbeat \/ HeartbeatFresh \/ HeartbeatStale
    BY <2>4, <1>5, <1>a, PassKeeps DEF StartHeartbeat, HeartbeatFresh, HeartbeatStale,
                                       ResetCall, StopMqtt, shared, call, enrollVars, disco,
                                       auth, link, world, Off
  <2>5. CASE Rediscover
    BY <2>5, <1>5, <1>a, PassKeeps DEF Rediscover, shared, call, enrollVars, disco, auth,
                                       link, world, Off, StateInv
  <2>6. QED BY <1>5, <2>1, <2>2, <2>3, <2>4, <2>5 DEF Online
<1>6. CASE Others
  <2>1. UNCHANGED <<pc, disc, reauth, token_ok, hb_started, step>>
    BY <1>6, OthersKeep DEF disco, LifeTypeOK
  <2>2. CASE Broker \/ Environment \/ (\E x : Expire(x))
    <3>1. UNCHANGED <<state, tx, asked, accepted>>
      BY <2>2, WorldKeeps DEF enrollVars, shared, Broker, MqttConnects, MqttRefused,
                              MqttDrops, MqttMessage, Environment, WifiDown, WifiUp,
                              Revoke, Expire, world
    <3>2. mqtt' = mqtt \/ (mqtt.st # "off" /\ mqtt'.token = mqtt.token)
      BY <2>2, <1>a DEF LinkTypeOK, Broker, MqttConnects, MqttRefused, MqttDrops,
                        MqttMessage, Environment, WifiDown, WifiUp, Revoke, Expire, link
    <3>3. QED BY <1>a, <2>1, <3>1, <3>2
  <2>3. ASSUME NEW t \in Tasks, EnrollTask(t) PROVE ConfirmInv'
    <3>1. UNCHANGED <<mqtt, accepted>> /\ asked'.token = asked.token
      BY <2>3, <1>a, PostMoves DEF EnrollTask, Send, LinkTypeOK
    <3>2. state = "DONE" => UNCHANGED <<state, tx>>
      <4>1. AtWork(t) => state # "DONE"
        BY <2>3, Worker DEF TaskFinds
      <4>2. QED BY <2>3, <4>1, PostMoves DEF EnrollTask, Send, CheckAttempt, Fail,
                    StoreToken, StoreId, Adopt, Done, Exit, Goes, enrollVars, shared,
                    AtWork
    <3>3. QED BY <1>a, <2>1, <3>1, <3>2
  <2>4. QED BY <1>6, <2>2, <2>3 DEF Others
<1>7. CASE Restart
  BY <1>7, <1>a DEF Restart, Reboot, Off
<1>8. CASE UNCHANGED vars
  BY <1>8, <1>a DEF vars, enrollVars, shared, call, disco, auth, link, world
<1>9. QED
  BY <1>1, <1>2, <1>3, <1>4, <1>5, <1>6, <1>7, <1>8, NoHandler
  DEF LifeNext, LoopPass, Others, CalmInv

(* Without a form the portal stays closed and no message is parsed. *)
LEMMA PortalClosedStep ==
  ASSUME LifeTypeOK, CalmInv, [LifeNext]_vars, submits' = 0
  PROVE  PortalClosed'
<1> USE DEF PortalClosed, CalmInv
<1>1. CASE CallGoesOn
  BY <1>1, PassKeeps, LoopFrame DEF LoopPass, LifeTypeOK, CallGoesOn, InitCode,
                                    InitState, ResetToken, ResetId, ResetState, CheckId,
                                    CheckState, StartCode, StartGivesUp, StartId,
                                    StartState, StartCreate, outer
<1>2. CASE Discovery \/ Recovery \/ EnrollStep \/ Online
  BY <1>2, PassKeeps, LoopFrame DEF LoopPass, LifeTypeOK
<1>3. CASE Broker \/ Environment \/ (\E x : Expire(x))
  BY <1>3, WorldKeeps DEF enrollVars, call, outer, form_
<1>4. ASSUME NEW t \in Tasks, EnrollTask(t) PROVE PortalClosed'
  <2>1. UNCHANGED <<form_, step>>
    BY <1>4, OthersKeep DEF Others, LifeTypeOK
  <2>2. rx' = rx
    BY <1>4, PostMoves DEF EnrollTask, Send, CheckAttempt, Fail, StoreToken, StoreId,
                           Adopt, Done, Exit, enrollVars, outer
  <2>3. QED BY <2>1, <2>2 DEF form_
<1>5. CASE Restart
  BY <1>5 DEF Restart, Reboot
<1>6. CASE UNCHANGED vars
  BY <1>6 DEF vars, enrollVars, call, outer, form_
<1>7. QED
  BY <1>1, <1>2, <1>3, <1>4, <1>5, <1>6, NoHandler DEF LifeNext, LoopPass

(* The first boot is calm. *)
LEMMA CalmInitially == FirstBoot => CalmInv
<1> SUFFICES ASSUME FirstBoot PROVE CalmInv
  OBVIOUS
<1>1. /\ pc = "top" /\ state = "NEEDED" /\ nvs = Empty /\ ram = Empty /\ tx = Empty /\ ~rx
      /\ step = [c \in Callers |-> "idle"] /\ job = [t \in Tasks |-> NoJob] /\ Loop \in Callers
      /\ portal = "idle" /\ form = NoForm /\ ~unauth /\ ~token_ok /\ ~hb_started /\ mqtt = Off
      /\ reauth = [on |-> FALSE, wait |-> FALSE] /\ disc \in {"OVERRIDE", "TRY_LOCAL"}
  BY EnrollAssumption DEF EnrollAssumption, FirstBoot, EnrollInit, BootDisc
<1>2. \A t \in Tasks : ~AtWork(t) /\ ~Refused(t) /\ job[t].pc = "none"
  BY <1>1 DEF AtWork, Refused, NoJob
<1>3. PlaceInv /\ StateInv /\ PortalClosed /\ CheckInv
  BY <1>1 DEF PlaceInv, StateInv, PortalClosed, CheckInv, Tries, Waits, Chosen, InInit,
              InReset, InCheck, InStart
<1>4. TaskInv /\ RefusalInv
  BY <1>1, <1>2 DEF TaskInv, RefusalInv, RefusedMidway, RefusedBare, StartBare, InCheck,
                    InStart
<1>5. CoherentInv /\ ConfirmInv
  BY <1>1, <1>2 DEF CoherentInv, CommitSoFar, Committing, DoneInv, ConfirmInv, Off
<1>6. QED BY <1>3, <1>4, <1>5 DEF CalmInv

(* Every step without a form keeps the calm invariant. *)
LEMMA CalmStep ==
  ASSUME LifeTypeOK, HandleInv, CalmInv, [LifeNext]_vars, submits' = 0
  PROVE  CalmInv'
<1>1. PortalClosed' /\ PlaceInv' /\ StateInv' /\ TaskInv'
  BY PortalClosedStep, PlaceStep, StateStep, TaskInvStep DEF CalmInv
<1>2. RefusalInv'
  BY RefusedMidwayStep, RefusedBareStep, StartBareStep DEF RefusalInv
<1>3. CheckInv' /\ CoherentInv' /\ ConfirmInv'
  BY CheckInvStep, CommitStep, DoneInvStep, ConfirmStep DEF CoherentInv
<1>4. QED BY <1>1, <1>2, <1>3 DEF CalmInv

(* The number of forms never falls. *)
LEMMA NoFormBefore == ASSUME LifeTypeOK, [LifeNext]_vars, submits' = 0 PROVE submits = 0
<1> USE DEF form_
<1>1. CASE LoopPass
  BY <1>1, PassKeeps DEF LoopPass
<1>2. CASE Others
  BY <1>2, OthersKeep DEF LifeTypeOK
<1>3. CASE Portal
  BY <1>3 DEF Portal, Handler, HttpdCall, RepairStop, RepairReset, ApplyCode,
              RepairTarget, CredentialsNoCode, PortalEnds, Repair, Credentials,
              SaveServer, Submit, LifeTypeOK, WorldTypeOK
<1>4. CASE Restart
  BY <1>4 DEF Restart
<1>5. CASE UNCHANGED vars
  BY <1>5 DEF vars
<1>6. QED BY <1>1, <1>2, <1>3, <1>4, <1>5 DEF LifeNext, Others

(* Until the first form the calm invariant holds. *)
LEMMA CalmInductive == LifeSpec => [](submits = 0 => CalmInv)
<1> DEFINE Calm == submits = 0 => CalmInv
<1>1. FirstBoot => Calm
  BY CalmInitially
<1>2. LifeTypeOK /\ HandleInv /\ Calm /\ [LifeNext]_vars => Calm'
  BY CalmStep, NoFormBefore
<1>3. LifeSpec => []HandleInv
  BY LifecycleImplementsEnroll, HandleInvInductive
<1> HIDE DEF Calm
<1>4. LifeSpec => []Calm
  BY <1>1, <1>2, <1>3, LifeTypesHold, PTL DEF LifeSpec
<1>5. QED BY <1>4 DEF Calm

-----------------------------------------------------------------------------
(* The target is the candidate from its choice to its verdict. *)
LEMMA ServerStep ==
  ASSUME LifeTypeOK, CalmInv, ServerInv, [LifeNext]_vars, submits' = 0
  PROVE  ServerInv'
<1>a. PlaceInv
  BY DEF CalmInv
<1> USE DEF ServerInv, LoopGoes, Candidate, Tries, Waits
<1>1. CASE CallGoesOn
  BY <1>1, PassKeeps
<1>2. CASE Discovery
  <2>1. CASE Top \/ Settled \/ TryCandidate \/ TryInit
    BY <2>1, <1>2, <1>a DEF Top, Settled, TryCandidate, TryInit, InitCall, PlaceInv, disco
  <2>2. CASE TryStart \/ TryWait \/ WaitReads \/ Won
    BY <2>2, <1>2, <1>a DEF TryStart, CallStart, StartCall, StartRefused, TryWait,
                            WaitReads, Won, PlaceInv, disco
  <2>3. CASE Lost \/ NoServerRetry \/ NoServerWaits
    BY <2>3, <1>2, <1>a DEF Lost, NoServerRetry, NoServerWaits, PlaceInv, disco
  <2>4. QED BY <1>2, <2>1, <2>2, <2>3 DEF Discovery
<1>3. CASE Recovery
  <2>1. CASE TakeUnauthorized("unauth1", "enroll") \/ TakeUnauthorized("unauth2", "mqtt")
          \/ RecoverSkips \/ Recover
    BY <2>1, <1>3, <1>a DEF TakeUnauthorized, RecoverSkips, Recover, ClearToken, StopMqtt,
                            PlaceInv, disco
  <2>2. CASE RecoverReset \/ RecoverStart
    BY <2>2, <1>3, <1>a DEF RecoverReset, ResetCall, RecoverStart, CallStart, StartCall,
                            StartRefused, PlaceInv, disco
  <2>3. QED BY <1>3, <2>1, <2>2 DEF Recovery
<1>4. CASE EnrollStep
  <2>1. CASE FailedWaits \/ FailedRetries \/ Check \/ CheckedDone
    BY <2>1, <1>4, <1>a DEF FailedWaits, FailedRetries, Check, CheckCall, CheckedDone, disco
  <2>2. CASE CheckedNeeded \/ EnrollPasses \/ Settle
    BY <2>2, <1>4, <1>a DEF CheckedNeeded, CallStart, StartCall, StartRefused, EnrollPasses,
                            Settle, disco
  <2>3. QED BY <1>4, <2>1, <2>2 DEF EnrollStep
<1>5. CASE Online
  <2>1. CASE Probe \/ ProbeAccepted \/ ProbeRejected \/ ProbeFails
    BY <2>1, <1>5, <1>a DEF Probe, ProbeAccepted, ProbeRejected, ProbeFails, disco
  <2>2. CASE Gate \/ StartMqtt \/ StartHeartbeat \/ HeartbeatFresh
    BY <2>2, <1>5, <1>a DEF Gate, StartMqtt, StartHeartbeat, HeartbeatFresh, disco
  <2>3. CASE HeartbeatStale \/ Rediscover
    BY <2>3, <1>5, <1>a DEF HeartbeatStale, ResetCall, StopMqtt, Rediscover, disco
  <2>4. QED BY <1>5, <2>1, <2>2, <2>3 DEF Online
<1>6. CASE Others
  BY <1>6, OthersKeep DEF disco, LifeTypeOK
<1>7. CASE Restart
  BY <1>7, <1>a DEF Restart, BootDisc
<1>8. CASE UNCHANGED vars
  BY <1>8, <1>a DEF vars, disco
<1>9. QED
  BY <1>1, <1>2, <1>3, <1>4, <1>5, <1>6, <1>7, <1>8, NoHandler
  DEF LifeNext, LoopPass, Others, CalmInv

(* A task writes no credential ahead of the grants. *)
LEMMA GrantTask ==
  ASSUME LifeTypeOK, GrantInv, NEW t \in Tasks, EnrollTask(t)
  PROVE  /\ nvs'.token <= granted' /\ ram'.token <= granted' /\ tx'.token <= granted'
         /\ asked'.token = asked.token /\ mqtt' = mqtt /\ granted' \in Nat /\ granted <= granted'
         /\ job'[t].cred <= granted' /\ \A u \in Tasks \ {t} : job'[u] = job[u]
<1>a. /\ nvs \in Pair /\ ram \in Pair /\ tx \in Pair /\ job \in [Tasks -> Job] /\ granted \in Nat
      /\ asked \in [token : Cred, server : Server \cup {"none"},
                    post : Server \cup {"none"}, posted : Cred]
      /\ mqtt' = mqtt
  BY DEF LifeTypeOK, TypeOK, LinkTypeOK, EnrollTask
<1>b. /\ nvs.token <= granted /\ ram.token <= granted /\ tx.token <= granted
      /\ job[t].cred <= granted /\ job[t].cred \in Nat
  BY <1>a DEF GrantInv, Job, Cred
<1>c. \A u \in Tasks \ {t} : job'[u] = job[u]
  BY TaskFrame DEF EnrollTask, Send, Post, TaskStep, LifeTypeOK, enrollVars
<1>d. asked'.token = asked.token
  BY <1>a DEF EnrollTask, Send, Post
<1> DEFINE Goal == /\ nvs'.token <= granted' /\ ram'.token <= granted' /\ tx'.token <= granted'
                   /\ granted' \in Nat /\ granted <= granted' /\ job'[t].cred <= granted'
<1>5. Goal
  <2>1. CASE Send(t) \/ Post(t) \/ CheckAttempt(t) \/ Fail(t)
    BY <2>1, <1>a, <1>b, PostMoves DEF Send, CheckAttempt, Fail, shared, enrollVars, outer,
                                       Goes, Job, Pair, Cred
  <2>2. CASE StoreToken(t) \/ StoreId(t) \/ Adopt(t) \/ Done(t)
    BY <2>2, <1>a, <1>b DEF StoreToken, StoreId, Adopt, Done, shared, enrollVars, outer,
                            Goes, Job, Pair, Cred
  <2>3. CASE Exit(t)
    BY <2>3, <1>a, <1>b DEF Exit, NoJob, shared, enrollVars, outer, Goes, Job, Pair, Cred
  <2>4. QED BY <2>1, <2>2, <2>3 DEF EnrollTask
<1>6. QED BY <1>a, <1>c, <1>d, <1>5

(* No step puts a credential ahead of the grants. *)
LEMMA GrantStep ==
  ASSUME LifeTypeOK, CalmInv, GrantInv, [LifeNext]_vars, submits' = 0
  PROVE  GrantInv'
<1>a. /\ nvs \in Pair /\ ram \in Pair /\ tx \in Pair /\ job \in [Tasks -> Job] /\ granted \in Nat
      /\ LinkTypeOK
  BY DEF LifeTypeOK, TypeOK
<1> USE DEF GrantInv, Pair, Cred, Empty
<1>1. CASE CallGoesOn
  <2>1. CASE InitCode(Loop, main_code)
    BY <2>1, <1>1, <1>a, PassKeeps DEF InitCode, shared, outer, call
  <2>2. CASE InitState(Loop)
    BY <2>2, <1>1, <1>a, PassKeeps DEF InitState, shared, outer, call
  <2>3. CASE ResetToken(Loop) \/ ResetId(Loop)
    BY <2>3, <1>1, <1>a, PassKeeps DEF ResetToken, ResetId, shared, outer, call
  <2>4. CASE ResetState(Loop)
    BY <2>4, <1>1, <1>a, PassKeeps DEF ResetState, shared, outer, call
  <2>5. CASE CheckId
    BY <2>5, <1>1, <1>a, PassKeeps DEF CheckId, shared, outer, call
  <2>6. CASE CheckState \/ StartCode
    BY <2>6, <1>1, <1>a, PassKeeps DEF CheckState, StartCode, shared, outer, call
  <2>7. CASE (StartGivesUp /\ pairing_code = NoCode) \/ StartId \/ StartState
          \/ \E u \in Tasks : StartCreate(u)
    BY <2>7, <1>1, <1>a, PassKeeps DEF StartGivesUp, StartId, StartState, StartCreate,
                                       shared, outer, call
  <2>8. QED BY <1>1, <2>1, <2>2, <2>3, <2>4, <2>5, <2>6, <2>7 DEF CallGoesOn
<1>2. CASE Discovery
  BY <1>2, <1>a, PassKeeps DEF Discovery, Top, Settled, TryCandidate, TryInit, TryStart,
                               TryWait, WaitReads, Won, Lost, NoServerRetry,
                               NoServerWaits, CallStart, StartCall, InitCall,
                               enrollVars, shared, link
<1>3. CASE Recovery
  <2>1. CASE TakeUnauthorized("unauth1", "enroll") \/ TakeUnauthorized("unauth2", "mqtt")
          \/ RecoverSkips \/ Recover
    BY <2>1, <1>3, <1>a, PassKeeps DEF TakeUnauthorized, RecoverSkips, Recover, ClearToken,
                                       StopMqtt, enrollVars, shared, link, Off
  <2>2. CASE RecoverReset \/ RecoverStart
    BY <2>2, <1>3, <1>a, PassKeeps DEF RecoverReset, ResetCall, RecoverStart, CallStart,
                                       StartCall, StartRefused, enrollVars, shared, link,
                                       Off
  <2>3. QED BY <1>3, <2>1, <2>2 DEF Recovery
<1>4. CASE EnrollStep
  <2>1. CASE FailedWaits \/ FailedRetries \/ Check \/ CheckedDone
    BY <2>1, <1>4, <1>a, PassKeeps DEF FailedWaits, FailedRetries, Check, CheckCall,
                                       CheckedDone, enrollVars, shared, link
  <2>2. CASE CheckedNeeded \/ EnrollPasses \/ Settle
    BY <2>2, <1>4, <1>a, PassKeeps DEF CheckedNeeded, CallStart, StartCall, StartRefused,
                                       EnrollPasses, Settle, enrollVars, shared, link
  <2>3. QED BY <1>4, <2>1, <2>2 DEF EnrollStep
<1>5. CASE Online
  <2>1. CASE Probe \/ ProbeAccepted \/ ProbeRejected \/ ProbeFails
    BY <2>1, <1>5, <1>a, PassKeeps DEF Probe, ProbeAccepted, ProbeRejected, ProbeFails,
                                       enrollVars, shared, link, LinkTypeOK, Off
  <2>2. CASE Gate \/ StartMqtt \/ StartHeartbeat \/ HeartbeatFresh
    BY <2>2, <1>5, <1>a, PassKeeps DEF Gate, StartMqtt, StartHeartbeat, HeartbeatFresh,
                                       enrollVars, shared, link, LinkTypeOK, Off
  <2>3. CASE HeartbeatStale \/ Rediscover
    BY <2>3, <1>5, <1>a, PassKeeps DEF HeartbeatStale, ResetCall, StopMqtt, Rediscover,
                                       enrollVars, shared, link, LinkTypeOK, Off
  <2>4. QED BY <1>5, <2>1, <2>2, <2>3 DEF Online
<1>6. CASE Broker \/ Environment \/ (\E x : Expire(x))
  <2>1. mqtt'.token = mqtt.token
    BY <1>6, <1>a DEF LinkTypeOK, Broker, MqttConnects, MqttRefused, MqttDrops,
                      MqttMessage, Environment, WifiDown, WifiUp, Revoke, Expire, link
  <2>2. QED BY <1>6, <2>1, WorldKeeps DEF enrollVars, shared, outer
<1>7. CASE \E t \in Tasks : EnrollTask(t)
  <2>1. PICK t \in Tasks : EnrollTask(t)
    BY <1>7
  <2>2. ASSUME NEW u \in Tasks PROVE job'[u].cred <= granted'
    <3>1. job[u].cred \in Nat /\ job[u].cred <= granted
      BY <1>a DEF Job
    <3>2. QED BY <1>a, <2>1, <3>1, GrantTask
  <2>3. QED BY <1>a, <2>1, <2>2, GrantTask DEF LinkTypeOK
<1>8. CASE Restart
  BY <1>8, <1>a DEF Restart, Reboot, NoJob, Empty, Off, NotAsked
<1>9. CASE UNCHANGED vars
  BY <1>9, <1>a DEF vars, enrollVars, shared, link, outer
<1>10. QED
  BY <1>1, <1>2, <1>3, <1>4, <1>5, <1>6, <1>7, <1>8, <1>9, NoHandler
  DEF LifeNext, LoopPass, CalmInv

(* Out of a restart, the target changes only while nobody is at work. *)
LEMMA TargetStays ==
  ASSUME LifeTypeOK, CalmInv, [LifeNext]_vars, submits' = 0
  PROVE  \/ server' = server
         \/ Restart
         \/ /\ TryCandidate /\ pc = "disc" /\ disc \in Tries /\ state # "DONE"
            /\ \A t \in Tasks : ~AtWork(t)
<1> USE DEF disco
<1>1. ASSUME TryCandidate
      PROVE  pc = "disc" /\ disc \in Tries /\ state # "DONE" /\ \A t \in Tasks : ~AtWork(t)
  <2>1. pc = "disc" /\ disc \in Tries
    BY <1>1 DEF TryCandidate, LoopGoes, Tries
  <2>2. state \notin {"IN_PROGRESS", "DONE"} /\ disc # "OVERRIDE"
    BY <2>1 DEF CalmInv, StateInv, Tries
  <2>3. QED BY <2>1, <2>2 DEF CalmInv, TaskInv, TaskFinds
<1>2. CASE CallGoesOn
  BY <1>2, PassKeeps
<1>3. CASE Discovery
  BY <1>1, <1>3 DEF Discovery, Top, Settled, TryInit, TryStart, TryWait, WaitReads, Won,
                    Lost, NoServerRetry, NoServerWaits, CallStart
<1>4. CASE Recovery \/ EnrollStep
  BY <1>4 DEF Recovery, TakeUnauthorized, RecoverSkips, Recover, RecoverReset,
              RecoverStart, CallStart, EnrollStep, FailedWaits, FailedRetries, Check,
              CheckedDone, CheckedNeeded, EnrollPasses, Settle
<1>5. CASE Online
  BY <1>5 DEF Online, Probe, ProbeAccepted, ProbeRejected, ProbeFails, Gate, StartMqtt,
              StartHeartbeat, HeartbeatFresh, HeartbeatStale, Rediscover
<1>6. CASE Others
  BY <1>6, OthersKeep DEF LifeTypeOK
<1>7. CASE UNCHANGED vars
  BY <1>7 DEF vars
<1>8. QED
  BY <1>2, <1>3, <1>4, <1>5, <1>6, <1>7, NoHandler DEF LifeNext, LoopPass, Others, CalmInv

(* loop() adds an attempt in "post", and asks for nothing but heartbeats. *)
LEMMA PassJobs ==
  ASSUME LifeTypeOK, HandleInv, LoopPass
  PROVE  /\ issuer' = issuer /\ granted' = granted
         /\ asked'.post = asked.post /\ asked'.posted = asked.posted
         /\ \A t \in Tasks :
              job'[t] = job[t] \/ (~AtWork(t) /\ job'[t].pc = "post" /\ job'[t].cred = 0)
<1>a. job \in [Tasks -> Job] /\ LinkTypeOK
  BY DEF LifeTypeOK, TypeOK
<1>1. CASE CallGoesOn
  <2>1. UNCHANGED <<issuer, granted, asked>>
    BY <1>1, PassKeeps DEF CallGoesOn, InitCode, InitState, ResetToken, ResetId,
                           ResetState, CheckId, CheckState, StartCode, StartGivesUp,
                           StartId, StartState, StartCreate, outer
  <2>2. CASE job' = job
    BY <2>1, <2>2
  <2>3. CASE job' # job
    <3>1. PICK u \in Tasks : StartCreate(u)
      BY <1>1, <2>3 DEF CallGoesOn, InitCode, InitState, ResetToken, ResetId,
                        ResetState, CheckId, CheckState, StartCode, StartGivesUp,
                        StartId, StartState
    <3>2. QED BY <1>a, <2>1, <3>1 DEF StartCreate, Live, AtWork
  <2>4. QED BY <2>2, <2>3
<1>2. CASE Discovery \/ Recovery \/ EnrollStep \/ Online
  <2>1. job' = job /\ granted' = granted /\ issuer' = issuer
    BY <1>2, PassKeeps
  <2>2. asked'.post = asked.post /\ asked'.posted = asked.posted
    BY <1>2, <1>a DEF LinkTypeOK, link, Discovery, Top, Settled, TryCandidate, TryInit,
                      TryStart, TryWait, WaitReads, Won, Lost, NoServerRetry,
                      NoServerWaits, CallStart, Recovery, TakeUnauthorized,
                      RecoverSkips, Recover, RecoverReset, RecoverStart, EnrollStep,
                      FailedWaits, FailedRetries, Check, CheckedDone, CheckedNeeded,
                      EnrollPasses, Settle, Online, Probe, ProbeAccepted, ProbeRejected,
                      ProbeFails, Gate, StartMqtt, StartHeartbeat, HeartbeatFresh,
                      HeartbeatStale, Rediscover
  <2>3. QED BY <2>1, <2>2
<1>3. QED BY <1>1, <1>2 DEF LoopPass

(* The target does not move under a POST. *)
LEMMA AskingStep ==
  ASSUME LifeTypeOK, HandleInv, CalmInv, Asking, [LifeNext]_vars, submits' = 0
  PROVE  Asking'
<1> USE DEF Asking
<1>a. LinkTypeOK /\ job \in [Tasks -> Job] /\ server \in Server
  BY DEF LifeTypeOK, TypeOK, LoopTypeOK
<1>1. CASE LoopPass
  <2>1. /\ asked'.post = asked.post /\ asked'.posted = asked.posted
        /\ \A t \in Tasks : job[t].pc = "post" => job'[t].pc = "post"
    BY <1>1, PassJobs DEF AtWork
  <2>2. CASE server' = server
    BY <2>1, <2>2
  <2>3. CASE \A t \in Tasks : ~AtWork(t)
    BY <2>1, <2>3 DEF AtWork
  <2>4. CASE Restart
    BY <2>4 DEF Restart, NotAsked
  <2>5. QED BY <2>2, <2>3, <2>4, TargetStays
<1>2. ASSUME NEW t \in Tasks, EnrollTask(t) PROVE Asking'
  <2>1. server' = server
    BY <1>2, OthersKeep DEF Others, disco, LifeTypeOK
  <2>2. CASE Send(t)
    BY <1>a, <2>1, <2>2 DEF Send, enrollVars, LinkTypeOK, Server
  <2>3. CASE Post(t)
    BY <1>a, <2>1, <2>3 DEF Post, LinkTypeOK
  <2>4. CASE job[t].pc # "post"
    <3>1. asked' = asked
      BY <1>2, <2>4, Worker
    <3>2. job[t].pc # "none"
      BY <1>2, Worker
    <3>3. \A u \in Tasks : job[u].pc # "post"
      BY <2>4, <3>2 DEF HandleInv, HandleNamesTask, Live
    <3>4. QED BY <3>1, <3>3
  <2>5. QED
    BY <1>2, <2>2, <2>3, <2>4 DEF EnrollTask, CheckAttempt, Fail, StoreToken, StoreId,
                                  Adopt, Done, Exit, Goes
<1>3. CASE Broker \/ Environment \/ (\E x : Expire(x))
  BY <1>3, WorldKeeps, OthersKeep DEF Others, LifeTypeOK, disco, enrollVars
<1>4. CASE Restart
  BY <1>4 DEF Restart, NotAsked
<1>5. CASE UNCHANGED vars
  BY <1>5 DEF vars, disco, link, enrollVars
<1>6. QED
  BY <1>1, <1>2, <1>3, <1>4, <1>5, NoHandler DEF LifeNext, CalmInv

(* What a task at work has been granted comes from the present target. *)
LEMMA PostedStep ==
  ASSUME LifeTypeOK, HandleInv, CalmInv, GrantInv, PostInv, [LifeNext]_vars, submits' = 0,
         NEW t \in Tasks
  PROVE  Posted(t)'
<1> USE DEF Posted, AtWork
<1>a. /\ Posted(t) /\ issuer \in [Cred -> Server \cup {"none"}]
      /\ job[t].cred \in Nat /\ granted \in Nat /\ job[t].cred <= granted
  BY DEF PostInv, LifeTypeOK, TypeOK, WorldTypeOK, GrantInv, Job, Cred
<1>1. CASE LoopPass
  <2>1. issuer' = issuer /\ (job'[t] = job[t] \/ job'[t].cred = 0)
    BY <1>1, PassJobs
  <2>2. CASE server' = server
    BY <1>a, <2>1, <2>2
  <2>3. CASE \A u \in Tasks : ~AtWork(u)
    BY <2>1, <2>3
  <2>4. CASE Restart
    BY <2>4 DEF Restart, Reboot, NoJob
  <2>5. QED BY <2>2, <2>3, <2>4, TargetStays
<1>2. ASSUME EnrollTask(t) PROVE Posted(t)'
  <2>1. server' = server
    BY <1>2, OthersKeep DEF Others, disco, LifeTypeOK
  <2>2. CASE Post(t)
    <3>1. asked.post = server /\ (job[t].pc = "post" => job[t].cred = 0)
      BY <1>2, <2>2, Worker DEF PostInv, Asking, Post, Posting, TaskFinds
    <3>2. QED BY <1>a, <2>1, <2>2, <3>1, PostMoves
  <2>3. CASE ~Post(t)
    <3>1. issuer' = issuer
      BY <1>2, <2>3 DEF EnrollTask, Send
    <3>2. job'[t].cred = job[t].cred \/ ~AtWork(t)'
      BY <1>2, <2>3 DEF EnrollTask, Send, CheckAttempt, Fail, StoreToken, StoreId,
                        Adopt, Done, Exit, Goes, NoJob, enrollVars, LifeTypeOK, TypeOK,
                        Job
    <3>3. job[t].pc # "none" /\ (job[t].pc = "exit" => ~AtWork(t)')
      BY <1>2, <2>3, Worker DEF EnrollTask, Send, CheckAttempt, Fail, StoreToken,
                                StoreId, Adopt, Done, Exit, Goes, NoJob, enrollVars,
                                LifeTypeOK, TypeOK, Job
    <3>4. QED BY <1>a, <2>1, <3>1, <3>2, <3>3
  <2>4. QED BY <2>2, <2>3
<1>3. CASE Broker \/ Environment \/ (\E x : Expire(x))
  BY <1>a, <1>3, WorldKeeps, OthersKeep DEF Others, LifeTypeOK, disco, enrollVars
<1>4. CASE Restart
  BY <1>4 DEF Restart, Reboot, NoJob
<1>5. CASE UNCHANGED vars
  BY <1>a, <1>5 DEF vars, disco, link, enrollVars, world
<1>6. QED
  BY <1>1, <1>2, <1>3, <1>4, <1>5, NoHandler, OnlyWorker DEF LifeNext, CalmInv, Live

(* A grant is issued once. *)
LEMMA IssuedOnce ==
  ASSUME LifeTypeOK, HandleInv, CalmInv, [LifeNext]_vars, submits' = 0,
         NEW n \in Cred, n <= granted
  PROVE  issuer'[n] = issuer[n]
<1>1. CASE LoopPass
  BY <1>1, PassJobs
<1>2. ASSUME NEW t \in Tasks, EnrollTask(t), issuer' # issuer PROVE issuer'[n] = issuer[n]
  <2>1. Post(t)
    BY <1>2 DEF EnrollTask, Send
  <2>2. granted \in Nat /\ n \in Nat /\ issuer \in [Cred -> Server \cup {"none"}]
    BY DEF LifeTypeOK, TypeOK, WorldTypeOK, Cred
  <2>3. granted' = granted + 1 /\ issuer' = [issuer EXCEPT ![granted'] = asked.post]
    BY <1>2, <2>1, PostMoves
  <2>4. QED BY <2>2, <2>3
<1>3. CASE Broker \/ Environment \/ (\E x : Expire(x))
  BY <1>3, WorldKeeps
<1>4. CASE Restart \/ UNCHANGED vars
  BY <1>4 DEF Restart, vars, world
<1>5. QED BY <1>1, <1>2, <1>3, <1>4, NoHandler DEF LifeNext, CalmInv

(* A commit that ends has adopted a grant of the present target. *)
LEMMA DoneAtHome ==
  ASSUME LifeTypeOK, CalmInv, PostInv, NEW t \in Tasks, Done(t)
  PROVE  issuer[tx.token] = server
<1>1. job[t].pc = "done"
  BY DEF Done, Goes
<1>2. QED BY <1>1 DEF CalmInv, CoherentInv, CommitSoFar, Committing, PostInv, Posted, AtWork

(* Only a commit, a check or a recovery changes the transport's token.      *)
LEMMA TokenMoves ==
  ASSUME LifeTypeOK, CalmInv, [LifeNext]_vars, submits' = 0, ~Restart
  PROVE  \/ tx' = tx
         \/ CheckState /\ CallGoesOn
         \/ Recover
         \/ \E t \in Tasks : EnrollTask(t) /\ Adopt(t)
<1> USE DEF enrollVars, shared, call, outer
<1>1. CASE CallGoesOn
  BY <1>1 DEF CallGoesOn, InitCode, InitState, ResetToken, ResetId, ResetState, CheckId,
              StartCode, StartGivesUp, StartId, StartState, StartCreate
<1>2. CASE Discovery
  BY <1>2 DEF Discovery, Top, Settled, TryCandidate, TryInit, TryStart, TryWait,
              WaitReads, Won, Lost, NoServerRetry, NoServerWaits, CallStart, StartCall,
              InitCall
<1>3. CASE Recovery
  BY <1>3 DEF Recovery, TakeUnauthorized, RecoverSkips, RecoverReset, RecoverStart,
              CallStart, StartCall, ResetCall
<1>4. CASE EnrollStep
  BY <1>4 DEF EnrollStep, FailedWaits, FailedRetries, Check, CheckedDone, CheckedNeeded,
              EnrollPasses, Settle, CallStart, StartCall, CheckCall
<1>5. CASE Online
  BY <1>5 DEF Online, Probe, ProbeAccepted, ProbeRejected, ProbeFails, Gate, StartMqtt,
              StartHeartbeat, HeartbeatFresh, HeartbeatStale, Rediscover, ResetCall
<1>6. ASSUME NEW t \in Tasks, EnrollTask(t), tx' # tx PROVE Adopt(t)
  BY <1>6, PostMoves DEF EnrollTask, Send, CheckAttempt, Fail, StoreToken, StoreId,
                         Done, Exit
<1>7. CASE Broker \/ Environment \/ (\E x : Expire(x))
  BY <1>7, WorldKeeps
<1>8. CASE UNCHANGED vars
  BY <1>8 DEF vars
<1>9. QED
  BY <1>1, <1>2, <1>3, <1>4, <1>5, <1>6, <1>7, <1>8, NoHandler
  DEF LifeNext, LoopPass, CalmInv

(* The token of a candidate that has won comes from the candidate. *)
LEMMA TriedStep ==
  ASSUME LifeTypeOK, HandleInv, CalmInv, GrantInv, PostInv, [LifeNext]_vars, submits' = 0
  PROVE  Tried'
<1> SUFFICES ASSUME (disc \in Waits \/ pc = "try_wait")', state' = "DONE"
             PROVE  (issuer[tx.token] = server)'
  BY DEF Tried
<1>a. tx \in Pair /\ tx.token \in Cred /\ tx.token <= granted
  BY DEF LifeTypeOK, TypeOK, Pair, GrantInv
<1>1. ~Restart
  BY DEF Restart, BootDisc, Waits
<1>2. CASE \E t \in Tasks : EnrollTask(t) /\ Done(t)
  <2>1. PICK t \in Tasks : EnrollTask(t) /\ Done(t)
    BY <1>2
  <2>2. issuer[tx.token] = server /\ tx' = tx
    BY <2>1, DoneAtHome DEF Done
  <2>3. server' = server
    BY <2>1, OthersKeep DEF Others, disco, LifeTypeOK
  <2>4. QED BY <1>a, <2>2, <2>3, IssuedOnce
<1>b. PlaceInv /\ StateInv /\ Tried /\ step \in [Callers -> Step] /\ Loop \in Callers
  BY EnrollAssumption DEF EnrollAssumption, CalmInv, PostInv, LifeTypeOK, TypeOK
<1> DEFINE Held == /\ state = "DONE" /\ (disc \in Waits \/ pc = "try_wait")
                   /\ tx' = tx /\ server' = server
<1>3. ASSUME CallGoesOn PROVE Held
  <2>1. UNCHANGED <<pc, disc, server>>
    BY <1>3, PassKeeps
  <2>2. step[Loop] \notin {"check_id", "check_state"}
    BY <1>b, <2>1 DEF PlaceInv, InCheck, Chosen, Waits
  <2>3. state = "DONE" /\ tx' = tx
    BY <1>3, <1>b, <2>2 DEF CallGoesOn, InitCode, InitState, ResetToken, ResetId,
                            ResetState, CheckId, CheckState, StartCode, StartGivesUp,
                            StartId, StartState, StartCreate, At, shared, StateInv
  <2>4. QED BY <2>1, <2>3
<1>4. ASSUME Discovery PROVE Held
  <2>1. state = "DONE"
    BY <1>4, PassKeeps
  <2>2. server' = server
    BY <1>1, <2>1, TargetStays
  <2>3. tx' = tx
    BY <1>4 DEF Discovery, Top, Settled, TryCandidate, TryInit, TryStart, TryWait,
                WaitReads, Won, Lost, NoServerRetry, NoServerWaits, CallStart,
                StartCall, InitCall, enrollVars
  <2>4. disc \in Waits \/ pc = "try_wait"
    BY <1>4, <1>b, <2>1 DEF Discovery, Top, Settled, TryCandidate, TryInit, TryStart,
                            TryWait, WaitReads, Won, Lost, NoServerRetry, NoServerWaits,
                            CallStart, LoopGoes, Waits, Tries, disco, StateInv, PlaceInv
  <2>5. QED BY <2>1, <2>2, <2>3, <2>4
<1>5. ~Recovery /\ ~EnrollStep /\ ~Online
  <2>1. ASSUME Recovery PROVE FALSE
    BY <1>b, <2>1 DEF Recovery, TakeUnauthorized, RecoverSkips, Recover, RecoverReset,
                      RecoverStart, CallStart, LoopGoes, disco, PlaceInv, Chosen, Waits
  <2>2. ASSUME EnrollStep PROVE FALSE
    BY <1>b, <2>2 DEF EnrollStep, FailedWaits, FailedRetries, Check, CheckedDone,
                      CheckedNeeded, EnrollPasses, Settle, CallStart, LoopGoes, disco,
                      PlaceInv, Chosen, Waits
  <2>3. ASSUME Online PROVE FALSE
    BY <1>b, <2>3 DEF Online, Probe, ProbeAccepted, ProbeRejected, ProbeFails, Gate,
                      StartMqtt, StartHeartbeat, HeartbeatFresh, HeartbeatStale,
                      Rediscover, LoopGoes, disco, PlaceInv, Chosen, Waits
  <2>4. QED BY <2>1, <2>2, <2>3
<1>6. ASSUME NEW t \in Tasks, EnrollTask(t), ~Done(t) PROVE Held
  <2>1. UNCHANGED <<pc, disc, server>>
    BY <1>6, OthersKeep DEF Others, disco, LifeTypeOK
  <2>2. state = "DONE"
    BY <1>6, PostMoves DEF EnrollTask, Send, CheckAttempt, Fail, StoreToken, StoreId,
                           Adopt, Exit, enrollVars, shared
  <2>3. ~Adopt(t)
    BY <2>2, <1>6, Worker DEF Adopt, Goes, AtWork, TaskFinds, Refused
  <2>4. tx' = tx
    BY <1>6, <2>3, PostMoves DEF EnrollTask, Send, CheckAttempt, Fail, StoreToken,
                                 StoreId, Exit, enrollVars
  <2>5. QED BY <2>1, <2>2, <2>4
<1>7. ASSUME Broker \/ Environment \/ (\E x : Expire(x)) PROVE Held
  BY <1>7, WorldKeeps, OthersKeep DEF Others, LifeTypeOK, disco, enrollVars, shared
<1>8. ASSUME UNCHANGED vars PROVE Held
  BY <1>8 DEF vars, disco, enrollVars, shared
<1>9. ASSUME Held PROVE (issuer[tx.token] = server)'
  BY <1>a, <1>b, <1>9, IssuedOnce DEF Tried
<1>10. QED
  BY <1>1, <1>2, <1>3, <1>4, <1>5, <1>6, <1>7, <1>8, <1>9, NoHandler
  DEF LifeNext, LoopPass, CalmInv

(* A grant that a commit has written comes from the present target. *)
LEMMA CommitAtHome ==
  ASSUME LifeTypeOK, HandleInv, CalmInv, PostInv, NEW t \in Tasks, EnrollTask(t), nvs' # nvs
  PROVE  /\ state = "IN_PROGRESS" /\ ~InReset /\ nvs'.token \in {nvs.token, job[t].cred}
         /\ job[t].cred # 0 /\ issuer[job[t].cred] = server
<1>a. nvs \in Pair
  BY DEF LifeTypeOK, TypeOK
<1>1. StoreToken(t) \/ StoreId(t)
  BY PostMoves DEF EnrollTask, Send, CheckAttempt, Fail, Adopt, Done, Exit, enrollVars
<1>2. job[t].pc \in {"store_token", "store_id"} /\ nvs'.token \in {nvs.token, job[t].cred}
  BY <1>a, <1>1 DEF StoreToken, StoreId, Goes, Pair
<1>3. job[t].cred # 0
  BY <1>2 DEF CalmInv, CoherentInv, CommitSoFar, Committing
<1>4. state = "IN_PROGRESS" /\ ~InReset
  BY <1>2, Worker DEF AtWork, TaskFinds, Refused
<1>5. issuer[job[t].cred] = server
  BY <1>2, <1>3 DEF PostInv, Posted, AtWork
<1>6. QED BY <1>2, <1>3, <1>4, <1>5

-----------------------------------------------------------------------------
(* DONE comes with a token of the target, and the target then stays. *)
LEMMA DoneHomeStep ==
  ASSUME LifeTypeOK, HandleInv, CalmInv, GrantInv, PostInv, HomeInv,
         [LifeNext]_vars, submits' = 0, ~Restart
  PROVE  DoneHome'
<1> SUFFICES ASSUME state' = "DONE", step'[Loop] = "idle", pc' # "reset"
             PROVE  issuer'[tx'.token] = server'
  BY DEF DoneHome
<1>a. /\ tx \in Pair /\ nvs \in Pair /\ nvs.token \in Cred /\ tx.token \in Cred
      /\ tx.token <= granted /\ nvs.token <= granted
      /\ step \in [Callers -> Step] /\ Loop \in Callers
      /\ PlaceInv /\ StateInv /\ CheckInv /\ DoneHome /\ StoredHome
  BY EnrollAssumption DEF EnrollAssumption, LifeTypeOK, TypeOK, Pair, GrantInv, CalmInv,
                          HomeInv
<1> DEFINE Held == state = "DONE" /\ step[Loop] = "idle" /\ pc # "reset" /\ tx' = tx
<1>1. ASSUME CallGoesOn PROVE issuer'[tx'.token] = server'
  <2>1. CheckState
    BY <1>1, <1>a, PassKeeps DEF CallGoesOn, InitCode, InitState, ResetToken, ResetId,
                                 ResetState, CheckId, StartCode, StartGivesUp, StartId,
                                 StartState, StartCreate, At, StateInv, shared
  <2>2. have.token /\ tx' = ram /\ InCheck
    BY <2>1 DEF CheckState, At, InCheck
  <2>3. tx'.token = nvs.token /\ nvs.token # 0 /\ Chosen
    BY <2>2, <1>a DEF CheckInv, PlaceInv, InCheck, Chosen
  <2>4. UNCHANGED <<server, issuer>>
    BY <1>1, PassKeeps
  <2>5. QED BY <1>a, <2>3, <2>4 DEF StoredHome
<1>2. ASSUME Discovery PROVE Held
  BY <1>2, <1>a, PassKeeps DEF Discovery, Top, Settled, TryCandidate, TryInit, TryStart,
                               TryWait, WaitReads, Won, Lost, NoServerRetry,
                               NoServerWaits, CallStart, StartCall, InitCall, LoopGoes,
                               At, enrollVars, call
<1>3. ASSUME Recovery PROVE Held
  BY <1>3, <1>a, PassKeeps DEF Recovery, TakeUnauthorized, RecoverSkips, Recover,
                               RecoverReset, RecoverStart, CallStart, StartCall,
                               ResetCall, LoopGoes, At, enrollVars, call
<1>4. ASSUME EnrollStep PROVE Held
  BY <1>4, <1>a, PassKeeps DEF EnrollStep, FailedWaits, FailedRetries, Check,
                               CheckedDone, CheckedNeeded, EnrollPasses, Settle,
                               CallStart, StartCall, CheckCall, LoopGoes, At,
                               enrollVars, call
<1>5. ASSUME Online PROVE Held
  BY <1>5, <1>a, PassKeeps DEF Online, Probe, ProbeAccepted, ProbeRejected, ProbeFails,
                               Gate, StartMqtt, StartHeartbeat, HeartbeatFresh,
                               HeartbeatStale, Rediscover, ResetCall, LoopGoes, At,
                               enrollVars, call
<1>6. ASSUME NEW t \in Tasks, EnrollTask(t), Done(t) PROVE issuer'[tx'.token] = server'
  <2>1. issuer[tx.token] = server /\ tx' = tx
    BY <1>6, DoneAtHome DEF Done
  <2>2. server' = server
    BY <1>6, OthersKeep DEF Others, disco, LifeTypeOK
  <2>3. QED BY <1>a, <2>1, <2>2, IssuedOnce
<1>7. ASSUME NEW t \in Tasks, EnrollTask(t), ~Done(t) PROVE Held
  <2>1. UNCHANGED <<pc, step>>
    BY <1>7, OthersKeep DEF Others, LifeTypeOK
  <2>2. state = "DONE"
    BY <1>7, PostMoves DEF EnrollTask, Send, CheckAttempt, Fail, StoreToken, StoreId,
                           Adopt, Exit, enrollVars, shared
  <2>3. ~Adopt(t)
    BY <2>2, <1>7, Worker DEF Adopt, Goes, AtWork, TaskFinds, Refused
  <2>4. tx' = tx
    BY <1>7, <2>3, PostMoves DEF EnrollTask, Send, CheckAttempt, Fail, StoreToken,
                                 StoreId, Exit, enrollVars
  <2>5. QED BY <2>1, <2>2, <2>4
<1>8. ASSUME Broker \/ Environment \/ (\E x : Expire(x)) PROVE Held
  BY <1>8, WorldKeeps, OthersKeep DEF Others, LifeTypeOK, disco, enrollVars, shared
<1>9. ASSUME UNCHANGED vars PROVE Held
  BY <1>9 DEF vars, disco, enrollVars, shared, call
<1>10. ASSUME Held PROVE issuer'[tx'.token] = server'
  <2>1. server' = server
    BY <1>10, TargetStays
  <2>2. QED BY <1>a, <1>10, <2>1, IssuedOnce DEF DoneHome
<1>11. QED
  BY <1>1, <1>2, <1>3, <1>4, <1>5, <1>6, <1>7, <1>8, <1>9, <1>10, NoHandler
  DEF LifeNext, LoopPass, CalmInv

(* Only a reset and a commit change what is stored. *)
LEMMA StoredMoves ==
  ASSUME LifeTypeOK, CalmInv, [LifeNext]_vars, submits' = 0, nvs' # nvs
  PROVE  \/ CallGoesOn /\ (ResetToken(Loop) \/ ResetId(Loop))
         \/ \E t \in Tasks : EnrollTask(t)
<1>1. CASE CallGoesOn
  BY <1>1 DEF CallGoesOn, InitCode, InitState, ResetState, CheckId, CheckState,
              StartCode, StartGivesUp, StartId, StartState, StartCreate
<1>2. CASE Discovery \/ Recovery \/ EnrollStep \/ Online
  BY <1>2, PassKeeps
<1>3. CASE Broker \/ Environment \/ (\E x : Expire(x))
  BY <1>3, WorldKeeps DEF enrollVars
<1>4. CASE Restart
  BY <1>4 DEF Restart, Reboot
<1>5. CASE UNCHANGED vars
  BY <1>5 DEF vars, enrollVars
<1>6. QED
  BY <1>1, <1>2, <1>3, <1>4, <1>5, NoHandler DEF LifeNext, LoopPass, CalmInv

(* Out of a restart, discovery is settled by the candidate that has won. *)
LEMMA ChosenMoves ==
  ASSUME LifeTypeOK, CalmInv, [LifeNext]_vars, submits' = 0, ~Restart, Chosen'
  PROVE  Chosen \/ Won
<1> USE DEF Chosen, disco
<1>1. CASE CallGoesOn
  BY <1>1, PassKeeps
<1>2. CASE Discovery
  BY <1>2 DEF Discovery, Top, Settled, TryCandidate, TryInit, TryStart, TryWait,
              WaitReads, Lost, NoServerRetry, NoServerWaits, CallStart
<1>3. CASE Recovery \/ EnrollStep
  BY <1>3 DEF Recovery, TakeUnauthorized, RecoverSkips, Recover, RecoverReset,
              RecoverStart, CallStart, EnrollStep, FailedWaits, FailedRetries, Check,
              CheckedDone, CheckedNeeded, EnrollPasses, Settle
<1>4. CASE Online
  BY <1>4 DEF Online, Probe, ProbeAccepted, ProbeRejected, ProbeFails, Gate, StartMqtt,
              StartHeartbeat, HeartbeatFresh, HeartbeatStale, Rediscover
<1>5. CASE Others
  BY <1>5, OthersKeep DEF LifeTypeOK
<1>6. CASE UNCHANGED vars
  BY <1>6 DEF vars
<1>7. QED
  BY <1>1, <1>2, <1>3, <1>4, <1>5, <1>6, NoHandler DEF LifeNext, LoopPass, Others, CalmInv

(* The token in NVS comes from the settled target. *)
LEMMA StoredHomeStep ==
  ASSUME LifeTypeOK, HandleInv, CalmInv, GrantInv, PostInv, HomeInv,
         [LifeNext]_vars, submits' = 0, ~Restart
  PROVE  StoredHome'
<1> SUFFICES ASSUME Chosen', nvs'.token # 0 PROVE issuer'[nvs'.token] = server'
  BY DEF StoredHome
<1>a. /\ nvs \in Pair /\ nvs.token \in Cred /\ nvs.token <= granted
      /\ \A t \in Tasks : job[t].cred \in Cred /\ job[t].cred <= granted
  BY DEF LifeTypeOK, TypeOK, Pair, GrantInv, Job
<1>1. CASE Won
  <2>1. pc = "won" /\ step[Loop] = "idle" /\ UNCHANGED <<server, nvs>>
    BY <1>1 DEF Won, LoopGoes, enrollVars
  <2>2. state = "DONE" /\ disc \in Waits
    BY <2>1 DEF CalmInv, PlaceInv, StateInv
  <2>3. nvs = tx /\ issuer[tx.token] = server
    BY <2>1, <2>2 DEF CalmInv, CoherentInv, DoneInv, PostInv, Tried
  <2>4. QED BY <1>a, <2>1, <2>3, IssuedOnce
<1>2. CASE Chosen /\ ~Won
  <2>1. server' = server
    BY <1>2, TargetStays DEF Chosen, Tries
  <2>2. CASE nvs'.token = nvs.token
    BY <1>a, <1>2, <2>1, <2>2, IssuedOnce DEF HomeInv, StoredHome
  <2>3. CASE nvs'.token # nvs.token
    <3>1. ~ResetToken(Loop) /\ ~ResetId(Loop)
      BY <1>a, <2>3 DEF ResetToken, ResetId, Pair
    <3>2. PICK t \in Tasks : EnrollTask(t)
      BY <2>3, <3>1, StoredMoves
    <3>3. nvs'.token = job[t].cred /\ issuer[job[t].cred] = server
      BY <2>3, <3>2, CommitAtHome
    <3>4. QED BY <1>a, <2>1, <3>3, IssuedOnce
  <2>4. QED BY <2>2, <2>3
<1>3. QED BY <1>1, <1>2, ChosenMoves

-----------------------------------------------------------------------------
(* Only the choice and the abandoning of a server change the note of it. *)
LEMMA NoteMoves ==
  ASSUME LifeTypeOK, CalmInv, [LifeNext]_vars, submits' = 0, ~Won, ~Rediscover
  PROVE  /\ token_srv' = token_srv
         /\ ~Restart => (disc' = "RESOLVED" <=> disc = "RESOLVED")
         /\ ~Restart => (pc = "stale_srv" => pc' = "stale_srv")
<1> USE DEF disco, noted
<1>1. CASE CallGoesOn
  BY <1>1, PassKeeps
<1>2. CASE Discovery
  BY <1>2 DEF Discovery, Top, Settled, TryCandidate, TryInit, TryStart, TryWait,
              WaitReads, Lost, NoServerRetry, NoServerWaits, CallStart, LoopGoes,
              CalmInv, PlaceInv, Tries, Waits
<1>3. CASE Recovery \/ EnrollStep
  BY <1>3 DEF Recovery, TakeUnauthorized, RecoverSkips, Recover, RecoverReset,
              RecoverStart, CallStart, LoopGoes, EnrollStep, FailedWaits, FailedRetries,
              Check, CheckedDone, CheckedNeeded, EnrollPasses, Settle
<1>4. CASE Online
  BY <1>4 DEF Online, Probe, ProbeAccepted, ProbeRejected, ProbeFails, Gate, StartMqtt,
              StartHeartbeat, LoopGoes, HeartbeatFresh, HeartbeatStale
<1>5. CASE Others
  BY <1>5, OthersKeep DEF LifeTypeOK
<1>6. CASE UNCHANGED vars
  BY <1>6 DEF vars
<1>7. CASE Restart
  BY <1>7 DEF Restart
<1>8. QED
  BY <1>1, <1>2, <1>3, <1>4, <1>5, <1>6, <1>7, NoHandler DEF LifeNext, LoopPass, Others,
      CalmInv

(* A won discovery notes the issuer of the token in NVS. *)
LEMMA WonNotes ==
  ASSUME LifeTypeOK, CalmInv, ServerInv, PostInv, Won, ~NvsFails
  PROVE  /\ disc' = "RESOLVED" /\ pc' # "stale_srv" /\ token_srv' = server
         /\ nvs = tx /\ issuer[nvs.token] = server /\ UNCHANGED <<server, nvs, issuer>>
<1>1. /\ pc = "won" /\ step[Loop] = "idle" /\ disc' = "RESOLVED" /\ pc' = "unauth1"
      /\ token_srv' = cand /\ UNCHANGED <<server, nvs, issuer>>
  BY DEF Won, WriteFails, LoopGoes, enrollVars, world
<1>2. state = "DONE" /\ disc \in Waits
  BY <1>1 DEF CalmInv, PlaceInv, StateInv
<1>3. cand = server
  BY <1>1, <1>2 DEF ServerInv
<1>4. nvs = tx /\ issuer[tx.token] = server
  BY <1>1, <1>2 DEF CalmInv, CoherentInv, DoneInv, PostInv, Tried
<1>5. QED BY <1>1, <1>3, <1>4

(* The note is right, whatever is erased, committed or rediscovered. *)
LEMMA NoteStep ==
  ASSUME LifeTypeOK, HandleInv, CalmInv, ServerInv, GrantInv, PostInv, NoteInv, ~NvsFails,
         [LifeNext]_vars, submits' = 0, ~Restart
  PROVE  NoteInv'
<1>a. /\ nvs \in Pair /\ nvs.token \in Cred /\ nvs.token <= granted
      /\ \A t \in Tasks : job[t].cred \in Cred /\ job[t].cred <= granted
  BY DEF LifeTypeOK, TypeOK, Pair, GrantInv, Job
<1>1. CASE Won
  BY <1>1, WonNotes DEF NoteInv
<1>2. CASE Rediscover
  BY <1>2 DEF Rediscover, NoteInv
<1>3. CASE ~Won /\ ~Rediscover /\ disc = "RESOLVED"
  <2>1. token_srv' = token_srv /\ (pc = "stale_srv" => pc' = "stale_srv")
    BY <1>3, NoteMoves
  <2>2. server' = server
    BY <1>3, TargetStays DEF Tries
  <2>3. nvs'.token # 0 => token_srv \in {"none", issuer'[nvs'.token]}
    <3>1. CASE nvs'.token = nvs.token
      BY <1>a, <1>3, <3>1, IssuedOnce DEF NoteInv
    <3>2. CASE nvs'.token # nvs.token
      <4>1. ~ResetToken(Loop) \/ nvs'.token = 0
        BY <1>a, <3>2 DEF ResetToken, Pair
      <4>2. ~ResetId(Loop)
        BY <1>a, <3>2 DEF ResetId, Pair
      <4>3. ASSUME NEW t \in Tasks, EnrollTask(t)
            PROVE  token_srv \in {"none", issuer'[nvs'.token]}
        <5>1. nvs'.token = job[t].cred /\ issuer[job[t].cred] = server /\ state = "IN_PROGRESS"
          BY <3>2, <4>3, CommitAtHome
        <5>2. pc # "stale_srv"
          BY <5>1 DEF CalmInv, StateInv
        <5>3. QED BY <1>a, <1>3, <5>1, <5>2, IssuedOnce DEF NoteInv
      <4>4. QED BY <3>2, <4>1, <4>2, <4>3, StoredMoves
    <3>3. QED BY <3>1, <3>2
  <2>4. QED BY <1>3, <2>1, <2>2, <2>3 DEF NoteInv
<1>4. CASE ~Won /\ ~Rediscover /\ disc # "RESOLVED"
  BY <1>4, NoteMoves DEF NoteInv
<1>5. QED BY <1>1, <1>2, <1>3, <1>4

(* Before the first restart there is no note without a won discovery. *)
LEMMA FirstNoteStep ==
  ASSUME LifeTypeOK, CalmInv, FirstNoteInv, ~NvsFails, [LifeNext]_vars, submits' = 0, ~Restart
  PROVE  FirstNoteInv'
<1>1. CASE Won
  BY <1>1 DEF Won, FirstNoteInv
<1>2. CASE Rediscover
  BY <1>2 DEF Rediscover, WriteFails, FirstNoteInv
<1>3. QED BY <1>1, <1>2, NoteMoves DEF FirstNoteInv

(* A first restart finds what discovery has noted. *)
LEMMA FirstRestartNotes ==
  ASSUME LifeTypeOK, NoteInv, FirstNoteInv, Restart
  PROVE  NoteInv'
<1>1. /\ UNCHANGED <<nvs, issuer, token_srv>>
      /\ disc' = "RESOLVED" => token_srv \in {"none", server'}
  BY DEF Restart, Reboot, BootDisc, BootServer, noted
<1>2. QED BY <1>1 DEF NoteInv, FirstNoteInv

-----------------------------------------------------------------------------
(* A commit is at work alone, and nobody resets beside it. *)
LEMMA CommitAlone ==
  ASSUME LifeTypeOK, HandleInv, CalmInv, NEW t \in Tasks, Committing(t)
  PROVE  /\ state = "IN_PROGRESS" /\ ~InReset /\ ~InInit
         /\ \A u \in Tasks : Live(u) => u = t
<1>1. AtWork(t) /\ ~Refused(t) /\ Live(t)
  BY DEF Committing, AtWork, Refused, Live
<1>2. state = "IN_PROGRESS" /\ ~InReset /\ ~InInit
  BY <1>1 DEF CalmInv, TaskInv, TaskFinds
<1>3. QED BY <1>1, <1>2 DEF HandleInv, HandleNamesTask

(* What a step of enroll_task does to the stages of a commit when no write  *)
(* of NVS fails.                                                            *)
LEMMA CommitMoves ==
  ASSUME LifeTypeOK, CalmInv, ~NvsFails, NEW t \in Tasks, EnrollTask(t)
  PROVE  \/ /\ job[t].pc \in {"post", "fail", "exit"}
            /\ job'[t].pc \in {"post", "check", "exit", "none"}
            /\ nvs' = nvs /\ (state' = state \/ state # "DONE")
         \/ /\ job[t].pc = "check" /\ job'[t].pc \in {"exit", "fail", "store_token"}
            /\ nvs' = nvs /\ state' = state
            /\ job'[t].pc = "store_token" => job[t].cred # 0
         \/ /\ job[t].pc = "store_token" /\ job'[t].pc = "store_id"
            /\ nvs' = [nvs EXCEPT !.token = job[t].cred] /\ state' = state
         \/ /\ job[t].pc = "store_id" /\ job'[t].pc = "adopt"
            /\ nvs' = [nvs EXCEPT !.id = job[t].cred] /\ state' = state
         \/ job[t].pc = "adopt" /\ job'[t].pc = "done" /\ nvs' = nvs /\ state' = state
         \/ job[t].pc = "done" /\ job'[t].pc = "exit" /\ nvs' = nvs /\ state' = "DONE"
<1>a. job \in [Tasks -> Job]
  BY DEF LifeTypeOK, TypeOK
<1>1. CASE Post(t)
  BY <1>1, PostMoves DEF shared
<1>2. CASE Send(t)
  BY <1>2 DEF Send, enrollVars, shared
<1>3. CASE CheckAttempt(t)
  BY <1>a, <1>3 DEF CheckAttempt, Goes, shared, Job
<1>4. CASE Fail(t)
  BY <1>a, <1>4, Worker DEF Fail, Goes, shared, Job, AtWork, TaskFinds
<1>5. CASE StoreToken(t)
  BY <1>a, <1>5 DEF StoreToken, Goes, shared, Job
<1>6. CASE StoreId(t)
  BY <1>a, <1>6 DEF StoreId, Goes, shared, Job
<1>7. CASE Adopt(t)
  BY <1>a, <1>7 DEF Adopt, Goes, Job
<1>8. CASE Done(t)
  BY <1>a, <1>8 DEF Done, Goes, Job
<1>9. CASE Exit(t)
  BY <1>a, <1>9 DEF Exit, NoJob
<1>10. QED BY <1>1, <1>2, <1>3, <1>4, <1>5, <1>6, <1>7, <1>8, <1>9 DEF EnrollTask

(* NVS is bare wherever nothing is enrolled or being committed or erased. *)
LEMMA ErasedStep ==
  ASSUME LifeTypeOK, HandleInv, CalmInv, ErasedInv, ~NvsFails,
         [LifeNext]_vars, submits' = 0, ~Restart
  PROVE  ErasedInv'
<1>a. /\ nvs \in Pair /\ job \in [Tasks -> Job] /\ step \in [Callers -> Step] /\ Loop \in Callers
      /\ PlaceInv /\ StateInv /\ Bare /\ BareReset /\ \A t \in Tasks : BareCommit(t)
  BY EnrollAssumption DEF EnrollAssumption, LifeTypeOK, TypeOK, CalmInv, ErasedInv
<1>b. LoopPass =>
        \A t \in Tasks : /\ Committing(t)' <=> Committing(t)
                         /\ job'[t].pc \in {"store_token", "store_id"} => job'[t] = job[t]
  BY PassJobs DEF Committing, AtWork
<1>1. CASE CallGoesOn
  <2>1. CASE ResetToken(Loop)
    <3>1. \A t \in Tasks : ~Committing(t)
      BY <2>1, <1>a, CommitAlone DEF ResetToken, At, InReset
    <3>2. nvs'.token = 0 /\ step'[Loop] = "reset_id" /\ job' = job
      BY <2>1, <1>a DEF ResetToken, At, Pair
    <3>3. QED BY <3>1, <3>2 DEF ErasedInv, Bare, BareReset, BareCommit, Committing
  <2>2. CASE ResetId(Loop)
    <3>1. \A t \in Tasks : ~Committing(t)
      BY <2>2, <1>a, CommitAlone DEF ResetId, At, InReset
    <3>2. nvs' = Empty /\ step'[Loop] = "reset_state" /\ job' = job
      BY <2>2, <1>a DEF ResetId, At, Pair, Empty, BareReset
    <3>3. QED BY <3>1, <3>2 DEF ErasedInv, Bare, BareReset, BareCommit, Committing
  <2>3. CASE ResetState(Loop)
    <3>1. nvs = Empty /\ UNCHANGED <<nvs, job>> /\ step'[Loop] = "idle"
      BY <2>3, <1>a DEF ResetState, At, BareReset
    <3>2. QED BY <3>1 DEF ErasedInv, Bare, BareReset, BareCommit, Empty
  <2>4. CASE ~ResetToken(Loop) /\ ~ResetId(Loop) /\ ~ResetState(Loop)
    <3>1. /\ nvs' = nvs /\ step[Loop] \notin {"reset_token", "reset_id"}
          /\ step'[Loop] \notin {"reset_token", "reset_id", "reset_state"}
      BY <2>4, <1>1, <1>a DEF CallGoesOn, InitCode, InitState, CheckId, CheckState,
                              StartCode, StartGivesUp, StartId, StartState, StartCreate,
                              At
    <3>2. state' # "DONE" => state # "DONE"
      BY <2>4, <1>1, <1>a DEF CallGoesOn, InitCode, InitState, CheckId, CheckState,
                              StartCode, StartGivesUp, StartId, StartState, StartCreate,
                              At, shared, StateInv, PlaceInv, InInit, InCheck
    <3>3. QED BY <1>1, <1>a, <1>b, <3>1, <3>2 DEF LoopPass, ErasedInv, Bare, BareReset,
                  BareCommit
  <2>5. QED BY <2>1, <2>2, <2>3, <2>4
<1>2. CASE Discovery \/ Recovery \/ EnrollStep \/ Online
  <2>1. UNCHANGED <<nvs, state, job>>
    BY <1>2, PassKeeps
  <2>2. \/ step'[Loop] = step[Loop]
        \/ step[Loop] = "idle" /\ step'[Loop] \notin {"reset_id", "reset_state"}
    <3>1. CASE Discovery
      BY <3>1, <1>a DEF Discovery, Top, Settled, TryCandidate, TryInit, TryStart,
                        TryWait, WaitReads, Won, Lost, NoServerRetry, NoServerWaits,
                        CallStart, StartCall, InitCall, LoopGoes, At, enrollVars, call
    <3>2. CASE Recovery
      BY <3>2, <1>a DEF Recovery, TakeUnauthorized, RecoverSkips, Recover, RecoverReset,
                        RecoverStart, CallStart, StartCall, ResetCall, ClearToken,
                        LoopGoes, At, enrollVars, call
    <3>3. CASE EnrollStep
      BY <3>3, <1>a DEF EnrollStep, FailedWaits, FailedRetries, Check, CheckedDone,
                        CheckedNeeded, EnrollPasses, Settle, CallStart, StartCall,
                        CheckCall, LoopGoes, At, enrollVars, call
    <3>4. CASE Online
      BY <3>4, <1>a DEF Online, Probe, ProbeAccepted, ProbeRejected, ProbeFails, Gate,
                        StartMqtt, StartHeartbeat, HeartbeatFresh, HeartbeatStale,
                        Rediscover, ResetCall, LoopGoes, At, enrollVars, call
    <3>5. QED BY <1>2, <3>1, <3>2, <3>3, <3>4
  <2>3. QED BY <1>a, <2>1, <2>2 DEF ErasedInv, Bare, BareReset, BareCommit, Committing
<1>3. ASSUME NEW t \in Tasks, EnrollTask(t) PROVE ErasedInv'
  <2>1. step' = step /\ \A u \in Tasks : Live(u)' => u = t
    BY <1>3, OthersKeep, OnlyWorker DEF Others, LifeTypeOK
  <2>2. Committing(t) => ~InReset /\ state = "IN_PROGRESS"
    BY CommitAlone
  <2>3. \A u \in Tasks : u # t => ~Committing(u)
    BY <1>3, Worker DEF HandleInv, HandleNamesTask, Live, Committing
  <2>4. \A u \in Tasks : u # t => job'[u].pc = "none"
    BY <2>1 DEF Live
  <2>5. CASE job[t].pc \in {"post", "fail", "exit"}
    BY <1>3, <1>a, <2>1, <2>3, <2>4, <2>5, CommitMoves DEF ErasedInv, Bare, BareReset,
        BareCommit, Committing
  <2>6. CASE job[t].pc = "check"
    <3>1. job[t].cred # 0 => state = "IN_PROGRESS" /\ ~InReset
      BY <1>3, <2>6, Worker DEF AtWork, TaskFinds, Refused
    <3>2. QED BY <1>3, <1>a, <2>1, <2>3, <2>4, <2>6, <3>1, CommitMoves
              DEF ErasedInv, Bare, BareReset, BareCommit, Committing, InReset
  <2>7. CASE job[t].pc = "store_token"
    <3>1. nvs = Empty /\ job'[t].pc = "store_id" /\ nvs' = [nvs EXCEPT !.token = job[t].cred]
      BY <1>3, <1>a, <2>7, CommitMoves DEF BareCommit
    <3>2. nvs'.id = 0
      BY <1>a, <3>1 DEF Empty, Pair
    <3>3. QED BY <2>1, <2>2, <2>4, <2>7, <3>1, <3>2 DEF ErasedInv, Bare, BareReset,
                  BareCommit, Committing, InReset
  <2>8. CASE job[t].pc \in {"store_id", "adopt"}
    BY <1>3, <2>1, <2>2, <2>4, <2>8, CommitMoves DEF ErasedInv, Bare, BareReset,
        BareCommit, Committing, InReset
  <2>9. CASE job[t].pc = "done"
    BY <1>3, <2>1, <2>2, <2>4, <2>9, CommitMoves DEF ErasedInv, Bare, BareReset,
        BareCommit, Committing, InReset
  <2>10. QED BY <1>3, <2>5, <2>6, <2>7, <2>8, <2>9, CommitMoves
<1>4. CASE Broker \/ Environment \/ (\E x : Expire(x))
  BY <1>4, <1>a, WorldKeeps DEF enrollVars, shared, call, ErasedInv, Bare, BareReset,
                                BareCommit, Committing
<1>5. CASE UNCHANGED vars
  BY <1>5, <1>a DEF vars, enrollVars, shared, call, ErasedInv, Bare, BareReset,
                    BareCommit, Committing
<1>6. QED BY <1>1, <1>2, <1>3, <1>4, <1>5, NoHandler DEF LifeNext, LoopPass, CalmInv

(* No step but the first write of a commit makes two grants meet. *)
LEMMA PairStep ==
  ASSUME LifeTypeOK, HandleInv, CalmInv, PairInv, ~NvsFails,
         [LifeNext]_vars, submits' = 0, ~Restart
  PROVE  PairInv'
<1>a. nvs \in Pair
  BY DEF LifeTypeOK, TypeOK
<1>b. LoopPass => \A t \in Tasks : job[t].pc = "store_id" => job'[t].pc = "store_id"
  BY PassJobs DEF AtWork
<1> USE DEF PairInv, Enrolled
<1>1. CASE CallGoesOn
  <2>1. nvs' = nvs \/ nvs'.token = 0 \/ nvs'.id = 0
    BY <1>1, <1>a DEF CallGoesOn, InitCode, InitState, ResetToken, ResetId, ResetState,
                      CheckId, CheckState, StartCode, StartGivesUp, StartId, StartState,
                      StartCreate, Pair
  <2>2. QED BY <1>1, <1>b, <2>1 DEF LoopPass
<1>2. CASE Discovery \/ Recovery \/ EnrollStep \/ Online
  BY <1>2, PassKeeps
<1>3. ASSUME NEW t \in Tasks, EnrollTask(t) PROVE PairInv'
  <2>1. \A u \in Tasks : u # t => job[u].pc = "none"
    BY <1>3, Worker DEF HandleInv, HandleNamesTask, Live
  <2>2. CASE job[t].pc \in {"post", "fail", "exit", "check", "adopt", "done"}
    BY <1>3, <2>1, <2>2, CommitMoves
  <2>3. CASE job[t].pc = "store_token"
    BY <1>3, <2>3, CommitMoves
  <2>4. CASE job[t].pc = "store_id"
    <3>1. nvs.token = job[t].cred /\ nvs' = [nvs EXCEPT !.id = job[t].cred]
      BY <1>3, <2>4, CommitMoves DEF CalmInv, CoherentInv, CommitSoFar
    <3>2. QED BY <1>a, <3>1 DEF Pair
  <2>5. QED BY <1>3, <2>2, <2>3, <2>4, CommitMoves
<1>4. CASE Broker \/ Environment \/ (\E x : Expire(x))
  BY <1>4, WorldKeeps DEF enrollVars
<1>5. CASE UNCHANGED vars
  BY <1>5 DEF vars, enrollVars
<1>6. QED BY <1>1, <1>2, <1>3, <1>4, <1>5, NoHandler DEF LifeNext, LoopPass, CalmInv

(* A cut in a first commit leaves a token without a device_id. *)
LEMMA FirstRestartPairs ==
  ASSUME LifeTypeOK, ErasedInv, PairInv, Restart
  PROVE  PairInv'
<1>1. nvs' = nvs
  BY DEF Restart, Reboot
<1>2. QED BY <1>1 DEF PairInv, ErasedInv, BareCommit, Enrolled

-----------------------------------------------------------------------------
(* What a heartbeat or MQTT carries is loaded when it is sent or started,   *)
(* and a token is confirmed by an answer.                                   *)
LEMMA LinkMoves ==
  ASSUME LifeTypeOK, CalmInv, [LifeNext]_vars, submits' = 0, ~Restart
  PROVE  /\ Probe \/ (asked'.token = asked.token /\ asked'.server = asked.server)
         /\ \/ StartMqtt \/ mqtt' = Off
            \/ mqtt'.token = mqtt.token /\ mqtt'.server = mqtt.server /\ mqtt.st # "off"
            \/ mqtt' = mqtt
         /\ token_ok' => token_ok \/ ProbeAccepted
         /\ pc' = "reply" => pc = "reply" \/ Probe
<1>a. LinkTypeOK /\ ret # "reply" /\ token_ok \in BOOLEAN
  BY DEF LifeTypeOK, LoopTypeOK, FlagTypeOK
<1> DEFINE SameAsked == asked'.token = asked.token /\ asked'.server = asked.server
           SameMqtt  == \/ mqtt' \in {mqtt, Off}
                        \/ /\ mqtt'.token = mqtt.token /\ mqtt'.server = mqtt.server
                           /\ mqtt.st # "off"
           Unasked   == /\ token_ok' => token_ok \/ ProbeAccepted
                        /\ pc' = "reply" => pc = "reply" \/ Probe
           Same      == (SameAsked \/ Probe) /\ (SameMqtt \/ StartMqtt) /\ Unasked
<1>1. CallGoesOn => Same
  BY PassKeeps
<1>2. ASSUME Discovery PROVE Same
  BY <1>2 DEF Discovery, Top, Settled, TryCandidate, TryInit, TryStart, TryWait,
              WaitReads, Won, Lost, NoServerRetry, NoServerWaits, CallStart, LoopGoes,
              link, auth
<1>3. ASSUME Recovery PROVE Same
  BY <1>a, <1>3 DEF Recovery, TakeUnauthorized, RecoverSkips, Recover, RecoverReset,
                    RecoverStart, CallStart, StopMqtt, LoopGoes, link, auth
<1>4. ASSUME EnrollStep PROVE Same
  BY <1>a, <1>4 DEF EnrollStep, FailedWaits, FailedRetries, Check, CheckedDone, CheckedNeeded,
              EnrollPasses, Settle, CallStart, LoopGoes, link, auth
<1>5. ASSUME Online PROVE Same
  BY <1>5 DEF Online, Probe, ProbeAccepted, ProbeRejected, ProbeFails, Gate, StartMqtt,
              StartHeartbeat, HeartbeatFresh, HeartbeatStale, Rediscover, StopMqtt,
              LoopGoes, link, auth
<1>6. ASSUME NEW t \in Tasks, EnrollTask(t) PROVE Same
  <2>1. mqtt' = mqtt /\ Unasked
    BY <1>6 DEF EnrollTask, auth
  <2>2. SameAsked
    BY <1>a, <1>6 DEF LinkTypeOK, EnrollTask, Send, Post
  <2>3. QED BY <2>1, <2>2
<1>7. ASSUME Broker \/ Environment \/ (\E x : Expire(x)) PROVE Same
  <2>1. asked' = asked
    BY <1>7, WorldKeeps
  <2>2. SameMqtt
    BY <1>a, <1>7 DEF LinkTypeOK, Broker, MqttConnects, MqttRefused, MqttDrops,
                      MqttMessage, Environment, WifiDown, WifiUp, Revoke, Expire, link
  <2>3. UNCHANGED <<pc, token_ok>>
    BY <1>7, OthersKeep DEF Others, LifeTypeOK
  <2>4. QED BY <2>1, <2>2, <2>3
<1>8. ASSUME UNCHANGED vars PROVE Same
  BY <1>8 DEF vars, link, auth
<1>9. Same
  BY <1>1, <1>2, <1>3, <1>4, <1>5, <1>6, <1>7, <1>8, NoHandler
  DEF LifeNext, LoopPass, CalmInv
<1>10. QED BY <1>9

(* A confirmation binds the token to the target that has answered, and the   *)
(* target stays while enrollment is DONE.                                   *)
LEMMA ConfirmHomeStep ==
  ASSUME LifeTypeOK, HandleInv, CalmInv, GrantInv, ConfirmHome,
         [LifeNext]_vars, submits' = 0, ~Restart
  PROVE  ConfirmHome'
<1>a. /\ tx.token \in Cred /\ tx.token <= granted /\ asked.token \in Cred
      /\ mqtt.token \in Cred /\ mqtt.token <= granted
  BY DEF LifeTypeOK, TypeOK, LinkTypeOK, Pair, GrantInv
<1>b. state = "DONE" => server' = server
  BY TargetStays
<1>1. ASSUME token_ok' PROVE issuer'[tx'.token] = server'
  <2>1. CASE token_ok
    <3>1. state = "DONE" /\ step[Loop] = "idle" /\ issuer[tx.token] = server
      BY <2>1 DEF CalmInv, ConfirmInv, ConfirmHome
    <3>2. ~CheckState /\ ~Recover
      BY <1>1, <3>1 DEF CheckState, At, Recover
    <3>3. \A t \in Tasks : ~(EnrollTask(t) /\ Adopt(t))
      BY <3>1, Worker DEF Adopt, Goes, AtWork, TaskFinds
    <3>4. tx' = tx
      BY <3>2, <3>3, TokenMoves
    <3>5. QED BY <1>a, <1>b, <3>1, <3>4, IssuedOnce
  <2>2. CASE ProbeAccepted
    <3>1. pc = "reply" /\ issuer[asked.token] = asked.server /\ UNCHANGED <<tx, server, issuer>>
      BY <2>2 DEF ProbeAccepted, LoopGoes, Accepts, enrollVars, disco
    <3>2. asked.token = tx.token /\ asked.server = server
      BY <3>1 DEF CalmInv, ConfirmInv, ConfirmHome
    <3>3. QED BY <3>1, <3>2
  <2>3. QED BY <1>1, <2>1, <2>2, LinkMoves
<1>2. ASSUME mqtt'.st # "off" PROVE issuer'[mqtt'.token] = mqtt'.server
  <2>1. CASE StartMqtt
    <3>1. pc = "start" /\ issuer' = issuer
          /\ mqtt' \in {mqtt, [st |-> "connecting", token |-> tx.token, server |-> server]}
      BY <2>1 DEF StartMqtt, LoopGoes, world
    <3>2. issuer[tx.token] = server
      BY <3>1 DEF CalmInv, ConfirmInv, ConfirmHome
    <3>3. QED BY <1>2, <3>1, <3>2 DEF ConfirmHome
  <2>2. CASE ~StartMqtt
    <3>1. mqtt'.token = mqtt.token /\ mqtt'.server = mqtt.server /\ mqtt.st # "off"
      BY <1>2, <2>2, LinkMoves DEF Off
    <3>2. QED BY <1>a, <3>1, IssuedOnce DEF ConfirmHome
  <2>3. QED BY <2>1, <2>2
<1>3. ASSUME pc' = "reply" PROVE asked'.server = server'
  <2>1. CASE Probe
    BY <2>1 DEF Probe, disco, LifeTypeOK, LinkTypeOK
  <2>2. CASE ~Probe
    <3>1. pc = "reply" /\ asked'.server = asked.server
      BY <1>3, <2>2, LinkMoves
    <3>2. QED BY <1>b, <3>1 DEF CalmInv, ConfirmInv, ConfirmHome
  <2>3. QED BY <2>1, <2>2
<1>4. QED BY <1>1, <1>2, <1>3 DEF ConfirmHome

(* Out of a restart, a fixed target stays fixed, a choice is given up only  *)
(* by a rediscovery, and only a 401 begins a recovery.                      *)
LEMMA SearchMoves ==
  ASSUME LifeTypeOK, CalmInv, [LifeNext]_vars, submits' = 0, ~Restart
  PROVE  /\ saved_server' = saved_server /\ (disc' = "OVERRIDE" <=> disc = "OVERRIDE")
         /\ Chosen => Chosen' \/ Rediscover
         /\ pc' = "stale_srv" => pc = "stale_srv" \/ HeartbeatStale
         /\ reauth'.on => reauth.on \/ Recover
<1>a. /\ ret # "stale_srv" /\ PlaceInv
      /\ reauth \in [on : BOOLEAN, wait : BOOLEAN]
  BY DEF LifeTypeOK, LoopTypeOK, FlagTypeOK, CalmInv
<1> USE DEF disco, noted, auth, Chosen
<1>1. CASE CallGoesOn
  BY <1>1, PassKeeps
<1>2. CASE Discovery
  BY <1>a, <1>2 DEF Discovery, Top, Settled, TryCandidate, TryInit, TryStart, TryWait,
                    WaitReads, Won, Lost, NoServerRetry, NoServerWaits, CallStart,
                    LoopGoes, PlaceInv, Tries, Waits
<1>3. CASE Recovery
  BY <1>a, <1>3 DEF Recovery, TakeUnauthorized, RecoverSkips, Recover, RecoverReset,
                    RecoverStart, CallStart, LoopGoes
<1>4. CASE EnrollStep
  BY <1>a, <1>4 DEF EnrollStep, FailedWaits, FailedRetries, Check, CheckedDone,
                    CheckedNeeded, EnrollPasses, Settle, CallStart, LoopGoes
<1>5. CASE Online
  BY <1>a, <1>5 DEF Online, Probe, ProbeAccepted, ProbeRejected, ProbeFails, Gate,
                    StartMqtt, StartHeartbeat, HeartbeatFresh, HeartbeatStale,
                    Rediscover, LoopGoes, PlaceInv
<1>6. CASE Others
  BY <1>6, OthersKeep DEF LifeTypeOK
<1>7. CASE UNCHANGED vars
  BY <1>7 DEF vars
<1>8. QED
  BY <1>1, <1>2, <1>3, <1>4, <1>5, <1>6, <1>7, NoHandler DEF LifeNext, LoopPass, Others,
      CalmInv

(* A fixed target is neither searched for nor noted. *)
LEMMA FixedStep ==
  ASSUME LifeTypeOK, CalmInv, FixedInv, [LifeNext]_vars, submits' = 0
  PROVE  FixedInv'
<1>1. CASE Restart
  BY <1>1 DEF Restart, FixedInv, BootDisc, Fixed, noted
<1>2. CASE Won \/ Rediscover
  <2>1. disc # "OVERRIDE" /\ disc' # "OVERRIDE" /\ saved_server' = saved_server
    BY <1>2 DEF Won, Rediscover, LoopGoes, CalmInv, PlaceInv, Waits
  <2>2. QED BY <2>1 DEF FixedInv
<1>3. CASE ~Restart /\ ~Won /\ ~Rediscover
  BY <1>3, SearchMoves, NoteMoves DEF FixedInv
<1>4. QED BY <1>1, <1>2, <1>3

(* While a recovery is on the target is settled. *)
LEMMA RecoveryStaysStep ==
  ASSUME LifeTypeOK, CalmInv, RecoveryStays, [LifeNext]_vars, submits' = 0, ~Restart
  PROVE  RecoveryStays'
<1> SUFFICES ASSUME reauth'.on PROVE Chosen' /\ pc' # "stale_srv"
  BY DEF RecoveryStays
<1>1. CASE Recover
  <2>1. pc = "recover" /\ pc' = "reset" /\ disc' = disc
    BY <1>1 DEF Recover, LoopGoes, disco
  <2>2. QED BY <2>1 DEF CalmInv, PlaceInv, Chosen
<1>2. CASE ~Recover
  <2>1. reauth.on /\ Chosen /\ pc # "stale_srv"
    BY <1>2, SearchMoves DEF RecoveryStays
  <2>2. ~HeartbeatStale
    BY <2>1 DEF HeartbeatStale, CalmInv, ConfirmInv
  <2>3. ~Rediscover
    BY <2>1 DEF Rediscover, LoopGoes
  <2>4. QED BY <2>1, <2>2, <2>3, SearchMoves
<1>3. QED BY <1>1, <1>2

-----------------------------------------------------------------------------
(* A task at work is alone, and loop() is in no call. *)
LEMMA WorkerAlone ==
  ASSUME LifeTypeOK, HandleInv, CalmInv, NEW t \in Tasks, AtWork(t), Current(t)
  PROVE  /\ state = "IN_PROGRESS" /\ step[Loop] = "idle"
         /\ \A u \in Tasks : Live(u) => u = t
<1>1. Live(t) /\ state = "IN_PROGRESS" /\ ~InInit /\ ~InReset
  BY DEF AtWork, Live, CalmInv, TaskInv, TaskFinds
<1>2. s_task = t /\ \A u \in Tasks : Live(u) => u = t
  BY <1>1 DEF HandleInv, HandleNamesTask
<1>3. ~InStart
  BY <1>2, EnrollAssumption DEF EnrollAssumption, HandleInv, StartOwnsHandle
<1>4. ~InCheck
  BY <1>1 DEF CalmInv, StateInv
<1>5. step[Loop] \in Step
  BY EnrollAssumption DEF EnrollAssumption, LifeTypeOK, TypeOK
<1>6. QED BY <1>1, <1>2, <1>3, <1>4, <1>5 DEF InInit, InReset, InCheck, InStart, Step

(* The POST of a recovery carries no token. *)
LEMMA PostIsBareStep ==
  ASSUME LifeTypeOK, HandleInv, CalmInv, Asking, PostIsBare, TokenIsNew,
         [LifeNext]_vars, submits' = 0, ~Restart
  PROVE  PostIsBare'
<1> SUFFICES ASSUME reauth'.on PROVE asked'.posted = 0
  BY DEF PostIsBare
<1>a. LinkTypeOK
  BY DEF LifeTypeOK
<1>1. CASE LoopPass /\ ~Recover
  BY <1>1, PassJobs, SearchMoves DEF PostIsBare
<1>2. CASE Recover
  <2>1. pc = "recover" /\ ~(reauth.on /\ state = "IN_PROGRESS") /\ asked' = asked
    BY <1>2 DEF Recover, LoopGoes
  <2>2. ASSUME NEW t \in Tasks, job[t].pc = "post" PROVE FALSE
    <3>1. AtWork(t) /\ ~Refused(t)
      BY <2>2 DEF AtWork, Refused
    <3>2. state = "IN_PROGRESS" /\ Chosen
      BY <2>1, <3>1 DEF CalmInv, TaskInv, TaskFinds, PlaceInv, Chosen
    <3>3. QED BY <2>1, <3>1, <3>2 DEF CalmInv, RefusalInv, RefusedMidway
  <2>3. QED BY <2>1, <2>2 DEF Asking
<1>3. ASSUME NEW t \in Tasks, EnrollTask(t) PROVE asked'.posted = 0
  <2>1. reauth.on
    BY <1>3, OthersKeep DEF Others, LifeTypeOK
  <2>2. CASE Send(t)
    <3>1. job[t].pc = "post" /\ asked'.posted = tx.token
      BY <1>a, <2>2 DEF Send, LinkTypeOK
    <3>2. AtWork(t) /\ Current(t)
      BY <3>1 DEF AtWork, CalmInv, TaskInv, TaskFinds, Refused
    <3>3. state = "IN_PROGRESS" /\ \A u \in Tasks : job[u].pc # "done"
      BY <3>1, <3>2, WorkerAlone DEF Live
    <3>4. QED BY <2>1, <3>1, <3>3 DEF TokenIsNew
  <2>3. CASE Post(t)
    BY <1>a, <2>3, PostMoves DEF LinkTypeOK
  <2>4. CASE ~Send(t) /\ ~Post(t)
    BY <1>3, <2>1, <2>4 DEF EnrollTask, PostIsBare
  <2>5. QED BY <2>2, <2>3, <2>4
<1>4. CASE Broker \/ Environment \/ (\E x : Expire(x))
  BY <1>4, WorldKeeps, OthersKeep DEF Others, LifeTypeOK, PostIsBare
<1>5. CASE UNCHANGED vars
  BY <1>5 DEF vars, link, auth, PostIsBare
<1>6. QED BY <1>1, <1>2, <1>3, <1>4, <1>5, NoHandler DEF LifeNext, LoopPass, Recovery, CalmInv

(* In a recovery a check finds no token. *)
LEMMA CheckFindsNone ==
  ASSUME LifeTypeOK, HandleInv, CalmInv, TokenErased, reauth.on, CheckState
  PROVE  tx' = tx
<1>1. step[Loop] = "check_state" /\ InCheck /\ pc = "checked" /\ state # "DONE"
      /\ state # "IN_PROGRESS"
  BY DEF CheckState, At, InCheck, CalmInv, PlaceInv, StateInv
<1>2. \A t \in Tasks : ~Committing(t)
  BY <1>1, CommitAlone
<1>3. nvs.token = 0
  BY <1>1, <1>2 DEF TokenErased
<1>4. ~have.token
  BY <1>1, <1>3 DEF CalmInv, CheckInv
<1>5. QED BY <1>4 DEF CheckState

(* What the transport has in a recovery is what the recovery has won. *)
LEMMA TokenIsNewStep ==
  ASSUME LifeTypeOK, HandleInv, CalmInv, RecoveryStays, TokenIsNew, TokenErased,
         [LifeNext]_vars, submits' = 0, ~Restart
  PROVE  TokenIsNew'
<1> DEFINE Won1   == state = "DONE" /\ pc # "reset" /\ step[Loop] = "idle"
           Wins   == \E t \in Tasks : job[t].pc = "done"
<1> SUFFICES ASSUME reauth'.on, tx'.token # 0 PROVE Won1' \/ Wins'
  BY DEF TokenIsNew
<1>a. /\ tx \in Pair /\ job \in [Tasks -> Job] /\ step \in [Callers -> Step]
      /\ Loop \in Callers /\ ret # "reset" /\ reauth \in [on : BOOLEAN, wait : BOOLEAN]
      /\ PlaceInv /\ StateInv
  BY EnrollAssumption DEF EnrollAssumption, LifeTypeOK, TypeOK, LoopTypeOK, FlagTypeOK,
                          CalmInv
<1>1. ~Recover
  BY <1>a DEF Recover, ClearToken, Pair
<1>2. reauth.on /\ Chosen /\ pc # "stale_srv"
  BY <1>1, SearchMoves DEF RecoveryStays
<1>3. CASE \E t \in Tasks : EnrollTask(t) /\ Adopt(t)
  BY <1>3, <1>a DEF Adopt, Goes
<1>4. CASE tx' = tx
  <2>1. tx.token # 0
    BY <1>4
  <2>2. ASSUME Wins PROVE Won1' \/ Wins'
    <3>1. PICK t \in Tasks : job[t].pc = "done"
      BY <2>2
    <3>2. AtWork(t) /\ Current(t) /\ ~Refused(t)
      BY <3>1 DEF AtWork, Refused, CalmInv, TaskInv, TaskFinds
    <3>3. state = "IN_PROGRESS" /\ step[Loop] = "idle" /\ \A u \in Tasks : Live(u) => u = t
      BY <3>2, WorkerAlone
    <3>4. pc # "reset"
      BY <1>2, <3>2, <3>3 DEF CalmInv, RefusalInv, RefusedMidway
    <3>5. CASE LoopPass
      BY <3>1, <3>2, <3>5, PassJobs
    <3>6. ASSUME NEW u \in Tasks, EnrollTask(u) PROVE Won1' \/ Wins'
      <4>1. u = t
        BY <3>3, <3>6, Worker DEF Live
      <4>2. Done(t)
        BY <3>1, <3>6, <4>1 DEF EnrollTask, Send, Post, Posting, CheckAttempt, Fail,
                                StoreToken, StoreId, Adopt, Exit, Goes
      <4>3. UNCHANGED <<pc, step>>
        BY <3>6, OthersKeep DEF Others, LifeTypeOK
      <4>4. QED BY <3>3, <3>4, <4>2, <4>3 DEF Done
    <3>7. CASE Broker \/ Environment \/ (\E x : Expire(x))
      BY <3>1, <3>7, WorldKeeps DEF enrollVars
    <3>8. CASE UNCHANGED vars
      BY <3>1, <3>8 DEF vars, enrollVars
    <3>9. QED BY <3>5, <3>6, <3>7, <3>8, NoHandler DEF LifeNext, CalmInv
  <2>3. ASSUME Won1 PROVE Won1'
    <3>1. CASE CallGoesOn
      BY <2>3, <3>1 DEF CallGoesOn, InitCode, InitState, ResetToken, ResetId, ResetState,
                        CheckId, CheckState, StartCode, StartGivesUp, StartId, StartState,
                        StartCreate, At
    <3>2. CASE Discovery
      BY <2>3, <3>2, <1>a, <1>2, PassKeeps
      DEF Discovery, Top, Settled, TryCandidate, TryInit, TryStart, TryWait, WaitReads,
          Won, Lost, NoServerRetry, NoServerWaits, CallStart, StartCall, StartRefused,
          LoopGoes, PlaceInv, Chosen, Tries, Waits, enrollVars, call
    <3>3. CASE Recovery
      BY <2>3, <3>3, <1>a, <1>1, PassKeeps
      DEF Recovery, TakeUnauthorized, RecoverSkips, RecoverReset, RecoverStart, CallStart,
          StartCall, StartRefused, LoopGoes, enrollVars, call
    <3>4. CASE EnrollStep
      BY <2>3, <3>4, PassKeeps
      DEF EnrollStep, FailedWaits, FailedRetries, Check, CheckedDone, CheckedNeeded,
          EnrollPasses, Settle, CallStart, StartCall, StartRefused, LoopGoes, enrollVars,
          call
    <3>5. CASE Online
      <4>1. ~HeartbeatStale
        BY <1>2 DEF HeartbeatStale, CalmInv, ConfirmInv
      <4>2. QED BY <2>3, <3>5, <4>1, PassKeeps
            DEF Online, Probe, ProbeAccepted, ProbeRejected, ProbeFails, Gate, StartMqtt,
                StartHeartbeat, HeartbeatFresh, Rediscover, LoopGoes, enrollVars, call
    <3>6. ASSUME NEW t \in Tasks, EnrollTask(t) PROVE Won1'
      <4>1. UNCHANGED <<pc, step>>
        BY <3>6, OthersKeep DEF Others, LifeTypeOK
      <4>2. ~AtWork(t)
        BY <2>3 DEF CalmInv, TaskInv, TaskFinds
      <4>3. state' = state
        BY <3>6, <4>2, Worker DEF AtWork, EnrollTask, Send, Post, Posting, CheckAttempt, Fail,
                                  StoreToken, StoreId, Adopt, Done, Exit, Goes
      <4>4. QED BY <2>3, <4>1, <4>3
    <3>7. CASE Broker \/ Environment \/ (\E x : Expire(x))
      BY <2>3, <3>7, WorldKeeps, OthersKeep DEF Others, LifeTypeOK, enrollVars, shared
    <3>8. CASE UNCHANGED vars
      BY <2>3, <3>8 DEF vars, enrollVars, shared, call
    <3>9. QED BY <3>1, <3>2, <3>3, <3>4, <3>5, <3>6, <3>7, <3>8, NoHandler
              DEF LifeNext, LoopPass, CalmInv
  <2>4. QED BY <1>2, <2>1, <2>2, <2>3 DEF TokenIsNew
<1>5. QED BY <1>1, <1>2, <1>3, <1>4, CheckFindsNone, TokenMoves

(* Past its reset a recovery has no token in NVS until it commits one. *)
LEMMA TokenErasedStep ==
  ASSUME LifeTypeOK, HandleInv, CalmInv, PostInv, RecoveryStays, TokenErased, ~NvsFails,
         [LifeNext]_vars, submits' = 0, ~Restart
  PROVE  TokenErased'
<1>a. /\ nvs \in Pair /\ job \in [Tasks -> Job] /\ step \in [Callers -> Step] /\ Loop \in Callers
      /\ reauth \in [on : BOOLEAN, wait : BOOLEAN] /\ ret # "reset" /\ PlaceInv /\ StateInv
  BY EnrollAssumption DEF EnrollAssumption, LifeTypeOK, TypeOK, LoopTypeOK, FlagTypeOK, CalmInv
<1>b. LoopPass => \A t \in Tasks : Committing(t)' <=> Committing(t)
  BY PassJobs DEF Committing, AtWork
<1> DEFINE Erasing == step[Loop] \in {"reset_id", "reset_state"}
           Through == /\ reauth.on /\ pc # "reset" /\ step[Loop] # "reset_token"
                      /\ state # "DONE" /\ \A t \in Tasks : ~Committing(t)
<1>1. CASE CallGoesOn
  <2>1. CASE ResetToken(Loop)
    BY <2>1, <1>a DEF ResetToken, Pair, TokenErased
  <2>2. CASE ~ResetToken(Loop)
    <3>1. nvs'.token = nvs.token /\ step[Loop] # "reset_token" /\ (Erasing' => Erasing)
      BY <2>2, <1>1, <1>a DEF CallGoesOn, InitCode, InitState, ResetId, ResetState,
                              CheckId, CheckState, StartCode, StartGivesUp, StartId,
                              StartState, StartCreate, At, Pair
    <3>2. UNCHANGED <<pc, reauth>>
      BY <1>1, PassKeeps
    <3>3. reauth.on => ~InitState(Loop)
      BY <1>a DEF RecoveryStays, Chosen, InitState, At, InInit, PlaceInv, Tries
    <3>4. state' # "DONE" /\ reauth.on => state # "DONE" \/ Erasing
      BY <2>2, <3>3, <1>1, <1>a DEF CallGoesOn, InitCode, ResetId, ResetState, CheckId,
                                    CheckState, StartCode, StartGivesUp, StartId,
                                    StartState, StartCreate, At, shared, StateInv, InCheck
    <3>5. QED BY <1>1, <1>b, <3>1, <3>2, <3>4 DEF LoopPass, TokenErased
  <2>3. QED BY <2>1, <2>2
<1>2. CASE Discovery \/ Recovery \/ EnrollStep \/ Online
  <2>1. UNCHANGED <<nvs, state, job>>
    BY <1>2, PassKeeps
  <2>2. /\ step'[Loop] = step[Loop] \/ (step[Loop] = "idle" /\ ~Erasing')
        /\ pc = "reset" /\ step[Loop] # "reset_token" =>
             pc' = "reset" \/ step'[Loop] = "reset_token"
    <3>1. CASE Discovery
      BY <3>1, <1>a DEF Discovery, Top, Settled, TryCandidate, TryInit, TryStart,
                        TryWait, WaitReads, Won, Lost, NoServerRetry, NoServerWaits,
                        CallStart, StartCall, InitCall, LoopGoes, At, enrollVars, call
    <3>2. CASE Recovery
      BY <3>2, <1>a DEF Recovery, TakeUnauthorized, RecoverSkips, Recover, RecoverReset,
                        RecoverStart, CallStart, StartCall, ResetCall, ClearToken,
                        LoopGoes, At, enrollVars, call
    <3>3. CASE EnrollStep
      BY <3>3, <1>a DEF EnrollStep, FailedWaits, FailedRetries, Check, CheckedDone,
                        CheckedNeeded, EnrollPasses, Settle, CallStart, StartCall,
                        CheckCall, LoopGoes, At, enrollVars, call
    <3>4. CASE Online
      BY <3>4, <1>a DEF Online, Probe, ProbeAccepted, ProbeRejected, ProbeFails, Gate,
                        StartMqtt, StartHeartbeat, HeartbeatFresh, HeartbeatStale,
                        Rediscover, ResetCall, LoopGoes, At, enrollVars, call
    <3>5. QED BY <1>2, <3>1, <3>2, <3>3, <3>4
  <2>3. Through' => Through
    <3>1. Recover => ~Through'
      BY DEF Recover, LoopGoes
    <3>2. Through' => step[Loop] # "reset_token"
      BY <2>2
    <3>3. QED BY <2>1, <2>2, <3>1, <3>2, SearchMoves DEF Committing
  <2>4. QED BY <2>1, <2>2, <2>3 DEF TokenErased
<1>3. ASSUME NEW t \in Tasks, EnrollTask(t) PROVE TokenErased'
  <2>1. UNCHANGED <<pc, reauth, step>>
    BY <1>3, OthersKeep DEF Others, LifeTypeOK
  <2>2. \A u \in Tasks : u # t => job[u].pc = "none"
    BY <1>3, Worker DEF HandleInv, HandleNamesTask, Live
  <2>3. Erasing => nvs' = nvs
    BY <1>3, CommitAtHome DEF InReset
  <2>4. ASSUME Through' PROVE Through /\ nvs' = nvs
    <3>1. ~Committing(t)'
      BY <2>4
    <3>2. \/ job[t].pc \in {"post", "fail", "exit", "check"}
             /\ nvs' = nvs /\ (state' = state \/ state # "DONE")
          \/ job[t].pc = "done" /\ state' = "DONE"
      BY <1>3, <3>1, CommitMoves DEF Committing
    <3>3. QED BY <2>1, <2>2, <2>4, <3>2 DEF Committing
  <2>5. QED BY <2>1, <2>3, <2>4 DEF TokenErased
<1>4. CASE Broker \/ Environment \/ (\E x : Expire(x))
  BY <1>4, WorldKeeps, OthersKeep DEF Others, LifeTypeOK, enrollVars, shared, TokenErased,
                                      Committing
<1>5. CASE UNCHANGED vars
  BY <1>5 DEF vars, enrollVars, shared, call, auth, TokenErased, Committing
<1>6. QED BY <1>1, <1>2, <1>3, <1>4, <1>5, NoHandler DEF LifeNext, LoopPass, CalmInv

(* The three conjuncts of BareRecovery together; a restart ends a recovery. *)
LEMMA BareStep ==
  ASSUME LifeTypeOK, HandleInv, CalmInv, PostInv, RecoveryStays, BareRecovery, ~NvsFails,
         [LifeNext]_vars, submits' = 0, ~Restart
  PROVE  BareRecovery'
BY PostIsBareStep, TokenIsNewStep, TokenErasedStep DEF BareRecovery, PostInv

LEMMA RestartIsCalm ==
  ASSUME LifeTypeOK, Restart
  PROVE  ConfirmHome' /\ RecoveryStays' /\ BareRecovery'
<1>1. /\ ~token_ok' /\ mqtt'.st = "off" /\ pc' = "top" /\ ~reauth'.on /\ step'[Loop] = "idle"
  BY EnrollAssumption DEF EnrollAssumption, Restart, Reboot, Off
<1>2. QED BY <1>1 DEF ConfirmHome, RecoveryStays, BareRecovery, PostIsBare, TokenIsNew,
                      TokenErased

-----------------------------------------------------------------------------
(* Only a restart counts as one. *)
LEMMA CutsCount ==
  ASSUME LifeTypeOK, CalmInv, [LifeNext]_vars, submits' = 0
  PROVE  /\ reboots \in Nat
         /\ IF Restart THEN reboots' = reboots + 1 ELSE reboots' = reboots
<1> USE DEF outer
<1>1. reboots \in Nat
  BY DEF LifeTypeOK, TypeOK
<1>2. Restart => reboots' = reboots + 1
  BY DEF Restart, Reboot
<1>3. CASE CallGoesOn
  <2>1. reboots' = reboots
    BY <1>3 DEF CallGoesOn, InitCode, InitState, ResetToken, ResetId, ResetState,
                CheckId, CheckState, StartCode, StartGivesUp, StartId, StartState,
                StartCreate
  <2>2. QED BY <1>1, <1>2, <2>1
<1>4. CASE Discovery \/ Recovery \/ EnrollStep \/ Online
  BY <1>1, <1>2, <1>4, PassKeeps
<1>5. CASE Others
  BY <1>1, <1>2, <1>5, OthersKeep DEF LifeTypeOK
<1>6. CASE UNCHANGED vars
  BY <1>1, <1>2, <1>6 DEF vars, enrollVars
<1>7. QED
  BY <1>1, <1>2, <1>3, <1>4, <1>5, <1>6, NoHandler DEF LifeNext, LoopPass, Others, CalmInv

(* The three conjuncts of PostInv together. *)
LEMMA PostStep ==
  ASSUME LifeTypeOK, HandleInv, CalmInv, GrantInv, PostInv, [LifeNext]_vars, submits' = 0
  PROVE  PostInv'
BY AskingStep, PostedStep, TriedStep DEF PostInv

(* Every step without a form keeps the origin invariant, restarts           *)
(* included.                                                                *)
LEMMA OriginStep ==
  ASSUME LifeTypeOK, HandleInv, CalmInv, OriginInv, [LifeNext]_vars, submits' = 0
  PROVE  OriginInv'
<1>a. reboots \in Nat /\ IF Restart THEN reboots' = reboots + 1 ELSE reboots' = reboots
  BY CutsCount
<1>1. ServerInv' /\ GrantInv' /\ PostInv' /\ FixedInv'
  BY ServerStep, GrantStep, PostStep, FixedStep DEF OriginInv
<1>2. CASE Restart
  <2>1. reboots' # 0 /\ (reboots' <= 1 => reboots = 0)
    BY <1>a, <1>2
  <2>2. ~NvsFails /\ reboots = 0 => NoteInv' /\ PairInv'
    BY <1>2, FirstRestartNotes, FirstRestartPairs DEF OriginInv
  <2>3. ConfirmHome' /\ RecoveryStays' /\ BareRecovery'
    BY <1>2, RestartIsCalm
  <2>4. QED BY <1>1, <2>1, <2>2, <2>3 DEF OriginInv
<1>3. CASE ~Restart
  <2>1. reboots' = reboots
    BY <1>a, <1>3
  <2>2. ConfirmHome' /\ RecoveryStays'
    BY <1>3, ConfirmHomeStep, RecoveryStaysStep DEF OriginInv
  <2>3. reboots = 0 => HomeInv'
    BY <1>3, DoneHomeStep, StoredHomeStep DEF OriginInv, HomeInv
  <2>4. ~NvsFails => BareRecovery'
    BY <1>3, BareStep DEF OriginInv
  <2>5. ~NvsFails /\ reboots = 0 => FirstNoteInv' /\ ErasedInv'
    BY <1>3, FirstNoteStep, ErasedStep DEF OriginInv
  <2>6. ~NvsFails /\ reboots <= 1 => NoteInv' /\ PairInv'
    BY <1>3, NoteStep, PairStep DEF OriginInv
  <2>7. QED BY <1>1, <2>1, <2>2, <2>3, <2>4, <2>5, <2>6 DEF OriginInv
<1>4. QED BY <1>2, <1>3

(* The first boot has no token, no note and no POST. *)
LEMMA OriginInitially == FirstBoot => OriginInv
<1> SUFFICES ASSUME FirstBoot PROVE OriginInv
  OBVIOUS
<1>1. /\ pc = "top" /\ state = "NEEDED" /\ nvs = Empty /\ ram = Empty /\ tx = Empty
      /\ step[Loop] = "idle" /\ job = [t \in Tasks |-> NoJob] /\ granted = 0 /\ asked = NotAsked
      /\ mqtt = Off /\ token_srv = "none" /\ disc \in {"OVERRIDE", "TRY_LOCAL"}
      /\ ~token_ok /\ ~reauth.on
  BY EnrollAssumption DEF EnrollAssumption, FirstBoot, EnrollInit, BootDisc
<1>2. ServerInv /\ GrantInv
  BY <1>1 DEF ServerInv, GrantInv, Waits, Empty, NotAsked, Off, NoJob
<1>3. PostInv
  BY <1>1 DEF PostInv, Asking, Posted, Tried, AtWork, NoJob, NotAsked
<1>4. HomeInv /\ FirstNoteInv /\ NoteInv
  BY <1>1 DEF HomeInv, DoneHome, StoredHome, FirstNoteInv, NoteInv, Empty
<1>5. ErasedInv /\ PairInv
  BY <1>1 DEF ErasedInv, Bare, BareReset, BareCommit, PairInv, Enrolled, Empty, NoJob
<1>6. FixedInv
  BY DEF FirstBoot, FixedInv, BootDisc, Fixed
<1>7. ConfirmHome /\ RecoveryStays /\ BareRecovery
  BY <1>1 DEF ConfirmHome, RecoveryStays, BareRecovery, PostIsBare, TokenIsNew, TokenErased,
              Off
<1>8. QED BY <1>2, <1>3, <1>4, <1>5, <1>6, <1>7 DEF OriginInv

(* Until the first form the origin invariant holds. *)
LEMMA OriginInductive == LifeSpec => [](submits = 0 => OriginInv)
<1> DEFINE Calm == submits = 0 => CalmInv
           Origin == submits = 0 => OriginInv
<1>1. FirstBoot => Origin
  BY OriginInitially
<1>2. LifeTypeOK /\ HandleInv /\ Calm /\ Origin /\ [LifeNext]_vars => Origin'
  BY OriginStep, NoFormBefore
<1>3. LifeSpec => []HandleInv
  BY LifecycleImplementsEnroll, HandleInvInductive
<1>4. LifeSpec => []Calm
  BY CalmInductive
<1> HIDE DEF Calm, Origin
<1>5. LifeSpec => []Origin
  BY <1>1, <1>2, <1>3, <1>4, LifeTypesHold, PTL DEF LifeSpec
<1>6. QED BY <1>5 DEF Origin

(* Until a form comes (submits = 0): enrollment that is DONE means that NVS, *)
(* RAM and the transport agree; MQTT carries only a token that a heartbeat   *)
(* was accepted with.  If moreover no write and no erase of NVS fails, that  *)
(* of token_srv included (PulsyncClass.cpp:525,617,643 ignore the result), a *)
(* first cut, between whichever two writes it falls, leaves the way back to  *)
(* the issuer of the stored token, and no mixture of two grants              *)
(* (pulsync_enroll.c:171-190, 304-350; PulsyncClass.cpp:356,494).            *)
THEOREM DeviceKeepsItsWord == LifeSpec => []SettledWithoutForm
<1>1. LifeTypeOK /\ (submits = 0 => CalmInv) /\ (submits = 0 => OriginInv) => SettledWithoutForm
  <2> SUFFICES ASSUME LifeTypeOK, submits = 0, CalmInv, OriginInv PROVE SettledWithoutForm
    BY DEF SettledWithoutForm
  <2>1. DoneIsCoherent
    BY EnrollAssumption DEF EnrollAssumption, DoneIsCoherent, CalmInv, CoherentInv,
                            DoneInv, Enrolled
  <2>2. OnlyConfirmedTokens
    BY DEF OnlyConfirmedTokens, CalmInv, ConfirmInv
  <2>3. reboots <= 1 /\ ~NvsFails => RememberedIssuer
    BY DEF RememberedIssuer, OriginInv, NoteInv
  <2>4. reboots <= 1 /\ ~NvsFails => OneGrantStored
    BY DEF OneGrantStored, OriginInv, PairInv, Enrolled, Live
  <2>5. QED BY <2>1, <2>2, <2>3, <2>4 DEF SettledWithoutForm
<1>2. QED BY <1>1, LifeTypesHold, CalmInductive, OriginInductive, PTL

(* Until a form comes, whatever fails and wherever power is cut, the broker  *)
(* gets the password only of the server that issued it.  An HTTPS heartbeat  *)
(* asks the issuer of its token, before the first cut in any case, and after *)
(* it if no write of NVS fails and a server is noted there.  And if no write *)
(* fails, the POST of a recovery carries no token at all: neither the        *)
(* rejected one, nor on a retry any other (PulsyncClass.cpp:356,416,424).    *)
(* Of the POST of a discovery nothing is claimed: it carries what the        *)
(* transport has left (PulsyncClass.cpp:515-527).                            *)
THEOREM TokensStayHome == LifeSpec => []TokensInUseStayHome
<1>1. LifeTypeOK /\ (submits = 0 => CalmInv) /\ (submits = 0 => OriginInv) => TokensInUseStayHome
  <2> SUFFICES ASSUME LifeTypeOK, submits = 0, CalmInv, OriginInv PROVE TokensInUseStayHome
    BY DEF TokensInUseStayHome
  <2>1. mqtt.st # "off" => issuer[mqtt.token] = mqtt.server
    BY DEF OriginInv, ConfirmHome
  <2>2. ASSUME pc = "reply", reboots = 0 \/ (reboots = 1 /\ ~NvsFails /\ token_srv # "none")
        PROVE  issuer[asked.token] = asked.server
    <3>1. /\ state = "DONE" /\ step[Loop] = "idle" /\ asked.token = tx.token
          /\ asked.server = server /\ Chosen
      BY <2>2 DEF CalmInv, ConfirmInv, PlaceInv, OriginInv, ConfirmHome
    <3>2. CASE reboots = 0
      BY <2>2, <3>1, <3>2 DEF OriginInv, HomeInv, DoneHome
    <3>3. CASE reboots = 1 /\ ~NvsFails /\ token_srv # "none"
      <4>1. disc = "RESOLVED"
        BY <3>1, <3>3 DEF OriginInv, FixedInv, Chosen
      <4>2. nvs = tx /\ nvs.token # 0
        BY <2>2, <3>1 DEF CalmInv, CoherentInv, DoneInv, Enrolled
      <4>3. token_srv = server /\ token_srv = issuer[nvs.token]
        BY <2>2, <3>3, <4>1, <4>2 DEF OriginInv, NoteInv
      <4>4. QED BY <3>1, <4>2, <4>3
    <3>4. QED BY <2>2, <3>2, <3>3
  <2>3. reauth.on /\ ~NvsFails => asked.posted = 0
    BY DEF OriginInv, BareRecovery, PostIsBare
  <2>4. QED BY <2>1, <2>2, <2>3 DEF TokensInUseStayHome
<1>2. QED BY <1>1, LifeTypesHold, CalmInductive, OriginInductive, PTL
=============================================================================
