------------------------------- MODULE Enroll -------------------------------
(***************************************************************************)
(* The enrollment module (src/src/core/pulsync_enroll.c): the state         *)
(* machine IDLE / NEEDED / IN_PROGRESS / DONE / FAILED, the attempt counter *)
(* that invalidates requests in flight, the one-shot enroll_task that posts *)
(* the pairing code and commits the reply, and the credentials it keeps in  *)
(* RAM, in NVS and in the transport's configuration.                        *)
(*                                                                          *)
(* None of this state is locked.  pulsync_enroll_* is called from loop()    *)
(* and from the portal's httpd task, enroll_task runs on either core, and   *)
(* the MQTT task may feed a message to the response parser.  Every access   *)
(* to a shared variable is therefore a step of its own: a call is a row of  *)
(* steps kept in step[c], enroll_task a row of steps kept in job[t].pc.     *)
(*                                                                          *)
(* A credential is the number of the server's grant (0 is the empty         *)
(* string): grant n issues token n together with device_id n.  The optional *)
(* mqtt_url and config_pw_hash of a reply are not part of this component.   *)
(***************************************************************************)
EXTENDS Naturals

CONSTANTS
  Callers,      \* tasks that call the API: loop() and, once a portal is open, httpd
  Loop,         \* the loop() task, the only one that calls check() and start()
  Tasks,        \* control blocks FreeRTOS may hand to enroll_task
  NoTask,       \* s_task == NULL
  Codes,        \* pairing codes
  NoCode,       \* the empty pairing code
  NvsFails,     \* whether an NVS write or erase may fail
  MaxAttempts,  \* bound on s_attempt_id
  MaxGrants,    \* bound on the credentials the server issues
  MaxReboots    \* bound on power cuts and restarts

ASSUME EnrollAssumption ==
  /\ Loop \in Callers
  /\ NoTask \notin Tasks
  /\ NoCode \notin Codes
  /\ NvsFails \in BOOLEAN
  /\ MaxAttempts \in Nat \ {0} /\ MaxGrants \in Nat /\ MaxReboots \in Nat

VARIABLES
  state,        \* s_state
  attempt_id,   \* s_attempt_id
  pairing_code, \* s_pairing_code
  ram,          \* s_device_token, s_device_id
  s_task,       \* handle of the enroll task, or NoTask
  nvs,          \* NVS keys dev_token, device_id
  tx,           \* device_token, device_id of the transport's s_config
  step,         \* where each caller is inside the API ("idle": outside)
  have,         \* locals of enroll_check
  draft,        \* the enroll_attempt_t that start() is filling in
  job,          \* the enroll tasks: program counter, attempt, reply
  rx,           \* the MQTT task is past its IN_PROGRESS test
  granted,      \* credentials the server has issued
  reboots       \* restarts so far

shared == <<state, attempt_id, pairing_code, ram, s_task>>
call   == <<step, have, draft>>
outer  == <<rx, granted, reboots>>
enrollVars == <<shared, nvs, tx, call, job, outer>>

Cred  == 0 .. MaxGrants
Pair  == [token : Cred, id : Cred]
Empty == [token |-> 0, id |-> 0]
State == {"IDLE", "NEEDED", "IN_PROGRESS", "DONE", "FAILED"}
Step  == {"idle", "init_code", "init_state",
          "reset_token", "reset_id", "reset_state",
          "check_id", "check_state",
          "start_code", "start_id", "start_state", "start_create"}
Pc    == {"none", "post", "check", "fail", "store_token", "store_id",
          "adopt", "done", "exit"}
Job   == [pc : Pc, id : 0 .. MaxAttempts, code : Codes \cup {NoCode}, cred : Cred]
NoJob == [pc |-> "none", id |-> 0, code |-> NoCode, cred |-> 0]

Live(t) == job[t].pc # "none"

-----------------------------------------------------------------------------
(* At(c, s, n): caller c goes from step s to step n of the API.             *)
(* Goes(t, p, n): enroll task t goes from program counter p to n.           *)

At(c, s, n) == step[c] = s /\ step' = [step EXCEPT ![c] = n]

Goes(t, p, n) == job[t].pc = p /\ job' = [job EXCEPT ![t].pc = n]

(* Mutants, used by no action: the code with a plausible slip, against      *)
(* which the properties are tried.                                          *)

\* start() looks at the state only and forgets the handle of a stale task
MutStartRefused == state = "DONE" \/ state = "IN_PROGRESS"

\* enroll_init forgets to invalidate the request in flight
MutInitCall(c) ==
  /\ At(c, "idle", "init_code")
  /\ UNCHANGED <<shared, nvs, tx, have, draft, job, outer>>

\* the attempt takes the number of the next one
MutStartId ==
  /\ At(Loop, "start_id", "start_state")
  /\ draft' = [draft EXCEPT !.id = attempt_id + 1]
  /\ UNCHANGED <<shared, nvs, tx, have, job, outer>>

\* a failed request leaves the state alone
MutFail(t) == Goes(t, "fail", "exit") /\ UNCHANGED <<shared, nvs, tx, call, outer>>

\* reset leaves the device_id of the erased token in NVS
MutResetId(c) ==
  /\ At(c, "reset_id", "reset_state")
  /\ UNCHANGED <<shared, nvs, tx, have, draft, job, outer>>

\* the task deletes itself without clearing s_task
MutExit(t) ==
  /\ job[t].pc = "exit"
  /\ job' = [job EXCEPT ![t] = NoJob]
  /\ UNCHANGED <<shared, nvs, tx, call, outer>>

-----------------------------------------------------------------------------
(* Calls of the API. *)

(* pulsync_enroll_init: the counter moves first, then the code is copied    *)
(* from the caller's buffer, then IDLE.                                     *)
InitCall(c) ==
  /\ At(c, "idle", "init_code")
  /\ attempt_id < MaxAttempts
  /\ attempt_id' = attempt_id + 1
  /\ UNCHANGED <<state, pairing_code, ram, s_task, nvs, tx, have, draft, job, outer>>

InitCode(c, code) ==
  /\ At(c, "init_code", "init_state")
  /\ pairing_code' = code
  /\ UNCHANGED <<state, attempt_id, ram, s_task, nvs, tx, have, draft, job, outer>>

InitState(c) ==
  /\ At(c, "init_state", "idle")
  /\ state' = "IDLE"
  /\ ram' = Empty
  /\ UNCHANGED <<attempt_id, pairing_code, s_task, nvs, tx, have, draft, job, outer>>

(* pulsync_enroll_reset: erase dev_token, then device_id; the result of an  *)
(* erase is ignored.                                                        *)
ResetCall(c) ==
  /\ At(c, "idle", "reset_token")
  /\ attempt_id < MaxAttempts
  /\ attempt_id' = attempt_id + 1
  /\ UNCHANGED <<state, pairing_code, ram, s_task, nvs, tx, have, draft, job, outer>>

ResetToken(c) ==
  /\ At(c, "reset_token", "reset_id")
  /\ nvs' = [nvs EXCEPT !.token = 0] \/ (NvsFails /\ nvs' = nvs)
  /\ UNCHANGED <<shared, tx, have, draft, job, outer>>

ResetId(c) ==
  /\ At(c, "reset_id", "reset_state")
  /\ nvs' = [nvs EXCEPT !.id = 0] \/ (NvsFails /\ nvs' = nvs)
  /\ UNCHANGED <<shared, tx, have, draft, job, outer>>

ResetState(c) ==
  /\ At(c, "reset_state", "idle")
  /\ state' = "NEEDED"
  /\ ram' = Empty
  /\ UNCHANGED <<attempt_id, pairing_code, s_task, nvs, tx, have, draft, job, outer>>

(* pulsync_enroll_check: NVS into RAM key by key (a missing key leaves the  *)
(* RAM copy alone), then the verdict.                                       *)
CheckCall ==
  /\ At(Loop, "idle", "check_id")
  /\ have' = [have EXCEPT !.token = nvs.token # 0]
  /\ ram' = IF nvs.token # 0 THEN [ram EXCEPT !.token = nvs.token] ELSE ram
  /\ UNCHANGED <<state, attempt_id, pairing_code, s_task, nvs, tx, draft, job, outer>>

CheckId ==
  /\ At(Loop, "check_id", "check_state")
  /\ have' = [have EXCEPT !.id = nvs.id # 0]
  /\ ram' = IF nvs.id # 0 THEN [ram EXCEPT !.id = nvs.id] ELSE ram
  /\ UNCHANGED <<state, attempt_id, pairing_code, s_task, nvs, tx, draft, job, outer>>

CheckState ==
  /\ At(Loop, "check_state", "idle")
  /\ state' = IF have.token /\ have.id THEN "DONE" ELSE "NEEDED"
  /\ tx' = CASE have.token /\ have.id -> ram
             [] have.token /\ ~have.id -> [tx EXCEPT !.token = ram.token]
             [] OTHER -> tx
  /\ UNCHANGED <<attempt_id, pairing_code, ram, s_task, nvs, have, draft, job, outer>>

(* pulsync_enroll_start_with_timeout: refused when enrolled, when the state *)
(* is IN_PROGRESS and as long as a task, current or stale, holds s_task.    *)
StartRefused == state = "DONE" \/ s_task # NoTask \/ state = "IN_PROGRESS"

StartCall ==
  /\ step[Loop] = "idle"
  /\ ~StartRefused
  /\ step' = [step EXCEPT ![Loop] = "start_code"]
  /\ UNCHANGED <<shared, nvs, tx, have, draft, job, outer>>

StartCode ==
  /\ pairing_code # NoCode
  /\ At(Loop, "start_code", "start_id")
  /\ draft' = [draft EXCEPT !.code = pairing_code]
  /\ UNCHANGED <<shared, nvs, tx, have, job, outer>>

(* No pairing code, or no memory for the attempt. *)
StartGivesUp ==
  /\ At(Loop, "start_code", "idle")
  /\ state' = "FAILED"
  /\ UNCHANGED <<attempt_id, pairing_code, ram, s_task, nvs, tx, have, draft, job, outer>>

StartId ==
  /\ At(Loop, "start_id", "start_state")
  /\ draft' = [draft EXCEPT !.id = attempt_id]
  /\ UNCHANGED <<shared, nvs, tx, have, job, outer>>

StartState ==
  /\ At(Loop, "start_state", "start_create")
  /\ state' = "IN_PROGRESS"
  /\ UNCHANGED <<attempt_id, pairing_code, ram, s_task, nvs, tx, have, draft, job, outer>>

StartCreate(t) ==
  /\ ~Live(t)
  /\ At(Loop, "start_create", "idle")
  /\ job' = [job EXCEPT ![t] = [pc |-> "post", id |-> draft.id, code |-> draft.code, cred |-> 0]]
  /\ s_task' = t
  /\ UNCHANGED <<state, attempt_id, pairing_code, ram, nvs, tx, have, draft, outer>>

StartCreateFails ==
  /\ At(Loop, "start_create", "idle")
  /\ s_task' = NoTask
  /\ state' = "FAILED"
  /\ UNCHANGED <<attempt_id, pairing_code, ram, nvs, tx, have, draft, job, outer>>

(* pulsync_transport_set_token(""), by recoverEnrollment before its reset. *)
ClearToken ==
  /\ step[Loop] = "idle"
  /\ tx' = [tx EXCEPT !.token = 0]
  /\ UNCHANGED <<shared, nvs, call, job, outer>>

-----------------------------------------------------------------------------
(* enroll_task *)

(* The POST answers with a grant, or with anything else: no connection, a   *)
(* status outside 2xx, an error field, a missing token or device_id.        *)
PostGranted(t) ==
  /\ job[t].pc = "post"
  /\ granted < MaxGrants
  /\ granted' = granted + 1
  /\ job' = [job EXCEPT ![t] = [@ EXCEPT !.pc = "check", !.cred = granted + 1]]
  /\ UNCHANGED <<shared, nvs, tx, call, rx, reboots>>

PostFails(t) ==
  /\ Goes(t, "post", "check")
  /\ UNCHANGED <<shared, nvs, tx, call, outer>>

(* The attempt test; nothing after it looks at the counter again. *)
CheckAttempt(t) ==
  /\ Goes(t, "check", CASE job[t].id # attempt_id -> "exit"
                        [] job[t].id = attempt_id /\ job[t].cred = 0 -> "fail"
                        [] OTHER -> "store_token")
  /\ UNCHANGED <<shared, nvs, tx, call, outer>>

Fail(t) ==
  /\ Goes(t, "fail", "exit")
  /\ state' = "FAILED"
  /\ UNCHANGED <<attempt_id, pairing_code, ram, s_task, nvs, tx, call, outer>>

StoreToken(t) ==
  /\ \/ Goes(t, "store_token", "store_id") /\ nvs' = [nvs EXCEPT !.token = job[t].cred]
     \/ NvsFails /\ Goes(t, "store_token", "fail") /\ nvs' = nvs
  /\ UNCHANGED <<shared, tx, call, outer>>

StoreId(t) ==
  /\ \/ Goes(t, "store_id", "adopt") /\ nvs' = [nvs EXCEPT !.id = job[t].cred]
     \/ NvsFails /\ Goes(t, "store_id", "fail") /\ nvs' = nvs
  /\ UNCHANGED <<shared, tx, call, outer>>

Adopt(t) ==
  /\ Goes(t, "adopt", "done")
  /\ ram' = [token |-> job[t].cred, id |-> job[t].cred]
  /\ tx'  = [token |-> job[t].cred, id |-> job[t].cred]
  /\ UNCHANGED <<state, attempt_id, pairing_code, s_task, nvs, call, outer>>

Done(t) ==
  /\ Goes(t, "done", "exit")
  /\ state' = "DONE"
  /\ UNCHANGED <<attempt_id, pairing_code, ram, s_task, nvs, tx, call, outer>>

Exit(t) ==
  /\ job[t].pc = "exit"
  /\ s_task' = NoTask
  /\ job' = [job EXCEPT ![t] = NoJob]
  /\ UNCHANGED <<state, attempt_id, pairing_code, ram, nvs, tx, call, outer>>

TaskStep(t) ==
  \/ PostGranted(t) \/ PostFails(t) \/ CheckAttempt(t) \/ Fail(t)
  \/ StoreToken(t) \/ StoreId(t) \/ Adopt(t) \/ Done(t) \/ Exit(t)

-----------------------------------------------------------------------------
(* _handleRx on the MQTT task: while the state is IN_PROGRESS any message   *)
(* goes to the enrollment parser, which finds no token in it and fails.     *)
RxSeesProgress ==
  /\ ~rx
  /\ state = "IN_PROGRESS"
  /\ rx' = TRUE
  /\ UNCHANGED <<shared, nvs, tx, call, job, granted, reboots>>

RxFailsEnrollment ==
  /\ rx
  /\ rx' = FALSE
  /\ state' = "FAILED"
  /\ UNCHANGED <<attempt_id, pairing_code, ram, s_task, nvs, tx, call, job, granted, reboots>>

(* A restart: RAM is gone, NVS stays; _initModules runs enroll_init and     *)
(* enroll_check and then loads the transport before any other task exists.  *)
Reboot(code) ==
  /\ reboots < MaxReboots
  /\ reboots' = reboots + 1
  /\ attempt_id' = 1
  /\ pairing_code' = code
  /\ ram' = nvs
  /\ state' = IF nvs.token # 0 /\ nvs.id # 0 THEN "DONE" ELSE "NEEDED"
  /\ tx' = IF nvs.token # 0 /\ nvs.id # 0 THEN nvs ELSE Empty
  /\ s_task' = NoTask
  /\ job' = [t \in Tasks |-> NoJob]
  /\ step' = [c \in Callers |-> "idle"]
  /\ have' = [token |-> FALSE, id |-> FALSE]
  /\ draft' = [code |-> NoCode, id |-> 0]
  /\ rx' = FALSE
  /\ UNCHANGED <<nvs, granted>>

(* The first boot of a device with an empty NVS. *)
EnrollInit(code) ==
  /\ attempt_id = 1 /\ pairing_code = code /\ state = "NEEDED"
  /\ ram = Empty /\ nvs = Empty /\ tx = Empty
  /\ s_task = NoTask /\ job = [t \in Tasks |-> NoJob]
  /\ step = [c \in Callers |-> "idle"]
  /\ have = [token |-> FALSE, id |-> FALSE] /\ draft = [code |-> NoCode, id |-> 0]
  /\ rx = FALSE /\ granted = 0 /\ reboots = 0

-----------------------------------------------------------------------------
(* The component on its own: the callers call in any order. *)

CallerStep(c) ==
  \/ InitCall(c) \/ (\E code \in Codes \cup {NoCode} : InitCode(c, code)) \/ InitState(c)
  \/ ResetCall(c) \/ ResetToken(c) \/ ResetId(c) \/ ResetState(c)

LoopStep ==
  \/ CheckCall \/ CheckId \/ CheckState
  \/ StartCall \/ StartCode \/ StartGivesUp \/ StartId \/ StartState
  \/ (\E t \in Tasks : StartCreate(t)) \/ StartCreateFails
  \/ ClearToken

Init == \E code \in Codes \cup {NoCode} : EnrollInit(code)

Next ==
  \/ \E c \in Callers : CallerStep(c)
  \/ LoopStep
  \/ \E t \in Tasks : TaskStep(t)
  \/ RxSeesProgress \/ RxFailsEnrollment
  \/ \E code \in Codes \cup {NoCode} : Reboot(code)

Spec == Init /\ [][Next]_enrollVars

(* FreeRTOS runs a ready task, and esp_http_client's timeout bounds a POST. *)
Fairness == \A t \in Tasks : WF_enrollVars(TaskStep(t))

FairSpec == Spec /\ Fairness

-----------------------------------------------------------------------------
(* Types of every variable of the module. *)
TypeOK ==
  /\ state \in State
  /\ attempt_id \in 1 .. MaxAttempts
  /\ pairing_code \in Codes \cup {NoCode}
  /\ ram \in Pair /\ nvs \in Pair /\ tx \in Pair
  /\ s_task \in Tasks \cup {NoTask}
  /\ step \in [Callers -> Step]
  /\ have \in [token : BOOLEAN, id : BOOLEAN]
  /\ draft \in [code : Codes \cup {NoCode}, id : 0 .. MaxAttempts]
  /\ job \in [Tasks -> Job]
  /\ rx \in BOOLEAN
  /\ granted \in 0 .. MaxGrants
  /\ reboots \in 0 .. MaxReboots

(* At most one enroll task exists, stale ones included, whoever resets or   *)
(* re-initialises the module meanwhile: two tasks would share the transport *)
(* module's single HTTP client and response buffer.                         *)
OneTaskAtATime == \A t, u \in Tasks : Live(t) /\ Live(u) => t = u

(* s_task names exactly the live enroll task, so that start() cannot be     *)
(* refused by a task that is gone, nor accepted beside one that is not.     *)
HandleNamesTask == \A t \in Tasks : Live(t) <=> s_task = t

(* The inductive strengthening: from the moment start() finds no handle     *)
(* until it has created the task, nobody else can set the handle.           *)
InStart == step[Loop] \in {"start_code", "start_id", "start_state", "start_create"}
StartOwnsHandle == InStart => s_task = NoTask

HandleInv == TypeOK /\ HandleNamesTask /\ StartOwnsHandle

(* Replies are never applied out of order: what is written over a stored    *)
(* token is nothing or the latest token a server has issued, however late   *)
(* the reply comes and whoever resets or re-initialises meanwhile.          *)
LatestGrantStored ==
  [][nvs'.token \in {nvs.token, 0, granted}]_enrollVars

(* Its inductive part: a task holds no credential, or the latest one. *)
CredIsLatest ==
  \A t \in Tasks : job[t].cred \in {0, granted} /\ (~Live(t) => job[t].cred = 0)

(* With loop() as the only caller, IN_PROGRESS always has a task that will  *)
(* end it: the state is not left without anybody to move it on.             *)
ProgressHasTask ==
  state = "IN_PROGRESS" /\ step[Loop] = "idle" => \E t \in Tasks : Live(t)

(* With loop() as the only caller, an attempt that still counts as current  *)
(* was made with the pairing code that is current.                          *)
CurrentAttemptHasCurrentCode ==
  \A t \in Tasks : Live(t) /\ job[t].id = attempt_id => job[t].code = pairing_code

(* The inductive strengthening for a sole caller: what start() has copied   *)
(* is current, an attempt is never ahead of the counter, init is between    *)
(* its counter and its code only with every attempt invalid, and a task     *)
(* past its test is current as long as the state says IN_PROGRESS.          *)
SoleCaller == Callers = {Loop}

DraftIsCurrent ==
  /\ step[Loop] \in {"start_id", "start_state", "start_create"} => draft.code = pairing_code
  /\ step[Loop] \in {"start_state", "start_create"} => draft.id = attempt_id

AttemptsArePast ==
  \A t \in Tasks : Live(t) =>
    /\ job[t].id <= attempt_id
    /\ step[Loop] = "init_code" => job[t].id < attempt_id

CurrentTaskAtWork ==
  /\ step[Loop] \in {"start_code", "start_id", "start_state"} => state # "IN_PROGRESS"
  /\ state = "IN_PROGRESS" /\ step[Loop] \in {"idle", "check_id", "check_state"} =>
       \E t \in Tasks : job[t].pc \notin {"none", "exit"} /\ job[t].id = attempt_id

SoleCallerInv ==
  /\ TypeOK
  /\ DraftIsCurrent /\ AttemptsArePast /\ CurrentTaskAtWork
  /\ CurrentAttemptHasCurrentCode

(* A task that exists ends and gives the handle back: start() is not        *)
(* refused for ever by a task whose attempt was invalidated.                *)
HandleReleased == s_task # NoTask ~> s_task = NoTask
=============================================================================
