----------------------------- MODULE EnrollProof -----------------------------
(* Proofs about the enrollment component, for every set of callers, tasks   *)
(* and codes and every bound.                                               *)
EXTENDS Enroll, TLAPS

(* The constant values the actions assign are of the right types. *)
LEMMA InitialValues ==
  /\ Empty \in Pair
  /\ NoJob \in Job
  /\ 0 \in Cred
  /\ 1 \in 1 .. MaxAttempts /\ 0 \in 0 .. MaxAttempts
  /\ 0 \in 0 .. MaxReboots
  /\ \A t \in Tasks : t # NoTask
BY EnrollAssumption DEF EnrollAssumption, Empty, Pair, NoJob, Job, Pc, Cred

(* The first boot and every step give every variable a value of its type. *)
LEMMA TypeInitially == Init => TypeOK
<1> USE EnrollAssumption DEF EnrollAssumption, TypeOK, State, Step
<1> SUFFICES ASSUME NEW code \in Codes \cup {NoCode}, EnrollInit(code) PROVE TypeOK
  BY DEF Init
<1>1. attempt_id \in 1 .. MaxAttempts /\ draft \in [code : Codes \cup {NoCode}, id : 0 .. MaxAttempts]
  BY InitialValues DEF EnrollInit
<1>2. ram \in Pair /\ nvs \in Pair /\ tx \in Pair /\ granted \in Cred
  BY InitialValues DEF EnrollInit
<1>3. job \in [Tasks -> Job] /\ step \in [Callers -> Step]
  BY InitialValues DEF EnrollInit
<1>4. QED BY <1>1, <1>2, <1>3, InitialValues DEF EnrollInit, Cred

LEMMA TypeStep == TypeOK /\ [Next]_enrollVars => TypeOK'
<1> USE EnrollAssumption DEF EnrollAssumption, TypeOK, State, Step
<1> SUFFICES ASSUME TypeOK, [Next]_enrollVars PROVE TypeOK'
  OBVIOUS
<1> USE DEF Pair, Cred, Empty, Pc, Job, NoJob, At, shared, call, outer
<1>1. ASSUME NEW c \in Callers, CallerStep(c) PROVE TypeOK'
  <2>1. CASE InitCall(c)    BY <2>1 DEF InitCall
  <2>2. ASSUME NEW code \in Codes \cup {NoCode}, InitCode(c, code) PROVE TypeOK'
    BY <2>2 DEF InitCode
  <2>3. CASE InitState(c)   BY <2>3 DEF InitState
  <2>4. CASE ResetCall(c)   BY <2>4 DEF ResetCall
  <2>5. CASE ResetToken(c)  BY <2>5 DEF ResetToken
  <2>6. CASE ResetId(c)     BY <2>6 DEF ResetId
  <2>7. CASE ResetState(c)  BY <2>7 DEF ResetState
  <2>8. QED BY <1>1, <2>1, <2>2, <2>3, <2>4, <2>5, <2>6, <2>7 DEF CallerStep
<1>2. ASSUME LoopStep PROVE TypeOK'
  <2>1. CASE CheckCall         BY <2>1 DEF CheckCall
  <2>2. CASE CheckId           BY <2>2 DEF CheckId
  <2>3. CASE CheckState        BY <2>3 DEF CheckState
  <2>4. CASE StartCall         BY <2>4 DEF StartCall
  <2>5. CASE StartCode         BY <2>5 DEF StartCode
  <2>6. CASE StartGivesUp      BY <2>6 DEF StartGivesUp
  <2>7. CASE StartId           BY <2>7 DEF StartId
  <2>8. CASE StartState        BY <2>8 DEF StartState
  <2>9. ASSUME NEW t \in Tasks, StartCreate(t) PROVE TypeOK'
    BY <2>9 DEF StartCreate
  <2>10. CASE StartCreateFails BY <2>10 DEF StartCreateFails
  <2>11. CASE ClearToken       BY <2>11 DEF ClearToken
  <2>12. QED
    BY <1>2, <2>1, <2>2, <2>3, <2>4, <2>5, <2>6, <2>7, <2>8, <2>9, <2>10, <2>11 DEF LoopStep
<1>3. ASSUME NEW t \in Tasks, TaskStep(t) PROVE TypeOK'
  <2> USE DEF Goes
  <2>1. CASE PostGranted(t)  
    <3>1. granted' \in Cred /\ granted' \in 0 .. MaxGrants
      BY <2>1 DEF PostGranted
    <3>2. [job[t] EXCEPT !.pc = "check", !.cred = granted + 1] \in Job
      <4>1. job[t] \in Job /\ granted + 1 \in Cred
        BY <2>1, <3>1 DEF PostGranted
      <4>2. "check" \in Pc
        OBVIOUS
      <4>3. QED BY ONLY <4>1, <4>2 DEF Job
    <3>3. job' \in [Tasks -> Job]
      BY ONLY <2>1, <3>2, job \in [Tasks -> Job] DEF PostGranted
    <3>4. QED BY <2>1, <3>1, <3>3 DEF PostGranted
  <2>2. CASE PostFails(t)    BY <2>2 DEF PostFails
  <2>3. CASE CheckAttempt(t) BY <2>3 DEF CheckAttempt
  <2>4. CASE Fail(t)         BY <2>4 DEF Fail
  <2>5. CASE StoreToken(t)   BY <2>5 DEF StoreToken
  <2>6. CASE StoreId(t)      BY <2>6 DEF StoreId
  <2>7. CASE Adopt(t)        BY <2>7 DEF Adopt
  <2>8. CASE Done(t)         BY <2>8 DEF Done
  <2>9. CASE Exit(t)         BY <2>9 DEF Exit
  <2>10. QED
    BY <1>3, <2>1, <2>2, <2>3, <2>4, <2>5, <2>6, <2>7, <2>8, <2>9 DEF TaskStep
<1>4. CASE RxSeesProgress    BY <1>4 DEF RxSeesProgress
<1>5. CASE RxFailsEnrollment BY <1>5 DEF RxFailsEnrollment
<1>6. ASSUME NEW code \in Codes \cup {NoCode}, Reboot(code) PROVE TypeOK'
  <2>1. ram' \in Pair /\ tx' \in Pair /\ nvs' \in Pair
    BY <1>6 DEF Reboot
  <2>2. job' \in [Tasks -> Job]
    BY <1>6, InitialValues DEF Reboot
  <2>3. step' \in [Callers -> Step]
    BY <1>6 DEF Reboot
  <2>4. draft' \in [code : Codes \cup {NoCode}, id : 0 .. MaxAttempts]
    BY <1>6 DEF Reboot
  <2>5. state' \in State /\ attempt_id' \in 1 .. MaxAttempts /\ reboots' \in 0 .. MaxReboots
    BY <1>6 DEF Reboot
  <2>6. QED BY ONLY <1>6, <2>1, <2>2, <2>3, <2>4, <2>5, TypeOK DEF Reboot, TypeOK
<1>7. CASE UNCHANGED enrollVars BY <1>7 DEF enrollVars
<1>8. QED BY <1>1, <1>2, <1>3, <1>4, <1>5, <1>6, <1>7 DEF Next

(* Every variable keeps its type. *)
THEOREM TypeCorrect == Spec => []TypeOK
BY TypeInitially, TypeStep, PTL DEF Spec

-----------------------------------------------------------------------------
(* What a step of an enroll task leaves alone: the counter, the code, the   *)
(* callers and every other task; before its exit also the handle and the    *)
(* attempt it was created for.                                              *)
LEMMA TaskFrame ==
  ASSUME NEW t \in Tasks, TypeOK, TaskStep(t)
  PROVE  /\ UNCHANGED <<attempt_id, pairing_code, step, draft>>
         /\ \A u \in Tasks : u # t => job'[u] = job[u]
         /\ ~Exit(t) => /\ s_task' = s_task
                       /\ Live(t) /\ Live(t)'
                       /\ job'[t].id = job[t].id /\ job'[t].code = job[t].code
<1> USE DEF TypeOK, Goes, Job, Live, shared, call, outer
<1>1. CASE PostGranted(t)  BY <1>1 DEF PostGranted
<1>2. CASE PostFails(t)    BY <1>2 DEF PostFails
<1>3. CASE CheckAttempt(t) BY <1>3 DEF CheckAttempt
<1>4. CASE Fail(t)         BY <1>4 DEF Fail
<1>5. CASE StoreToken(t)   BY <1>5 DEF StoreToken
<1>6. CASE StoreId(t)      BY <1>6 DEF StoreId
<1>7. CASE Adopt(t)        BY <1>7 DEF Adopt
<1>8. CASE Done(t)         BY <1>8 DEF Done
<1>9. CASE Exit(t)         BY <1>9 DEF Exit
<1>10. QED
  BY <1>1, <1>2, <1>3, <1>4, <1>5, <1>6, <1>7, <1>8, <1>9 DEF TaskStep

(* HandleInv is inductive for every set of callers: only start() creates a  *)
(* task and only with the handle free; only the task itself frees it.       *)
LEMMA HandleInvInductive == Spec => []HandleInv
<1> USE DEF HandleNamesTask, StartOwnsHandle, InStart, Live
<1>1. Init => HandleNamesTask /\ StartOwnsHandle
  BY InitialValues DEF Init, EnrollInit, NoJob
<1>2. TypeOK /\ HandleInv /\ [Next]_enrollVars => (HandleNamesTask /\ StartOwnsHandle)'
  <2> SUFFICES ASSUME TypeOK, HandleNamesTask, StartOwnsHandle, [Next]_enrollVars
               PROVE  (HandleNamesTask /\ StartOwnsHandle)'
    BY DEF HandleInv
  <2> DEFINE Inv == HandleNamesTask /\ StartOwnsHandle
  <2> USE EnrollAssumption DEF EnrollAssumption, TypeOK, At, shared, call, outer
  <2>1. ASSUME NEW c \in Callers, CallerStep(c) PROVE Inv'
    <3>1. s_task' = s_task /\ job' = job
      BY <2>1 DEF CallerStep, InitCall, InitCode, InitState,
                  ResetCall, ResetToken, ResetId, ResetState
    <3>2. InStart' => InStart
      BY <2>1 DEF CallerStep, InitCall, InitCode, InitState,
                  ResetCall, ResetToken, ResetId, ResetState
    <3>3. QED BY <3>1, <3>2
  <2>2. ASSUME LoopStep PROVE Inv'
    <3>1. CASE CheckCall         BY <3>1 DEF CheckCall
    <3>2. CASE CheckId           BY <3>2 DEF CheckId
    <3>3. CASE CheckState        BY <3>3 DEF CheckState
    <3>4. CASE StartCall         BY <3>4 DEF StartCall, StartRefused
    <3>5. CASE StartCode         BY <3>5 DEF StartCode
    <3>6. CASE StartGivesUp      BY <3>6 DEF StartGivesUp
    <3>7. CASE StartId           BY <3>7 DEF StartId
    <3>8. CASE StartState        BY <3>8 DEF StartState
    <3>9. ASSUME NEW t \in Tasks, StartCreate(t) PROVE Inv'
      <4>1. s_task = NoTask
        BY <3>9 DEF StartCreate
      <4>2. \A u \in Tasks : ~Live(u)
        BY <4>1
      <4>3. \A u \in Tasks : Live(u)' <=> u = t
        BY <3>9, <4>2 DEF StartCreate
      <4>4. s_task' = t /\ step'[Loop] = "idle"
        BY <3>9 DEF StartCreate
      <4>5. QED BY <4>3, <4>4
    <3>10. CASE StartCreateFails BY <3>10 DEF StartCreateFails
    <3>11. CASE ClearToken       BY <3>11 DEF ClearToken
    <3>12. QED
      BY <2>2, <3>1, <3>2, <3>3, <3>4, <3>5, <3>6, <3>7, <3>8, <3>9, <3>10, <3>11 DEF LoopStep
  <2>3. ASSUME NEW t \in Tasks, TaskStep(t) PROVE Inv'
    <3>1. CASE Exit(t)
      <4>1. s_task = t
        BY <3>1 DEF Exit
      <4>2. \A u \in Tasks : ~Live(u)'
        BY <3>1, <4>1 DEF Exit, NoJob
      <4>3. QED BY <3>1, <4>2 DEF Exit
    <3>2. CASE ~Exit(t)
      BY <2>3, <3>2, TaskFrame
    <3>3. QED BY <3>1, <3>2
  <2>4. CASE RxSeesProgress    BY <2>4 DEF RxSeesProgress
  <2>5. CASE RxFailsEnrollment BY <2>5 DEF RxFailsEnrollment
  <2>6. ASSUME NEW code \in Codes \cup {NoCode}, Reboot(code) PROVE Inv'
    BY <2>6, InitialValues DEF Reboot, NoJob
  <2>7. CASE UNCHANGED enrollVars BY <2>7 DEF enrollVars
  <2>8. QED BY <2>1, <2>2, <2>3, <2>4, <2>5, <2>6, <2>7 DEF Next
<1>3. QED BY <1>1, <1>2, TypeCorrect, PTL DEF Spec, HandleInv

(* However the callers interleave, enroll_task never runs twice at a time.  *)
THEOREM OneTask == Spec => []OneTaskAtATime
<1>1. HandleInv => OneTaskAtATime
  BY DEF HandleInv, HandleNamesTask, OneTaskAtATime
<1>2. QED BY <1>1, HandleInvInductive, PTL

(* A task that has a reply has the latest grant: the next grant can only    *)
(* come to the next task, and that one is created when this one is gone.    *)
LEMMA CredIsLatestInductive == Spec => []CredIsLatest
<1> USE DEF CredIsLatest, Live
<1>1. Init => CredIsLatest
  BY DEF Init, EnrollInit, NoJob
<1>2. TypeOK /\ HandleInv /\ CredIsLatest /\ [Next]_enrollVars => CredIsLatest'
  <2> SUFFICES ASSUME TypeOK, HandleInv, CredIsLatest, [Next]_enrollVars PROVE CredIsLatest'
    OBVIOUS
  <2> USE DEF TypeOK, shared, call, outer
  <2>1. ASSUME NEW c \in Callers, CallerStep(c) PROVE CredIsLatest'
    BY <2>1 DEF CallerStep, InitCall, InitCode, InitState,
                ResetCall, ResetToken, ResetId, ResetState
  <2>2. ASSUME LoopStep PROVE CredIsLatest'
    <3>1. ASSUME NEW t \in Tasks, StartCreate(t) PROVE CredIsLatest'
      BY <3>1 DEF StartCreate
    <3>2. CASE ~\E t \in Tasks : StartCreate(t)
      BY <2>2, <3>2 DEF LoopStep, CheckCall, CheckId, CheckState, StartCall, StartCode,
                        StartGivesUp, StartId, StartState, StartCreateFails, ClearToken
    <3>3. QED BY <3>1, <3>2
  <2>3. ASSUME NEW t \in Tasks, TaskStep(t) PROVE CredIsLatest'
    <3> USE DEF Goes, Job
    <3>1. CASE PostGranted(t)
      <4>1. \A u \in Tasks : u # t => job[u].cred = 0
        BY <3>1 DEF PostGranted, HandleInv, HandleNamesTask
      <4>2. \A u \in Tasks : u # t => job'[u] = job[u]
        BY <3>1 DEF PostGranted
      <4>3. job'[t].cred = granted' /\ job'[t].pc = "check"
        BY <3>1 DEF PostGranted
      <4>4. QED BY <4>1, <4>2, <4>3
    <3>2. CASE PostFails(t)    BY <3>2 DEF PostFails
    <3>3. CASE CheckAttempt(t) BY <3>3 DEF CheckAttempt
    <3>4. CASE Fail(t)         BY <3>4 DEF Fail
    <3>5. CASE StoreToken(t)   BY <3>5 DEF StoreToken
    <3>6. CASE StoreId(t)      BY <3>6 DEF StoreId
    <3>7. CASE Adopt(t)        BY <3>7 DEF Adopt
    <3>8. CASE Done(t)         BY <3>8 DEF Done
    <3>9. CASE Exit(t)         BY <3>9 DEF Exit, NoJob
    <3>10. QED
      BY <2>3, <3>1, <3>2, <3>3, <3>4, <3>5, <3>6, <3>7, <3>8, <3>9 DEF TaskStep
  <2>4. CASE RxSeesProgress    BY <2>4 DEF RxSeesProgress
  <2>5. CASE RxFailsEnrollment BY <2>5 DEF RxFailsEnrollment
  <2>6. ASSUME NEW code \in Codes \cup {NoCode}, Reboot(code) PROVE CredIsLatest'
    BY <2>6 DEF Reboot, NoJob
  <2>7. CASE UNCHANGED enrollVars BY <2>7 DEF enrollVars
  <2>8. QED BY <2>1, <2>2, <2>3, <2>4, <2>5, <2>6, <2>7 DEF Next
<1>3. QED BY <1>1, <1>2, TypeCorrect, HandleInvInductive, PTL DEF Spec

(* However late a reply is and whoever resets or re-initialises meanwhile,  *)
(* a stored token is only ever replaced by the latest grant or by nothing.  *)
THEOREM RepliesInOrder == Spec => LatestGrantStored
<1> DEFINE A == nvs'.token \in {nvs.token, 0, granted}
<1>1. TypeOK /\ CredIsLatest /\ [Next]_enrollVars => [A]_enrollVars
  <2> SUFFICES ASSUME TypeOK, CredIsLatest, Next PROVE A
    OBVIOUS
  <2> USE DEF TypeOK, Pair, shared, call, outer
  <2>1. ASSUME NEW c \in Callers, CallerStep(c) PROVE A
    BY <2>1 DEF CallerStep, InitCall, InitCode, InitState,
                ResetCall, ResetToken, ResetId, ResetState
  <2>2. ASSUME LoopStep PROVE nvs' = nvs
    BY <2>2 DEF LoopStep, CheckCall, CheckId, CheckState, StartCall, StartCode, StartGivesUp,
                StartId, StartState, StartCreate, StartCreateFails, ClearToken
  <2>3. ASSUME NEW t \in Tasks, TaskStep(t) PROVE A
    <3>1. CASE StoreToken(t) BY <3>1 DEF StoreToken, Goes, CredIsLatest, Live
    <3>2. CASE StoreId(t)    BY <3>2 DEF StoreId
    <3>3. CASE ~StoreToken(t) /\ ~StoreId(t)
      BY <2>3, <3>3 DEF TaskStep, PostGranted, PostFails, CheckAttempt, Fail, Adopt, Done, Exit
    <3>4. QED BY <3>1, <3>2, <3>3
  <2>4. ASSUME RxSeesProgress \/ RxFailsEnrollment PROVE nvs' = nvs
    BY <2>4 DEF RxSeesProgress, RxFailsEnrollment
  <2>5. ASSUME NEW code \in Codes \cup {NoCode}, Reboot(code) PROVE nvs' = nvs
    BY <2>5 DEF Reboot
  <2>6. QED BY <2>1, <2>2, <2>3, <2>4, <2>5 DEF Next
<1>2. QED BY <1>1, TypeCorrect, CredIsLatestInductive, PTL DEF Spec, LatestGrantStored

-----------------------------------------------------------------------------
(* SoleCallerInv is inductive when loop() is the only caller.               *)
LEMMA SoleCallerInvInductive == SoleCaller => (Spec => []SoleCallerInv)
<1> SUFFICES ASSUME SoleCaller PROVE Spec => []SoleCallerInv
  OBVIOUS
<1> DEFINE Inv == DraftIsCurrent /\ AttemptsArePast /\ CurrentTaskAtWork
                  /\ CurrentAttemptHasCurrentCode
<1> USE DEF DraftIsCurrent, AttemptsArePast, CurrentTaskAtWork,
            CurrentAttemptHasCurrentCode, Live
<1>1. Init => Inv
  <2>1. Init => (\A t \in Tasks : ~Live(t)) /\ state = "NEEDED"
    BY DEF Init, EnrollInit, NoJob
  <2>2. Init => step[Loop] = "idle"
    BY EnrollAssumption DEF EnrollAssumption, Init, EnrollInit
  <2>3. QED BY <2>1, <2>2
<1>2. TypeOK /\ SoleCallerInv /\ [Next]_enrollVars => Inv'
  <2> SUFFICES ASSUME TypeOK, Inv, [Next]_enrollVars PROVE Inv'
    BY DEF SoleCallerInv
  <2> USE EnrollAssumption DEF EnrollAssumption, TypeOK, At, shared, call, outer
  <2>1. ASSUME NEW c \in Callers, CallerStep(c) PROVE Inv'
    <3>0. c = Loop
      BY DEF SoleCaller
    <3> USE <3>0
    <3>1. CASE InitCall(c)    BY <3>1 DEF InitCall, Job
    <3>2. ASSUME NEW code \in Codes \cup {NoCode}, InitCode(c, code) PROVE Inv'
      BY <3>2 DEF InitCode, Job
    <3>3. CASE InitState(c)   BY <3>3 DEF InitState
    <3>4. CASE ResetCall(c)   BY <3>4 DEF ResetCall, Job
    <3>5. CASE ResetToken(c)  BY <3>5 DEF ResetToken
    <3>6. CASE ResetId(c)     BY <3>6 DEF ResetId
    <3>7. CASE ResetState(c)  BY <3>7 DEF ResetState
    <3>8. QED BY <2>1, <3>1, <3>2, <3>3, <3>4, <3>5, <3>6, <3>7 DEF CallerStep
  <2>2. ASSUME LoopStep PROVE Inv'
    <3>1. CASE CheckCall         BY <3>1 DEF CheckCall
    <3>2. CASE CheckId           BY <3>2 DEF CheckId
    <3>3. CASE CheckState        BY <3>3 DEF CheckState
    <3>4. CASE StartCall         BY <3>4 DEF StartCall, StartRefused
    <3>5. CASE StartCode         BY <3>5 DEF StartCode
    <3>6. CASE StartGivesUp      BY <3>6 DEF StartGivesUp
    <3>7. CASE StartId           BY <3>7 DEF StartId
    <3>8. CASE StartState        BY <3>8 DEF StartState
    <3>9. ASSUME NEW t \in Tasks, StartCreate(t) PROVE Inv'
      <4>1. draft.id = attempt_id /\ draft.code = pairing_code
        BY <3>9 DEF StartCreate
      <4>2. /\ job'[t].pc = "post" /\ job'[t].id = attempt_id
            /\ job'[t].code = pairing_code
            /\ \A u \in Tasks : u # t => job'[u] = job[u]
        BY <3>9, <4>1 DEF StartCreate
      <4>3. step'[Loop] = "idle"
        BY <3>9 DEF StartCreate
      <4>4. QED BY <3>9, <4>2, <4>3 DEF StartCreate
    <3>10. CASE StartCreateFails BY <3>10 DEF StartCreateFails
    <3>11. CASE ClearToken       BY <3>11 DEF ClearToken
    <3>12. QED
      BY <2>2, <3>1, <3>2, <3>3, <3>4, <3>5, <3>6, <3>7, <3>8, <3>9, <3>10, <3>11 DEF LoopStep
  <2>3. ASSUME NEW t \in Tasks, TaskStep(t) PROVE Inv'
    <3>1. UNCHANGED <<attempt_id, pairing_code, step, draft>>
      BY <2>3, TaskFrame
    <3>2. DraftIsCurrent'
      BY <3>1
    <3>3. Live(t)' => Live(t) /\ job'[t].id = job[t].id /\ job'[t].code = job[t].code
      BY <2>3, TaskFrame DEF Exit, NoJob
    <3>4. AttemptsArePast' /\ CurrentAttemptHasCurrentCode'
      BY <2>3, <3>1, <3>3, TaskFrame
    <3>5. CurrentTaskAtWork'
      <4>1. state' = "IN_PROGRESS" => state = "IN_PROGRESS"
        BY <2>3 DEF TaskStep, PostGranted, PostFails, CheckAttempt, Fail,
                    StoreToken, StoreId, Adopt, Done, Exit
      <4>2. state' = "IN_PROGRESS" /\ job[t].id = attempt_id /\ job[t].pc \notin {"none", "exit"}
              => job'[t].id = attempt_id /\ job'[t].pc \notin {"none", "exit"}
        <5> USE DEF Goes, Job
        <5>1. CASE PostGranted(t)  BY <5>1 DEF PostGranted
        <5>2. CASE PostFails(t)    BY <5>2 DEF PostFails
        <5>3. CASE CheckAttempt(t) BY <5>3 DEF CheckAttempt
        <5>4. CASE Fail(t)         BY <5>4 DEF Fail
        <5>5. CASE StoreToken(t)   BY <5>5 DEF StoreToken
        <5>6. CASE StoreId(t)      BY <5>6 DEF StoreId
        <5>7. CASE Adopt(t)        BY <5>7 DEF Adopt
        <5>8. CASE Done(t)         BY <5>8 DEF Done
        <5>9. CASE Exit(t)         BY <5>9 DEF Exit
        <5>10. QED
          BY <2>3, <5>1, <5>2, <5>3, <5>4, <5>5, <5>6, <5>7, <5>8, <5>9 DEF TaskStep
      <4>3. QED BY <2>3, <3>1, <4>1, <4>2, TaskFrame
    <3>6. QED BY <3>2, <3>4, <3>5
  <2>4. CASE RxSeesProgress    BY <2>4 DEF RxSeesProgress
  <2>5. CASE RxFailsEnrollment BY <2>5 DEF RxFailsEnrollment
  <2>6. ASSUME NEW code \in Codes \cup {NoCode}, Reboot(code) PROVE Inv'
    BY <2>6, InitialValues DEF Reboot, NoJob
  <2>7. CASE UNCHANGED enrollVars BY <2>7 DEF enrollVars
  <2>8. QED BY <2>1, <2>2, <2>3, <2>4, <2>5, <2>6, <2>7 DEF Next
<1>3. QED
  BY <1>1, <1>2, TypeCorrect, PTL DEF Spec, SoleCallerInv

(* While the portal is closed, IN_PROGRESS is never left without a task.    *)
THEOREM ProgressIsOwned == SoleCaller => (Spec => []ProgressHasTask)
<1> SUFFICES ASSUME SoleCaller PROVE Spec => []ProgressHasTask
  OBVIOUS
<1>1. SoleCallerInv => ProgressHasTask
  BY DEF SoleCallerInv, CurrentTaskAtWork, ProgressHasTask, Live
<1>2. QED BY <1>1, SoleCallerInvInductive, PTL

(* While the portal is closed, a request whose attempt is still current was *)
(* made with the current pairing code.                                      *)
THEOREM AttemptCodesAgree == SoleCaller => (Spec => []CurrentAttemptHasCurrentCode)
<1> SUFFICES ASSUME SoleCaller PROVE Spec => []CurrentAttemptHasCurrentCode
  OBVIOUS
<1>1. SoleCallerInv => CurrentAttemptHasCurrentCode
  BY DEF SoleCallerInv
<1>2. QED BY <1>1, SoleCallerInvInductive, PTL
=============================================================================
