----------------------------- MODULE ServerProof -----------------------------
(***************************************************************************)
(* Theorems about the device and its server over a long time, in the        *)
(* scenarios of MCServer: the versions of OTA are ordered, and an update    *)
(* that no other offer overlaps restarts only into what it has checked; no  *)
(* token is lost by rotation where the server withdraws what it has seen    *)
(* replaced; the restart on command leaves the handler its second; and what *)
(* TargetProof shows of one set of constants holds in each scenario.        *)
(***************************************************************************)
EXTENDS MCServer, TargetProof

-----------------------------------------------------------------------------
(* The order of versions. *)

(* No version is newer than itself: an image is not offered to itself.      *)
LEMMA NewerIrreflexive == ASSUME NEW a \in Seq(Nat) PROVE ~Newer(a, a)
BY DEF Newer

LEMMA GreaterTransitive ==
  \A x, y, z \in Nat : x > y /\ y > z => x > z
OBVIOUS

(* The order is transitive: updates only go up.                             *)
THEOREM NewerIsTransitive ==
  ASSUME NEW a \in Seq(Nat), NEW b \in Seq(Nat), NEW c \in Seq(Nat),
         Newer(a, b), Newer(b, c)
  PROVE  Newer(a, c)
<1>1. /\ Len(a) \in Nat /\ Len(b) \in Nat /\ Len(c) \in Nat
      /\ \A i \in 1 .. Len(a) : a[i] \in Nat
      /\ \A i \in 1 .. Len(b) : b[i] \in Nat
      /\ \A i \in 1 .. Len(c) : c[i] \in Nat
  OBVIOUS
<1>2. ASSUME NEW i \in 1 .. Len(a), i <= Len(b), a[i] > b[i], Agree(a, b, i - 1)
      PROVE  Newer(a, c)
  <2>1. CASE Len(b) > Len(c) /\ Agree(b, c, Len(c))
    <3>1. CASE i <= Len(c)
      <4>1. i \in 1 .. Len(c) /\ b[i] = c[i]
        BY <1>1, <1>2, <2>1, <3>1 DEF Agree
      <4>2. a[i] > c[i]
        BY <1>1, <1>2, <4>1
      <4>3. Agree(a, c, i - 1)
        BY <1>1, <1>2, <2>1, <3>1 DEF Agree
      <4>4. QED BY <1>2, <3>1, <4>2, <4>3 DEF Newer
    <3>2. CASE i > Len(c)
      <4>1. Len(a) > Len(c)
        BY <1>1, <1>2, <3>2
      <4>2. ASSUME NEW k \in 1 .. Len(c) PROVE a[k] = c[k]
        <5>1. k \in 1 .. i - 1 /\ k \in 1 .. Len(c)
          BY <1>1, <1>2, <3>2, <4>2
        <5>2. QED BY <1>2, <2>1, <5>1 DEF Agree
      <4>3. QED BY <4>1, <4>2 DEF Newer, Agree
    <3>3. QED BY <1>1, <3>1, <3>2
  <2>2. ASSUME NEW j \in 1 .. Len(b), j <= Len(c), b[j] > c[j], Agree(b, c, j - 1)
        PROVE  Newer(a, c)
    <3>1. CASE i <= j
      <4>1. i \in 1 .. Len(b) /\ i \in 1 .. Len(c)
        BY <1>1, <1>2, <2>2, <3>1
      <4>2. i < j => b[i] = c[i]
        BY <1>1, <1>2, <2>2 DEF Agree
      <4>3. a[i] \in Nat /\ b[i] \in Nat /\ c[i] \in Nat /\ b[j] \in Nat /\ c[j] \in Nat
        BY <1>1, <1>2, <2>2, <4>1
      <4>4. i < j => a[i] > c[i]
        BY <1>2, <4>2
      <4>5. i = j => a[i] > c[i]
        <5>1. a[i] > b[i] /\ (i = j => b[i] > c[i])
          BY <1>2, <2>2
        <5>2. QED BY <4>3, <5>1, GreaterTransitive, Zenon
      <4>6. Agree(a, c, i - 1)
        <5>1. ASSUME NEW k \in 1 .. i - 1 PROVE a[k] = b[k] /\ b[k] = c[k]
          <6>1. k \in 1 .. j - 1
            BY <1>1, <1>2, <2>2, <3>1, <5>1
          <6>2. QED BY <1>2, <2>2, <5>1, <6>1 DEF Agree
        <5>2. QED BY <5>1 DEF Agree
      <4>7. QED BY <1>2, <3>1, <4>1, <4>4, <4>5, <4>6 DEF Newer
    <3>2. CASE j < i
      <4>1. j \in 1 .. Len(a) /\ a[j] > c[j]
        BY <1>1, <1>2, <2>2, <3>2 DEF Agree
      <4>2. QED BY <1>1, <1>2, <2>2, <3>2, <4>1 DEF Newer, Agree
    <3>3. QED BY <1>1, <3>1, <3>2
  <2>3. QED BY <2>1, <2>2 DEF Newer
<1>3. ASSUME Len(a) > Len(b), Agree(a, b, Len(b))
      PROVE  Newer(a, c)
  <2>1. CASE Len(b) > Len(c) /\ Agree(b, c, Len(c))
    BY <1>1, <1>3, <2>1 DEF Newer, Agree
  <2>2. ASSUME NEW j \in 1 .. Len(b), j <= Len(c), b[j] > c[j], Agree(b, c, j - 1)
        PROVE  Newer(a, c)
    <3>1. j \in 1 .. Len(a) /\ a[j] > c[j]
      BY <1>1, <1>3, <2>2 DEF Agree
    <3>2. Agree(a, c, j - 1)
      BY <1>1, <1>3, <2>2 DEF Agree
    <3>3. QED BY <2>2, <3>1, <3>2 DEF Newer
  <2>3. QED BY <2>1, <2>2 DEF Newer
<1>4. QED BY <1>2, <1>3 DEF Newer

-----------------------------------------------------------------------------
(* The inductive invariant, when no offer overlaps an update. *)

LEMMA OtaInitially == Delivered => OtaInv
<1> SUFFICES ASSUME Delivered PROVE OtaInv
  OBVIOUS
<1> USE OtaAssumption DEF OtaAssumption, Delivered, Live, NoJob
<1>1. OtaTypeOK
  BY DEF OtaTypeOK, Offer, Slot, Pc, Blank
<1>2. OneAtWork /\ Selected /\ ReadyIsChecked
  BY DEF OneAtWork, Selected, ReadyIsChecked, Finished
<1>3. QED BY <1>1, <1>2 DEF OtaInv

(* A restart leaves nothing in RAM.                                         *)
LEMMA ResetClears ==
  ASSUME OtaTypeOK, Reset
  PROVE  /\ phase' = "off" /\ state' = "IDLE" /\ pending' \in Offer
         /\ where' = [c \in Callers |-> "idle"] /\ info' \in [Callers -> Offer]
         /\ job' = [t \in Tasks |-> NoJob] /\ job' \in [Tasks -> [pc : Pc, url : Versions \cup {Blank}]]
         /\ \A t \in Tasks : ~Live(t)' /\ ~Finished(t)'
         /\ OneAtWork' /\ Selected' /\ ReadyIsChecked'
<1>1. pending' \in Offer
  BY OtaAssumption DEF OtaAssumption, Reset, Offer
<1>2. job' \in [Tasks -> [pc : Pc, url : Versions \cup {Blank}]]
  BY DEF Reset, NoJob, Pc
<1>3. \A t \in Tasks : ~Live(t)' /\ ~Finished(t)'
  BY DEF Reset, Live, NoJob, Finished
<1>4. QED
  BY <1>1, <1>2, <1>3 DEF Reset, OneAtWork, Selected, ReadyIsChecked, NoJob, Live

(* A step of start().                                                       *)
LEMMA CallersKeep ==
  ASSUME Overlap = FALSE, OtaInv, NEW c \in Callers,
         Offered(c) \/ OtherOffer(c) \/ StartGoesOn(c)
  PROVE  OtaInv'
<1> USE OtaAssumption DEF OtaAssumption, OtaInv
<1>1. ASSUME NEW o \in Offer, Trigger(c, o), faults' \in 0 .. MaxFaults
      PROVE  OtaInv'
  <2>1. \A t \in Tasks : ~Live(t)
    <3>1. state \notin {"AVAILABLE", "DOWNLOADING", "VERIFYING", "READY"}
      BY <1>1 DEF Trigger, Fits, InProgress
    <3>2. \A p \in Pc \ {"none"} : StateAt[p] \in {"AVAILABLE", "DOWNLOADING", "VERIFYING", "READY"}
      BY DEF Pc, StateAt
    <3>3. \A t \in Tasks : job[t].pc \in Pc
      BY DEF OtaTypeOK
    <3>4. QED BY <3>1, <3>2, <3>3 DEF OneAtWork, Live
  <2>2. OtaTypeOK'
    BY <1>1 DEF Trigger, OtaTypeOK, slots
  <2>3. OneAtWork'
    BY <1>1, <2>1 DEF Trigger, OneAtWork, OtaTypeOK, slots, Live, Fits
  <2>4. Selected' /\ ReadyIsChecked'
    BY <1>1 DEF Trigger, Selected, ReadyIsChecked, Finished, slots, Other
  <2>5. QED BY <2>2, <2>3, <2>4
<1>2. CASE Offered(c)
  <2>1. [version |-> Newest, sum |-> TRUE] \in Offer
    BY DEF Offer
  <2>2. QED BY <1>1, <1>2, <2>1 DEF Offered, OtaTypeOK
<1>3. CASE OtherOffer(c)
  BY <1>1, <1>3 DEF OtherOffer, Fault, OtaTypeOK
<1>4. ASSUME where[c] # "idle"
      PROVE  \A t \in Tasks : ~Live(t) /\ ~Finished(t)
  BY <1>4 DEF OneAtWork, Live, Finished
<1>5. CASE Copy(c)
  <2>1. OtaTypeOK'
    BY <1>5 DEF Copy, OtaTypeOK, slots
  <2>2. OneAtWork'
    BY <1>5 DEF Copy, OneAtWork, OtaTypeOK, slots, Live
  <2>3. Selected' /\ ReadyIsChecked'
    BY <1>4, <1>5 DEF Copy, Selected, ReadyIsChecked, Finished, slots, Other
  <2>4. QED BY <2>1, <2>2, <2>3
<1>6. CASE Announce(c)
  <2>1. OtaTypeOK'
    BY <1>6 DEF Announce, OtaTypeOK, slots
  <2>2. OneAtWork'
    BY <1>4, <1>6 DEF Announce, OneAtWork, OtaTypeOK, slots, Live
  <2>3. Selected' /\ ReadyIsChecked'
    BY <1>6 DEF Announce, Selected, ReadyIsChecked, Finished, slots, Other
  <2>4. QED BY <2>1, <2>2, <2>3
<1>7. ASSUME NEW t \in Tasks, Create(c, t)
      PROVE  OtaInv'
  <2>1. OtaTypeOK'
    BY <1>7 DEF Create, OtaTypeOK, slots, Pc
  <2>2. job'[t].pc = "start" /\ \A u \in Tasks : u # t => job'[u] = job[u]
    BY <1>7 DEF Create, OtaTypeOK
  <2>3. OneAtWork'
    BY <1>4, <1>7, <2>2 DEF Create, OneAtWork, OtaTypeOK, slots, Live, StateAt
  <2>4. Selected' /\ ReadyIsChecked'
    BY <1>4, <1>7, <2>2 DEF Create, Selected, ReadyIsChecked, Finished, slots, Other
  <2>5. QED BY <2>1, <2>3, <2>4
<1>8. CASE CreateFails(c)
  <2>1. OtaTypeOK'
    BY <1>8 DEF CreateFails, Fault, OtaTypeOK, slots
  <2>2. OneAtWork'
    BY <1>4, <1>8 DEF CreateFails, OneAtWork, OtaTypeOK, slots, Live
  <2>3. Selected' /\ ReadyIsChecked'
    BY <1>8 DEF CreateFails, Selected, ReadyIsChecked, Finished, slots, Other
  <2>4. QED BY <2>1, <2>2, <2>3
<1>9. QED BY <1>2, <1>3, <1>5, <1>6, <1>7, <1>8 DEF StartGoesOn

(* A task that goes on to its next step stays a task.                       *)
LEMMA JobTypes ==
  ASSUME OtaTypeOK, NEW t \in Tasks, NEW p \in Pc, job' = [job EXCEPT ![t].pc = p]
  PROVE  job' \in [Tasks -> [pc : Pc, url : Versions \cup {Blank}]]
BY DEF OtaTypeOK

(* A step of the task keeps the types.                                      *)
LEMMA TaskTypes ==
  ASSUME OtaTypeOK, NEW t \in Tasks, Download(t)
  PROVE  OtaTypeOK'
<1> USE OtaAssumption DEF OtaAssumption
<1>1. Other \in Slot
  BY DEF OtaTypeOK, Other, Slot
<1>2. NoJob \in [pc : Pc, url : Versions \cup {Blank}]
  BY DEF NoJob, Pc
<1>3. CASE TaskStarts(t)
  <2>1. [pc |-> "begin", url |-> pending.version] \in [pc : Pc, url : Versions \cup {Blank}]
    BY DEF OtaTypeOK, Offer, Pc
  <2>2. QED BY <1>3, <2>1 DEF TaskStarts, OtaTypeOK, start, slots
<1>4. CASE Begin(t)
  <2>1. job' = [job EXCEPT ![t].pc = "perform"] /\ "perform" \in Pc
    BY <1>4 DEF Begin, Pc
  <2>2. job' \in [Tasks -> [pc : Pc, url : Versions \cup {Blank}]]
    BY <2>1, JobTypes
  <2>3. QED BY <1>1, <1>4, <2>2 DEF Begin, OtaTypeOK, start
<1>5. CASE Perform(t)
  <2>1. flash' \in [Slot -> Versions \cup {Blank}] /\ faults' \in 0 .. MaxFaults
    BY <1>1, <1>5 DEF Perform, OtaTypeOK, Fault
  <2>2. altered' \subseteq Slot
    BY <1>1, <1>5 DEF Perform, OtaTypeOK
  <2>3. job' = [job EXCEPT ![t].pc = "finish"] /\ "finish" \in Pc
    BY <1>5 DEF Perform, Pc
  <2>4. job' \in [Tasks -> [pc : Pc, url : Versions \cup {Blank}]]
    BY <2>3, JobTypes
  <2>5. QED BY <1>5, <2>1, <2>2, <2>4 DEF Perform, OtaTypeOK, start
<1>6. CASE Finish(t)
  <2>1. job' = [job EXCEPT ![t].pc = "compare"] /\ "compare" \in Pc
    BY <1>6 DEF Finish, Pc
  <2>2. job' \in [Tasks -> [pc : Pc, url : Versions \cup {Blank}]]
    BY <2>1, JobTypes
  <2>3. QED BY <1>1, <1>6, <2>2 DEF Finish, OtaTypeOK, start
<1>7. CASE Fails(t)
  <2>1. faults' \in 0 .. MaxFaults
    BY <1>7 DEF Fails, OtaTypeOK, Fault
  <2>2. QED BY <1>2, <1>7, <2>1 DEF Fails, OtaTypeOK, start, slots
<1>8. CASE Match(t)
  <2>1. job' = [job EXCEPT ![t].pc = "ready"] /\ "ready" \in Pc
    BY <1>8 DEF Match, Pc
  <2>2. job' \in [Tasks -> [pc : Pc, url : Versions \cup {Blank}]]
    BY <2>1, JobTypes
  <2>3. QED BY <1>8, <2>2 DEF Match, OtaTypeOK, start, slots
<1>9. CASE Mismatch(t)
  <2>1. faults' \in 0 .. MaxFaults
    BY <1>9 DEF Mismatch, OtaTypeOK, Fault
  <2>2. QED BY <1>1, <1>2, <1>9, <2>1 DEF Mismatch, Deselect, OtaTypeOK, start
<1>10. CASE Ready(t)
  <2>1. job' = [job EXCEPT ![t].pc = "sleep"] /\ "sleep" \in Pc
    BY <1>10 DEF Ready, Pc
  <2>2. job' \in [Tasks -> [pc : Pc, url : Versions \cup {Blank}]]
    BY <2>1, JobTypes
  <2>3. QED BY <1>10, <2>2 DEF Ready, OtaTypeOK, start, slots
<1>11. CASE Restarts(t)
  BY <1>11, ResetClears DEF Restarts, Reset, OtaTypeOK
<1>12. QED
  BY <1>3, <1>4, <1>5, <1>6, <1>7, <1>8, <1>9, <1>10, <1>11 DEF Download

(* A step of the task: the others are not at work, so what it finds is what *)
(* it has left.                                                             *)
LEMMA TasksKeep ==
  ASSUME SelectFails = FALSE, OtaInv, NEW t \in Tasks, Download(t)
  PROVE  OtaInv'
<1> USE DEF OtaInv
<1>1. OtaTypeOK'
  BY TaskTypes
<1>2. CASE Restarts(t)
  BY <1>1, <1>2, ResetClears DEF Restarts
<1>3. Live(t)
  BY DEF Download, TaskStarts, Begin, Perform, Finish, Fails, Match, Mismatch, Ready,
         Restarts, Live
<1>4. /\ \A u \in Tasks : u # t => job[u].pc = "none"
      /\ \A c \in Callers : where[c] = "idle"
      /\ phase = "up" /\ state = StateAt[job[t].pc]
  BY <1>3 DEF OneAtWork, Live
<1> DEFINE Goto(p, s) == /\ job'[t].pc = p /\ state' = s
                         /\ \A u \in Tasks : u # t => job'[u].pc = "none"
                         /\ where' = where /\ phase' = phase /\ running' = running
<1>5. ASSUME NEW p \in Pc, NEW s, Goto(p, s), p = "none" \/ StateAt[p] = s
      PROVE  OneAtWork'
  BY <1>4, <1>5 DEF OneAtWork, Live, Pc
<1>6. ASSUME NEW p \in {"begin", "perform", "finish"}, job'[t].pc = p \/ job'[t].pc = "none",
             \A u \in Tasks : u # t => job'[u].pc = "none",
             phase' = phase, running' = running, boot' = running
      PROVE  Selected' /\ ReadyIsChecked'
  BY <1>4, <1>6 DEF Selected, ReadyIsChecked, Finished
<1>7. ~Finished(t) => boot = running
  BY <1>4 DEF Selected, Finished
<1>8. CASE TaskStarts(t)
  <2>1. Goto("begin", "DOWNLOADING") /\ boot' = boot
    BY <1>4, <1>8 DEF TaskStarts, OtaTypeOK, start, slots
  <2>2. QED BY <1>1, <1>5, <1>6, <1>7, <1>8, <2>1 DEF TaskStarts, Finished, Pc, StateAt
<1>9. CASE Begin(t)
  <2>1. Goto("perform", "DOWNLOADING") /\ boot' = boot
    BY <1>4, <1>9 DEF Begin, OtaTypeOK, start, StateAt
  <2>2. QED BY <1>1, <1>5, <1>6, <1>7, <1>9, <2>1 DEF Begin, Finished, Pc, StateAt
<1>10. CASE Perform(t)
  <2>1. Goto("finish", "VERIFYING") /\ boot' = boot
    BY <1>4, <1>10 DEF Perform, OtaTypeOK, start
  <2>2. QED BY <1>1, <1>5, <1>6, <1>7, <1>10, <2>1 DEF Perform, Finished, Pc, StateAt
<1>11. CASE Finish(t)
  <2>1. Goto("compare", "VERIFYING") /\ boot' = Other
    BY <1>4, <1>11 DEF Finish, OtaTypeOK, start, StateAt
  <2>2. OneAtWork'
    BY <1>5, <2>1 DEF Pc, StateAt
  <2>3. Selected' /\ ReadyIsChecked'
    BY <1>4, <2>1 DEF Selected, ReadyIsChecked, Finished, Other
  <2>4. QED BY <1>1, <2>2, <2>3
<1>12. CASE Fails(t)
  <2>1. Goto("none", "FAILED") /\ boot' = boot
    BY <1>4, <1>12 DEF Fails, OtaTypeOK, start, slots, NoJob
  <2>2. QED BY <1>1, <1>5, <1>6, <1>7, <1>12, <2>1 DEF Fails, Finished, Pc
<1>13. CASE Match(t)
  <2>1. Goto("ready", "VERIFYING") /\ UNCHANGED <<pending, slots>>
    BY <1>4, <1>13 DEF Match, OtaTypeOK, start, slots, StateAt
  <2>2. OneAtWork'
    BY <1>5, <2>1 DEF Pc, StateAt
  <2>3. boot = Other
    BY <1>13 DEF Match, Selected, Finished
  <2>4. Selected'
    BY <1>4, <2>1, <2>3 DEF Selected, Finished, Other, slots
  <2>5. ReadyIsChecked'
    BY <1>13, <2>1, <2>3 DEF Match, ReadyIsChecked, Other, slots
  <2>6. QED BY <1>1, <2>2, <2>4, <2>5
<1>14. CASE Mismatch(t)
  <2>1. Goto("none", "FAILED") /\ boot' = running
    BY <1>4, <1>14 DEF Mismatch, Deselect, OtaTypeOK, start, NoJob
  <2>2. QED BY <1>1, <1>5, <1>6, <2>1 DEF Pc
<1>15. CASE Ready(t)
  <2>1. Goto("sleep", "READY") /\ UNCHANGED <<pending, slots>>
    BY <1>4, <1>15 DEF Ready, OtaTypeOK, start, slots
  <2>2. OneAtWork'
    BY <1>5, <2>1 DEF Pc, StateAt
  <2>3. boot = Other /\ (pending.sum => flash[boot] = pending.version)
    BY <1>15 DEF Ready, ReadyIsChecked
  <2>4. Selected' /\ ReadyIsChecked'
    BY <1>4, <2>1, <2>3 DEF Selected, ReadyIsChecked, Finished, Other, slots
  <2>5. QED BY <1>1, <2>2, <2>4
<1>16. QED
  BY <1>2, <1>8, <1>9, <1>10, <1>11, <1>12, <1>13, <1>14, <1>15 DEF Download

(* Restarts, power cuts, rollbacks and boots.                               *)
LEMMA BootsKeep ==
  ASSUME OtaInv, Reboot \/ Rollback \/ PowerCut \/ Boot \/ BootFails \/ OtaInit
  PROVE  OtaInv'
<1> USE DEF OtaInv
<1>1. CASE Reboot \/ PowerCut \/ BootFails
  <2>1. Reset /\ UNCHANGED <<boot, img>> /\ faults' \in 0 .. MaxFaults
    BY <1>1, OtaAssumption DEF OtaAssumption, Reboot, PowerCut, BootFails, Fault, OtaTypeOK
  <2>2. OtaTypeOK'
    BY <2>1, ResetClears DEF Reset, OtaTypeOK
  <2>3. QED BY <2>1, <2>2, ResetClears
<1>2. CASE Rollback
  <2>1. Reset /\ faults' \in 0 .. MaxFaults /\ Other \in Slot
    BY <1>2, OtaAssumption DEF OtaAssumption, Rollback, Fault, OtaTypeOK, Other, Slot
  <2>2. OtaTypeOK'
    BY <1>2, <2>1, ResetClears DEF Rollback, Reset, OtaTypeOK
  <2>3. QED BY <2>1, <2>2, ResetClears
<1>3. CASE Boot
  <2>1. boot' \in Slot /\ running' = boot' /\ phase' = "booting"
    BY <1>3 DEF Boot, OtaTypeOK, Slot
  <2>2. img' \in [Slot -> {"new", "pending", "valid", "invalid"}]
    BY <1>3 DEF Boot, OtaTypeOK, Slot
  <2>3. OtaTypeOK'
    BY <1>3, <2>1, <2>2 DEF Boot, OtaTypeOK, start
  <2>4. \A t \in Tasks : job'[t].pc = "none"
    BY <1>3 DEF Boot, OneAtWork, Live
  <2>5. OneAtWork'
    BY <1>3 DEF Boot, OneAtWork, Live, start
  <2>6. Selected' /\ ReadyIsChecked'
    BY <2>1, <2>4 DEF Selected, ReadyIsChecked, Finished
  <2>7. QED BY <2>3, <2>5, <2>6
<1>4. CASE OtaInit
  <2>1. OtaTypeOK'
    BY <1>4 DEF OtaInit, OtaTypeOK, start
  <2>2. \A t \in Tasks : job'[t].pc = "none"
    BY <1>4 DEF OtaInit, OneAtWork, Live
  <2>3. OneAtWork'
    BY <1>4, <2>2 DEF OtaInit, OneAtWork, Live, start
  <2>4. Selected' /\ ReadyIsChecked'
    BY <1>4, <2>2 DEF OtaInit, Selected, ReadyIsChecked, Finished
  <2>5. QED BY <2>1, <2>3, <2>4
<1>5. QED BY <1>1, <1>2, <1>3, <1>4

(* A step of the update.                                                    *)
LEMMA OtaStep ==
  ASSUME Overlap = FALSE, SelectFails = FALSE, OtaInv, [OtaNext]_vars
  PROVE  OtaInv'
<1>1. CASE UNCHANGED vars
  BY <1>1 DEF vars, start, slots, OtaInv, OtaTypeOK, OneAtWork, Selected, ReadyIsChecked, Live, Finished, Other
<1>2. CASE OtaNext
  BY <1>2, CallersKeep, TasksKeep, BootsKeep DEF OtaNext
<1>3. QED BY <1>1, <1>2

(* What the invariant says of an update that is over.                       *)
LEMMA OtaMeans == OtaInv => FailedKeepsFirmware
BY DEF OtaInv, Selected, FailedKeepsFirmware, Finished, Live

(* One update at a time, the state that says how far it is, and the boot    *)
(* selection that goes with it: in every reachable state.                   *)
THEOREM OtaInvariant ==
  Overlap = FALSE /\ SelectFails = FALSE => (OtaSpec => []OtaInv)
<1> SUFFICES ASSUME Overlap = FALSE, SelectFails = FALSE PROVE OtaSpec => []OtaInv
  OBVIOUS
<1>1. OtaInv /\ [OtaNext]_vars => OtaInv'
  BY OtaStep
<1>2. QED BY <1>1, OtaInitially, PTL DEF OtaSpec

(* A second task never runs beside the first.                               *)
THEOREM OneUpdate ==
  Overlap = FALSE /\ SelectFails = FALSE => (OtaSpec => []OneUpdateAtATime)
<1> SUFFICES ASSUME Overlap = FALSE, SelectFails = FALSE PROVE OtaSpec => []OneUpdateAtATime
  OBVIOUS
<1>1. OtaInv => OneUpdateAtATime
  BY DEF OtaInv, OneAtWork, OneUpdateAtATime
<1>2. QED BY <1>1, OtaInvariant, PTL

(* The restart goes to the image the offer names, with the checksum it      *)
(* names.                                                                   *)
THEOREM RestartIsChecked ==
  Overlap = FALSE /\ SelectFails = FALSE => (OtaSpec => []ReadyIsChecked)
<1> SUFFICES ASSUME Overlap = FALSE, SelectFails = FALSE PROVE OtaSpec => []ReadyIsChecked
  OBVIOUS
<1>1. OtaInv => ReadyIsChecked
  BY DEF OtaInv
<1>2. QED BY <1>1, OtaInvariant, PTL

(* An update that failed leaves the running firmware selected, as long as    *)
(* esp_ota_set_boot_partition succeeds (pulsync_ota.c:462, 470).             *)
THEOREM FirmwareIsKept ==
  Overlap = FALSE /\ SelectFails = FALSE => (OtaSpec => []FailedKeepsFirmware)
<1> SUFFICES ASSUME Overlap = FALSE, SelectFails = FALSE PROVE OtaSpec => []FailedKeepsFirmware
  OBVIOUS
<1>1. QED BY OtaMeans, OtaInvariant, PTL
-----------------------------------------------------------------------------
(* The token, with a prudent server.                                        *)

(* A token in use is one the server accepts, and NVS has the same one; when *)
(* the server has been shown the newest, that is the one in use.            *)
TokenInv ==
  /\ kept = request /\ request <= newest
  /\ password <= request
  /\ connected => password # 0
  /\ password # 0 => confirmed /\ password \in valid
  /\ enrollment = "done" => request \in valid
  /\ enrollment = "enroll" => request = 0
  /\ shown /\ enrollment = "done" => request = newest
  /\ shown /\ password # 0 => password = newest

LEMMA RotationConstants ==
  MaxTokens \in Nat \ {0} /\ MaxDrops \in Nat /\ MaxResets \in Nat
BY ServerAssumption DEF Prudent!RotationAssumption

(* The types, those of the flags apart. *)
TokenNumbers ==
  /\ kept \in 0 .. MaxTokens /\ request \in 0 .. MaxTokens /\ ram \in 0 .. MaxTokens
  /\ password \in 0 .. MaxTokens /\ newest \in 0 .. MaxTokens
  /\ enrollment \in {"enroll", "done"} /\ valid \subseteq 1 .. newest
  /\ drops \in 0 .. MaxDrops /\ resets \in 0 .. MaxResets
  /\ enrollment = "done" => request # 0

TokenFlags == connected \in BOOLEAN /\ confirmed \in BOOLEAN /\ shown \in BOOLEAN

LEMMA RotationTypes == Prudent!RotationTypeOK <=> TokenNumbers /\ TokenFlags
<1>1. {kept, request, ram, password, newest} \subseteq 0 .. MaxTokens
      <=> /\ kept \in 0 .. MaxTokens /\ request \in 0 .. MaxTokens /\ ram \in 0 .. MaxTokens
          /\ password \in 0 .. MaxTokens /\ newest \in 0 .. MaxTokens
  OBVIOUS
<1>2. QED BY <1>1, Zenon DEF Prudent!RotationTypeOK, TokenNumbers, TokenFlags

LEMMA TokensStart == Prudent!RotationInit => TokenNumbers /\ TokenFlags /\ TokenInv
<1> SUFFICES ASSUME Prudent!RotationInit PROVE TokenNumbers /\ TokenFlags /\ TokenInv
  OBVIOUS
<1>1. TokenNumbers
  BY RotationConstants DEF Prudent!RotationInit, TokenNumbers
<1>2. TokenFlags
  BY Zenon DEF Prudent!RotationInit, TokenFlags
<1>3. TokenInv
  BY DEF Prudent!RotationInit, TokenInv
<1>4. QED BY <1>1, <1>2, <1>3

(* What a step of either server does to the tokens. *)
LEMMA NumbersKept ==
  ASSUME TokenNumbers, Prudent!RotationNext \/ Abrupt!RotationNext
  PROVE  TokenNumbers'
<1> USE RotationConstants DEF TokenNumbers
<1>1. ASSUME newest < MaxTokens, newest' = newest + 1, valid' = valid \cup {newest'}
      PROVE  newest' \in 1 .. MaxTokens /\ valid' \subseteq 1 .. newest'
  BY <1>1
<1>2. CASE Prudent!Enroll \/ Abrupt!Enroll
  <2>1. /\ newest < MaxTokens /\ newest' = newest + 1 /\ valid' = {newest'} /\ enrollment' = "done"
        /\ kept' = newest' /\ request' = newest' /\ ram' = newest'
        /\ password' = password /\ drops' = drops /\ resets' = resets
    BY <1>2 DEF Prudent!Enroll, Abrupt!Enroll, Prudent!Bounded, Abrupt!Bounded
  <2>2. newest' \in 1 .. MaxTokens
    BY <2>1
  <2>3. QED BY <2>1, <2>2
<1>3. CASE Prudent!ProbeAccepted \/ Abrupt!ProbeAccepted
  <2>1. /\ ram' = ram /\ password' = password /\ drops' = drops /\ resets' = resets
        /\ enrollment = "done" /\ enrollment' = enrollment
        /\ \/ valid' = valid /\ newest' = newest /\ kept' = kept /\ request' = request
           \/ /\ newest < MaxTokens /\ newest' = newest + 1 /\ valid' = valid \cup {newest'}
              /\ kept' \in {kept, newest'} /\ request' = newest'
    BY <1>3
    DEF Prudent!ProbeAccepted, Abrupt!ProbeAccepted, Prudent!Bounded, Abrupt!Bounded, Prudent!Grant, Abrupt!Grant,
        Prudent!Sees, Abrupt!Sees, Prudent!StoreNew, Abrupt!StoreNew, Prudent!UseNew, Abrupt!UseNew
  <2>2. CASE valid' = valid /\ newest' = newest /\ kept' = kept /\ request' = request
    BY <2>1, <2>2
  <2>3. CASE /\ newest < MaxTokens /\ newest' = newest + 1 /\ valid' = valid \cup {newest'}
             /\ kept' \in {kept, newest'} /\ request' = newest'
    BY <1>1, <2>1, <2>3
  <2>4. QED BY <2>1, <2>2, <2>3
<1>4. CASE Prudent!Recover \/ Abrupt!Recover
  <2>1. /\ kept' = 0 /\ request' = 0 /\ ram' = 0 /\ password' = 0 /\ enrollment' = "enroll"
        /\ UNCHANGED <<valid, newest, drops, resets>>
    BY <1>4 DEF Prudent!Recover, Abrupt!Recover, Prudent!Forget, Abrupt!Forget, Prudent!Bounded, Abrupt!Bounded
  <2>2. QED BY <2>1
<1>5. CASE Prudent!Start \/ Abrupt!Start
  BY <1>5 DEF Prudent!Start, Abrupt!Start, Prudent!Bounded, Abrupt!Bounded
<1>6. CASE Prudent!Connect \/ Abrupt!Connect
  BY <1>6 DEF Prudent!Connect, Abrupt!Connect, Prudent!Bounded, Abrupt!Bounded, Prudent!Sees, Abrupt!Sees
<1>7. CASE Prudent!Rotated \/ Abrupt!Rotated
  <2>1. /\ ram' = ram /\ password' = password /\ drops' = drops /\ resets' = resets
        /\ enrollment = "done" /\ enrollment' = enrollment
        /\ newest < MaxTokens /\ newest' = newest + 1 /\ valid' = valid \cup {newest'}
        /\ kept' \in {kept, newest'} /\ request' = newest'
    BY <1>7
    DEF Prudent!Rotated, Abrupt!Rotated, Prudent!Bounded, Abrupt!Bounded, Prudent!Grant, Abrupt!Grant,
        Prudent!StoreNew, Abrupt!StoreNew, Prudent!UseNew, Abrupt!UseNew
  <2>2. QED BY <1>1, <2>1
<1>8. CASE Prudent!RotationLost \/ Abrupt!RotationLost
  <2>1. /\ UNCHANGED <<kept, request, ram, password, enrollment, resets>>
        /\ newest < MaxTokens /\ newest' = newest + 1 /\ valid' = valid \cup {newest'}
        /\ drops < MaxDrops /\ drops' = drops + 1
    BY <1>8
    DEF Prudent!RotationLost, Abrupt!RotationLost, Prudent!Grant, Abrupt!Grant, Prudent!device, Abrupt!device
  <2>2. QED BY <1>1, <2>1
<1>9. CASE Prudent!Withdraw \/ Abrupt!Withdraw
  BY <1>9 DEF Prudent!Withdraw, Abrupt!Withdraw, Prudent!device, Abrupt!device, Prudent!Bounded, Abrupt!Bounded
<1>10. CASE Prudent!ProbeFails \/ Abrupt!ProbeFails \/ Prudent!LinkLost \/ Abrupt!LinkLost
  <2>1. /\ UNCHANGED <<kept, request, ram, password, enrollment, valid, newest, resets>>
        /\ drops < MaxDrops /\ drops' = drops + 1
    BY <1>10
    DEF Prudent!ProbeFails, Abrupt!ProbeFails, Prudent!device, Abrupt!device, Prudent!LinkLost, Abrupt!LinkLost
  <2>2. QED BY <2>1
<1>11. CASE Prudent!Restart \/ Abrupt!Restart
  <2>1. /\ resets < MaxResets /\ resets' = resets + 1 /\ UNCHANGED <<kept, valid, newest, drops>>
        /\ request' = kept /\ ram' = kept /\ password' = 0
        /\ enrollment' = IF kept = 0 THEN "enroll" ELSE "done"
    BY <1>11 DEF Prudent!Restart, Abrupt!Restart, Prudent!BootState, Abrupt!BootState
  <2>2. QED BY <2>1
<1>12. QED
  BY <1>2, <1>3, <1>4, <1>5, <1>6, <1>7, <1>8, <1>9, <1>10, <1>11
  DEF Prudent!RotationNext, Abrupt!RotationNext, Prudent!Progress, Abrupt!Progress,
      Prudent!ProbeRefused, Abrupt!ProbeRefused, Prudent!ConnectRefused, Abrupt!ConnectRefused

LEMMA FlagsKept ==
  ASSUME TokenFlags, Prudent!RotationNext \/ Abrupt!RotationNext
  PROVE  TokenFlags'
BY Zenon
DEF TokenFlags, Prudent!RotationNext, Abrupt!RotationNext, Prudent!Progress, Abrupt!Progress,
    Prudent!Enroll, Abrupt!Enroll, Prudent!ProbeAccepted, Abrupt!ProbeAccepted, Prudent!Sees, Abrupt!Sees,
    Prudent!Grant, Abrupt!Grant, Prudent!ProbeRefused, Abrupt!ProbeRefused, Prudent!Recover, Abrupt!Recover,
    Prudent!Start, Abrupt!Start, Prudent!Connect, Abrupt!Connect, Prudent!ConnectRefused, Abrupt!ConnectRefused,
    Prudent!Rotated, Abrupt!Rotated, Prudent!RotationLost, Abrupt!RotationLost, Prudent!device, Abrupt!device,
    Prudent!Withdraw, Abrupt!Withdraw, Prudent!ProbeFails, Abrupt!ProbeFails, Prudent!LinkLost, Abrupt!LinkLost,
    Prudent!Restart, Abrupt!Restart

(* A step with a prudent server: no token in use is refused, so none is     *)
(* erased.                                                                  *)
LEMMA TokensKept ==
  ASSUME TokenNumbers, TokenInv, Prudent!RotationNext
  PROVE  TokenInv' /\ (request # 0 => request' # 0)
<1> USE DEF TokenNumbers, TokenInv
<1>1. CASE Prudent!Enroll
  BY <1>1 DEF Prudent!Enroll
<1>2. CASE Prudent!ProbeAccepted
  <2>1. password = 0
    BY <1>2 DEF Prudent!ProbeAccepted
  <2>2. CASE Prudent!Sees(request) /\ UNCHANGED <<kept, request>>
    BY <1>2, <2>1, <2>2 DEF Prudent!ProbeAccepted, Prudent!Sees
  <2>3. CASE Prudent!Grant /\ Prudent!StoreNew(newest') /\ Prudent!UseNew(newest')
    <3>1. newest' = newest + 1 /\ newest' \in valid' /\ ~shown' /\ kept' = newest' /\ request' = newest'
      BY <2>3 DEF Prudent!Grant, Prudent!StoreNew, Prudent!UseNew
    <3>2. QED BY <1>2, <2>1, <3>1 DEF Prudent!ProbeAccepted
  <2>4. QED BY <1>2, <2>2, <2>3 DEF Prudent!ProbeAccepted
<1>3. CASE Prudent!ProbeRefused
  BY <1>3 DEF Prudent!ProbeRefused
<1>4. CASE Prudent!ConnectRefused
  BY <1>4 DEF Prudent!ConnectRefused
<1>5. CASE Prudent!Start
  BY <1>5 DEF Prudent!Start
<1>6. CASE Prudent!Connect
  <2>1. /\ password # 0 /\ password \in valid /\ (shown' => shown \/ password = newest)
        /\ UNCHANGED <<kept, request, password, confirmed, enrollment, valid, newest>>
    BY <1>6, Zenon DEF Prudent!Connect, Prudent!Sees
  <2>2. QED BY <2>1
<1>7. CASE Prudent!Rotated
  <2>1. newest' = newest + 1 /\ newest' \in valid' /\ valid \subseteq valid' /\ ~shown'
        /\ kept' = newest' /\ request' = newest'
    BY <1>7 DEF Prudent!Rotated, Prudent!Grant, Prudent!StoreNew, Prudent!UseNew
  <2>2. QED BY <1>7, <2>1 DEF Prudent!Rotated
<1>8. CASE Prudent!RotationLost
  BY <1>8 DEF Prudent!RotationLost, Prudent!Grant, Prudent!device
<1>9. CASE Prudent!Withdraw
  BY <1>9 DEF Prudent!Withdraw, Prudent!device
<1>10. CASE Prudent!ProbeFails
  BY <1>10 DEF Prudent!ProbeFails, Prudent!device
<1>11. CASE Prudent!LinkLost
  BY <1>11 DEF Prudent!LinkLost
<1>12. CASE Prudent!Restart
  BY <1>12 DEF Prudent!Restart, Prudent!BootState
<1>13. QED
  BY <1>1, <1>2, <1>3, <1>4, <1>5, <1>6, <1>7, <1>8, <1>9, <1>10, <1>11, <1>12
  DEF Prudent!RotationNext, Prudent!Progress

-----------------------------------------------------------------------------
(* The restart on command.                                                  *)

(* Ticks to go until the restart is due.                                    *)
ToGo == (reboot_at - clock) % Wrap

(* Before the message has been handled no restart is due.  After it, what   *)
(* is left of the delay, and what has passed since the handler, make a      *)
(* whole delay; or the restart is due, and loop() is about to see it.       *)
RestartInv ==
  /\ at \in {"idle", "match", "handler", "builtin"}
  /\ received \in {0, 1} /\ (at # "idle" => received = 1)
  /\ received = 0 => reboot_at = 0
  /\ at # "idle" => reboot_at = 0
  /\ reboot_at \in 0 .. Wrap - 1 /\ clock \in 0 .. Wrap - 1 /\ since \in 0 .. Delay
  /\ reboot_at # 0 =>
       \/ ToGo \in 1 .. Delay /\ since + ToGo >= Delay
       \/ Rebooter!Late \in 0 .. Slow /\ since >= Delay

LEMMA RebootConstants ==
  /\ Delay \in Nat \ {0} /\ Slow \in Nat /\ Wrap \in Nat \ {0} /\ 2 * (Delay + Slow) < Wrap
BY ServerAssumption DEF Rebooter!CommandsAssumption

(* A difference modulo W of two numbers below W. *)
LEMMA ModDiff ==
  ASSUME NEW W \in Nat \ {0}, NEW x \in 0 .. W - 1, NEW y \in 0 .. W - 1
  PROVE  (x - y) % W = IF x >= y THEN x - y ELSE x - y + W
OBVIOUS

(* A step of the clock. *)
LEMMA NextTick ==
  ASSUME NEW W \in Nat \ {0}, NEW x \in 0 .. W - 1
  PROVE  (x + 1) % W = IF x = W - 1 THEN 0 ELSE x + 1
OBVIOUS

LEMMA SoonIs ==
  ASSUME NEW W \in Nat \ {0}, NEW x \in 0 .. W - 1, NEW d \in 0 .. W - 1
  PROVE  (x + d) % W = IF x + d < W THEN x + d ELSE x + d - W
OBVIOUS

LEMMA LesserIs ==
  ASSUME NEW x \in Int, NEW y \in Int
  PROVE  Rebooter!Min({x, y}) = IF x <= y THEN x ELSE y
<1> DEFINE m == IF x <= y THEN x ELSE y
<1>1. m \in {x, y} /\ \A z \in {x, y} : m <= z
  OBVIOUS
<1>2. \A u \in {x, y} : (\A z \in {x, y} : u <= z) => u = m
  OBVIOUS
<1>3. QED BY <1>1, <1>2 DEF Rebooter!Min

(* The ticks to go, and those that loop() is late, as the clock goes on.    *)
LEMMA Passes ==
  ASSUME NEW W \in Nat \ {0}, NEW r \in 0 .. W - 1, NEW x \in 0 .. W - 1, NEW y, y = (x + 1) % W
  PROVE  /\ (r - x) % W \in 0 .. W - 1 /\ (x - r) % W \in 0 .. W - 1
         /\ (r - x) % W = 0 <=> (x - r) % W = 0
         /\ (r - x) % W # 0 => (x - r) % W = W - ((r - x) % W)
         /\ (r - x) % W > 0 => (r - y) % W = ((r - x) % W) - 1
         /\ (x - r) % W < W - 1 => (y - r) % W = ((x - r) % W) + 1
<1>1. y \in 0 .. W - 1 /\ y = IF x = W - 1 THEN 0 ELSE x + 1
  BY NextTick
<1>2. (r - x) % W = IF r >= x THEN r - x ELSE r - x + W
  BY ModDiff
<1>3. (x - r) % W = IF x >= r THEN x - r ELSE x - r + W
  BY ModDiff
<1>4. (r - y) % W = IF r >= y THEN r - y ELSE r - y + W
  BY <1>1, ModDiff
<1>5. (y - r) % W = IF y >= r THEN y - r ELSE y - r + W
  BY <1>1, ModDiff
<1> DEFINE a == (r - x) % W  b == (x - r) % W  c == (r - y) % W  d == (y - r) % W
<1>6. /\ a = IF r >= x THEN r - x ELSE r - x + W
      /\ b = IF x >= r THEN x - r ELSE x - r + W
      /\ c = IF r >= y THEN r - y ELSE r - y + W
      /\ d = IF y >= r THEN y - r ELSE y - r + W
  BY <1>2, <1>3, <1>4, <1>5
<1> HIDE DEF a, b, c, d
<1>7. /\ a \in 0 .. W - 1 /\ b \in 0 .. W - 1
      /\ a = 0 <=> b = 0
      /\ a # 0 => b = W - a
      /\ a > 0 => c = a - 1
      /\ b < W - 1 => d = b + 1
  BY <1>1, <1>6
<1>8. QED BY <1>7 DEF a, b, c, d

LEMMA RestartStarts == Rebooter!Init => RestartInv
BY RebootConstants DEF Rebooter!Init, RestartInv

(* A restart that is due is late by a few ticks at most, after a whole      *)
(* delay; one that is not due is left alone.                                *)
LEMMA DueMeans ==
  ASSUME RestartInv, Rebooter!RestartDue
  PROVE  at = "idle" /\ since >= Delay /\ Rebooter!Late \in 0 .. Slow
<1> DEFINE a == ToGo  b == Rebooter!Late  H == Wrap \div 2
<1>1. H \in Nat /\ 2 * H <= Wrap
  BY RebootConstants
<1>2. a # 0 => b = Wrap - a
  BY RebootConstants, Passes DEF RestartInv, ToGo, Rebooter!Late
<1>3. reboot_at # 0 /\ b < H
  BY DEF Rebooter!RestartDue
<1>4. (a \in 1 .. Delay /\ since + a >= Delay) \/ (b \in 0 .. Slow /\ since >= Delay)
  BY <1>3 DEF RestartInv
<1>5. at = "idle"
  BY <1>3 DEF RestartInv
<1> HIDE DEF a, b, H
<1>6. ~(a \in 1 .. Delay)
  BY <1>1, <1>2, <1>3, RebootConstants
<1>7. b \in 0 .. Slow /\ since >= Delay
  BY <1>4, <1>6
<1>8. QED BY <1>5, <1>7 DEF b

LEMMA RestartKept ==
  ASSUME RestartInv, Rebooter!Next
  PROVE  RestartInv' /\ (restarted' => restarted \/ (at = "idle" /\ since >= Delay))
<1> USE RebootConstants
<1>0. ~restarted
  BY DEF Rebooter!Next
<1>1. CASE Rebooter!Sketch
  BY <1>0, <1>1 DEF Rebooter!Sketch, Rebooter!On, Rebooter!OnNames, Rebooter!OnReturns, Rebooter!rx, Rebooter!time,
                    RestartInv, ToGo, Rebooter!Late
<1>2. ASSUME NEW m, Rebooter!Receive(m)
      PROVE  RestartInv' /\ ~restarted'
  BY <1>0, <1>2 DEF Rebooter!Receive, Rebooter!time, RestartInv, ToGo, Rebooter!Late
<1>3. CASE Rebooter!Match
  BY <1>0, <1>3 DEF Rebooter!Match, Rebooter!time, RestartInv, ToGo, Rebooter!Late
<1>4. CASE Rebooter!HandlerReturns
  <2>1. since' \in 0 .. Delay
    BY <1>4 DEF Rebooter!HandlerReturns, RestartInv
  <2>2. QED BY <1>0, <1>4, <2>1 DEF Rebooter!HandlerReturns, RestartInv
<1>5. CASE Rebooter!Builtin
  <2>1. at = "builtin" /\ at' = "idle" /\ received' = received /\ reboot_at = 0
        /\ clock' = clock /\ since' = since /\ ~restarted'
    BY <1>0, <1>5 DEF Rebooter!Builtin, RestartInv
  <2>2. CASE reboot_at' = 0
    BY <2>1, <2>2 DEF RestartInv
  <2>3. CASE reboot_at' = Rebooter!RebootTime
    <3>1. Delay \in 1 .. Wrap - 1 /\ clock \in 0 .. Wrap - 1
      BY DEF RestartInv
    <3>2. reboot_at' = IF clock + Delay < Wrap THEN clock + Delay ELSE clock + Delay - Wrap
      <4>1. Delay \in 0 .. Wrap - 1 /\ clock \in 0 .. Wrap - 1 /\ Wrap \in Nat \ {0}
        BY <3>1
      <4>2. (clock + Delay) % Wrap = IF clock + Delay < Wrap THEN clock + Delay ELSE clock + Delay - Wrap
        BY <4>1, SoonIs
      <4>3. QED BY <2>3, <4>2, Zenon DEF Rebooter!RebootTime
    <3>3. reboot_at' \in 0 .. Wrap - 1
      BY <3>1, <3>2
    <3>4. (reboot_at' - clock) % Wrap
            = IF reboot_at' >= clock THEN reboot_at' - clock ELSE reboot_at' - clock + Wrap
      BY <3>1, <3>3, ModDiff
    <3>5. (reboot_at' - clock) % Wrap = Delay
      BY <3>1, <3>2, <3>4
    <3>6. ToGo' = Delay
      BY <2>1, <3>5 DEF ToGo
    <3>7. QED BY <2>1, <3>3, <3>6 DEF RestartInv
  <2>4. QED BY <1>5, <2>2, <2>3 DEF Rebooter!Builtin, RestartInv
<1>6. CASE Rebooter!Restart
  <2>1. at = "idle" /\ since >= Delay
    BY <1>6, DueMeans DEF Rebooter!Restart
  <2>2. QED BY <1>6, <2>1 DEF Rebooter!Restart, Rebooter!rx, Rebooter!time, RestartInv, ToGo, Rebooter!Late
<1>7. CASE Rebooter!Tick
  <2>1. /\ clock' = (clock + 1) % Wrap /\ reboot_at' = reboot_at /\ at' = at /\ received' = received
        /\ ~restarted'
    BY <1>0, <1>7 DEF Rebooter!Tick, Rebooter!rx
  <2>2. clock \in 0 .. Wrap - 1 /\ reboot_at \in 0 .. Wrap - 1 /\ since \in 0 .. Delay
    BY DEF RestartInv
  <2>3. since' = IF since + 1 <= Delay THEN since + 1 ELSE Delay
    BY <1>7, <2>2, LesserIs DEF Rebooter!Tick
  <2>4. clock' \in 0 .. Wrap - 1
    BY <2>1, <2>2, NextTick
  <2> DEFINE a == ToGo  b == Rebooter!Late  c == ToGo'  d == Rebooter!Late'  H == Wrap \div 2
  <2>5. /\ a \in 0 .. Wrap - 1 /\ b \in 0 .. Wrap - 1
        /\ a = 0 <=> b = 0
        /\ a # 0 => b = Wrap - a
        /\ a > 0 => c = a - 1
        /\ b < Wrap - 1 => d = b + 1
        /\ c = 0 <=> d = 0
    <3> HIDE DEF H
    <3>1. a = (reboot_at - clock) % Wrap /\ b = (clock - reboot_at) % Wrap
      BY DEF ToGo, Rebooter!Late
    <3>2. c = (reboot_at - clock') % Wrap /\ d = (clock' - reboot_at) % Wrap
      BY <2>1 DEF ToGo, Rebooter!Late
    <3> HIDE DEF a, b, c, d
    <3>3. /\ a \in 0 .. Wrap - 1 /\ b \in 0 .. Wrap - 1
          /\ a = 0 <=> b = 0
          /\ a # 0 => b = Wrap - a
          /\ a > 0 => c = a - 1
          /\ b < Wrap - 1 => d = b + 1
      <4>1. \A y : y = (clock + 1) % Wrap =>
               /\ (reboot_at - clock) % Wrap \in 0 .. Wrap - 1 /\ (clock - reboot_at) % Wrap \in 0 .. Wrap - 1
               /\ (reboot_at - clock) % Wrap = 0 <=> (clock - reboot_at) % Wrap = 0
               /\ (reboot_at - clock) % Wrap # 0 =>
                    (clock - reboot_at) % Wrap = Wrap - ((reboot_at - clock) % Wrap)
               /\ (reboot_at - clock) % Wrap > 0 =>
                    (reboot_at - y) % Wrap = ((reboot_at - clock) % Wrap) - 1
               /\ (clock - reboot_at) % Wrap < Wrap - 1 =>
                    (y - reboot_at) % Wrap = ((clock - reboot_at) % Wrap) + 1
        BY <2>2, Passes
      <4>2. QED BY <2>1, <3>1, <3>2, <4>1
    <3>4. (reboot_at - clock') % Wrap = 0 <=> (clock' - reboot_at) % Wrap = 0
      BY <2>2, <2>4, Passes
    <3>5. QED BY <3>2, <3>3, <3>4
  <2>6. reboot_at # 0 /\ b < H => b < Slow
    BY <1>7 DEF Rebooter!Tick, Rebooter!RestartDue
  <2>7. H \in Nat /\ 2 * H <= Wrap /\ Wrap <= 2 * H + 1
    OBVIOUS
  <2>8. reboot_at # 0 => (a \in 1 .. Delay /\ since + a >= Delay) \/ (b \in 0 .. Slow /\ since >= Delay)
    BY DEF RestartInv
  <2> HIDE DEF a, b, c, d, H
  <2>9. reboot_at # 0 => (c \in 1 .. Delay /\ since' + c >= Delay) \/ (d \in 0 .. Slow /\ since' >= Delay)
    <3>1. ASSUME reboot_at # 0, a \in 1 .. Delay, since + a >= Delay
          PROVE  (c \in 1 .. Delay /\ since' + c >= Delay) \/ (d \in 0 .. Slow /\ since' >= Delay)
      BY <2>2, <2>3, <2>5, <3>1
    <3>2. ASSUME reboot_at # 0, b \in 0 .. Slow, since >= Delay
          PROVE  d \in 0 .. Slow /\ since' >= Delay
      BY <2>2, <2>3, <2>5, <2>6, <2>7, <3>2
    <3>3. QED BY <2>8, <3>1, <3>2
  <2>10. since' \in 0 .. Delay
    BY <2>2, <2>3
  <2>11. QED BY <2>1, <2>4, <2>9, <2>10 DEF RestartInv, c, d
<1>8. QED
  BY <1>1, <1>2, <1>3, <1>4, <1>5, <1>6, <1>7 DEF Rebooter!Next, Rebooter!Dispatch

-----------------------------------------------------------------------------
(* The searches: TargetProof for the constants of that scenario. *)

Search == INSTANCE TargetProof WITH
  Pinned <- "none", Advertised <- CloudOnly, MaxForms <- 0, MaxBoots <- 0

(* Its assumption is one of the scenario's.                                 *)
LEMMA SearchAssumption == Search!TargetAssumption
BY ServerAssumption
DEF Searching!TargetAssumption, Search!TargetAssumption, Searching!Servers, Search!Servers,
    Searching!Handed, Search!Handed, Searching!NoBroker, Search!NoBroker

(* It speaks of the formulas that the scenario is made of.                  *)
LEMMA SameInit == Searching!TargetInit <=> Search!TargetInit
BY DEF Searching!Idle, Search!Idle, Searching!Label, Search!Label, Searching!NoBroker, Search!NoBroker,
    Searching!NoEnrollJob, Search!NoEnrollJob, Searching!TargetInit, Search!TargetInit, Searching!Tls,
    Search!Tls

LEMMA SameTypes == Searching!TargetTypeOK <=> Search!TargetTypeOK
BY DEF Searching!Brokers, Search!Brokers, Searching!Counts, Search!Counts, Searching!Handed, Search!Handed,
    Searching!Hosts, Search!Hosts, Searching!Jobs, Search!Jobs, Searching!Kept, Search!Kept,
    Searching!Labels, Search!Labels, Searching!MaybeHanded, Search!MaybeHanded, Searching!MaybeServer,
    Search!MaybeServer, Searching!NoBroker, Search!NoBroker, Searching!Servers, Search!Servers,
    Searching!TargetTypeOK, Search!TargetTypeOK, Searching!Targets, Search!Targets, Searching!Waits,
    Search!Waits

LEMMA SameNext == Searching!TargetNext <=> Search!TargetNext
<1>1. Searching!RunDiscovery <=> Search!RunDiscovery
  BY DEF Searching!Candidate, Search!Candidate, Searching!EnrollBegins, Search!EnrollBegins,
      Searching!Forget, Search!Forget, Searching!Label, Search!Label, Searching!LoopRuns, Search!LoopRuns,
      Searching!NoBroker, Search!NoBroker, Searching!RunDiscovery, Search!RunDiscovery, Searching!SetServer,
      Search!SetServer, Searching!Tls, Search!Tls, Searching!Try, Search!Try, Searching!Wait, Search!Wait
<1>2. Searching!EnrollStart <=> Search!EnrollStart
  BY DEF Searching!EnrollBegins, Search!EnrollBegins, Searching!EnrollStart, Search!EnrollStart,
      Searching!LoopRuns, Search!LoopRuns, Searching!RetryDue, Search!RetryDue, Searching!ready,
      Search!ready
<1>3. Searching!JobPosts <=> Search!JobPosts
  BY DEF Searching!Address, Search!Address, Searching!JobPosts, Search!JobPosts, Searching!Resolve,
      Search!Resolve
<1>4. \A s : Searching!JobEnrolled(s) <=> Search!JobEnrolled(s)
  BY DEF Searching!AnswersAt, Search!AnswersAt, Searching!At, Search!At, Searching!Derived, Search!Derived,
      Searching!JobEnrolled, Search!JobEnrolled, Searching!Label, Search!Label, Searching!NoBroker,
      Search!NoBroker, Searching!NoEnrollJob, Search!NoEnrollJob, Searching!Remember, Search!Remember,
      Searching!Says, Search!Says, Searching!Servers, Search!Servers, Searching!Tls, Search!Tls
<1>5. /\ Searching!JobUnanswered <=> Search!JobUnanswered
      /\ Searching!JobFails <=> Search!JobFails
  BY DEF Searching!AnswersAt, Search!AnswersAt, Searching!At, Search!At, Searching!Count, Search!Count,
      Searching!EnrollFails, Search!EnrollFails, Searching!JobFails, Search!JobFails,
      Searching!JobUnanswered, Search!JobUnanswered, Searching!Label, Search!Label, Searching!NoEnrollJob,
      Search!NoEnrollJob, Searching!Servers, Search!Servers, Searching!Tls, Search!Tls
<1>6. /\ Searching!ProbeStarts <=> Search!ProbeStarts
      /\ Searching!ProbeUnanswered <=> Search!ProbeUnanswered
      /\ Searching!ProbeFails <=> Search!ProbeFails
  BY DEF Searching!Address, Search!Address, Searching!AnswersAt, Search!AnswersAt, Searching!At, Search!At,
      Searching!Count, Search!Count, Searching!EndProbe, Search!EndProbe, Searching!Goes, Search!Goes,
      Searching!Idle, Search!Idle, Searching!Label, Search!Label, Searching!LoopRuns, Search!LoopRuns,
      Searching!ProbeFails, Search!ProbeFails, Searching!ProbeStarts, Search!ProbeStarts,
      Searching!ProbeUnanswered, Search!ProbeUnanswered, Searching!Resolve, Search!Resolve,
      Searching!Servers, Search!Servers, Searching!Tls, Search!Tls, Searching!ready, Search!ready
<1>7. Searching!ProbeAccepted <=> Search!ProbeAccepted
  BY DEF Searching!Address, Search!Address, Searching!AnswersAt, Search!AnswersAt, Searching!At, Search!At,
      Searching!Effective, Search!Effective, Searching!Idle, Search!Idle, Searching!Label, Search!Label,
      Searching!Moved, Search!Moved, Searching!NoBroker, Search!NoBroker, Searching!PersistPush,
      Search!PersistPush, Searching!ProbeAccepted, Search!ProbeAccepted, Searching!Push, Search!Push,
      Searching!Resolve, Search!Resolve, Searching!Servers, Search!Servers, Searching!Stop, Search!Stop,
      Searching!Tls, Search!Tls
<1>8. /\ Searching!ProbeRefused <=> Search!ProbeRefused
      /\ Searching!ConnectRefused <=> Search!ConnectRefused
  BY DEF Searching!Address, Search!Address, Searching!AnswersAt, Search!AnswersAt, Searching!At, Search!At,
      Searching!ConnectRefused, Search!ConnectRefused, Searching!Count, Search!Count,
      Searching!EnrollBegins, Search!EnrollBegins, Searching!Idle, Search!Idle, Searching!Label,
      Search!Label, Searching!LoopRuns, Search!LoopRuns, Searching!NoBroker, Search!NoBroker,
      Searching!ProbeRefused, Search!ProbeRefused, Searching!Recover, Search!Recover, Searching!Resolve,
      Search!Resolve, Searching!Servers, Search!Servers, Searching!Stop, Search!Stop, Searching!Tls,
      Search!Tls, Searching!ready, Search!ready
<1>9. /\ Searching!StartBegins <=> Search!StartBegins
      /\ Searching!HbStart <=> Search!HbStart
  BY DEF Searching!Goes, Search!Goes, Searching!HbStart, Search!HbStart, Searching!LoopRuns,
      Search!LoopRuns, Searching!MayStart, Search!MayStart, Searching!NoBroker, Search!NoBroker,
      Searching!StartBegins, Search!StartBegins, Searching!ready, Search!ready
<1>10. /\ Searching!LoopDials <=> Search!LoopDials
       /\ Searching!RxDials <=> Search!RxDials
  BY DEF Searching!Address, Search!Address, Searching!At, Search!At, Searching!Dial, Search!Dial,
      Searching!Idle, Search!Idle, Searching!LoopDials, Search!LoopDials, Searching!NoBroker,
      Search!NoBroker, Searching!Resolve, Search!Resolve, Searching!RxDials, Search!RxDials
<1>11. Searching!StartFails <=> Search!StartFails
  BY DEF Searching!Count, Search!Count, Searching!Idle, Search!Idle, Searching!StartFails,
      Search!StartFails, Searching!Unresolved, Search!Unresolved
<1>12. Searching!HeartbeatPush <=> Search!HeartbeatPush
  BY DEF Searching!At, Search!At, Searching!Effective, Search!Effective, Searching!Goes, Search!Goes,
      Searching!HeartbeatPush, Search!HeartbeatPush, Searching!Moved, Search!Moved, Searching!NoBroker,
      Search!NoBroker, Searching!PersistPush, Search!PersistPush, Searching!Push, Search!Push,
      Searching!Stop, Search!Stop
<1>13. Searching!Rediscover <=> Search!Rediscover
  BY DEF Searching!Count, Search!Count, Searching!LoopRuns, Search!LoopRuns, Searching!NoBroker,
      Search!NoBroker, Searching!Rediscover, Search!Rediscover, Searching!Stop, Search!Stop
<1>14. \A s : Searching!PortalServer(s) <=> Search!PortalServer(s)
  BY DEF Searching!Count, Search!Count, Searching!Label, Search!Label, Searching!PortalServer,
      Search!PortalServer, Searching!SetServer, Search!SetServer, Searching!Tls, Search!Tls
<1>15. Searching!Restart <=> Search!Restart
  BY DEF Searching!BootServer, Search!BootServer, Searching!Count, Search!Count, Searching!Fixed,
      Search!Fixed, Searching!Idle, Search!Idle, Searching!Label, Search!Label, Searching!NoBroker,
      Search!NoBroker, Searching!NoEnrollJob, Search!NoEnrollJob, Searching!Restart, Search!Restart,
      Searching!Stop, Search!Stop, Searching!Tls, Search!Tls
<1>16. \A s, b : Searching!Migrate(s, b) <=> Search!Migrate(s, b)
  BY DEF Searching!Count, Search!Count, Searching!Migrate, Search!Migrate, Searching!NoBroker,
      Search!NoBroker, Searching!code, Search!code
<1>17. Searching!Servers = Search!Servers /\ Searching!Handed = Search!Handed
  BY DEF Searching!Servers, Search!Servers, Searching!Handed, Search!Handed
<1>18. Searching!Enrolls <=> Search!Enrolls
  BY <1>3, <1>4, <1>5, <1>17 DEF Searching!Enrolls, Search!Enrolls
<1>19. Searching!LoopGoesOn <=> Search!LoopGoesOn
  BY <1>1, <1>2, <1>6, <1>7, <1>8, <1>9, <1>10 DEF Searching!LoopGoesOn, Search!LoopGoesOn
<1>20. QED
  BY <1>5, <1>6, <1>8, <1>10, <1>11, <1>12, <1>13, <1>14, <1>15, <1>16, <1>17, <1>18, <1>19
  DEF Searching!TargetNext, Search!TargetNext

-----------------------------------------------------------------------------
(* All of it together: in a scenario its part moves, and the others stay.   *)

LEMMA Moves ==
  ASSUME [ServerNext]_ServerVars
  PROVE  /\ scenario' = scenario
         /\ scenario # "searching" => [TargetNext]_targetVars
         /\ scenario = "searching" => [Search!TargetNext]_(Search!targetVars)
         /\ [OtaNext]_vars
         /\ Prudent!RotationNext \/ Abrupt!RotationNext \/ UNCHANGED tokenVars
         /\ scenario = "prudent" => [Prudent!RotationNext]_tokenVars
         /\ [Rebooter!Next]_commandVars
<1>1. Search!targetVars = targetVars
  BY DEF Search!targetVars, Search!code, targetVars, code
<1>2. CASE UNCHANGED ServerVars
  <2>1. /\ scenario' = scenario /\ vars' = vars /\ targetVars' = targetVars
        /\ tokenVars' = tokenVars /\ commandVars' = commandVars
    BY <1>2, Zenon DEF ServerVars
  <2>2. Search!targetVars' = Search!targetVars
    BY <2>1 DEF Search!targetVars, Search!code, targetVars, code
  <2>3. QED BY <2>1, <2>2
<1>3. CASE ServerNext
  BY <1>1, <1>3, SameNext DEF ServerNext
<1>4. QED BY <1>2, <1>3

(* A step that leaves a part alone.                                         *)
LEMMA TokensStay ==
  ASSUME UNCHANGED tokenVars
  PROVE  /\ TokenNumbers => TokenNumbers'
         /\ TokenFlags => TokenFlags'
         /\ TokenInv => TokenInv' /\ request' = request
BY DEF tokenVars, TokenNumbers, TokenFlags, TokenInv

LEMMA CommandsStay ==
  ASSUME UNCHANGED commandVars, RestartInv
  PROVE  RestartInv' /\ restarted' = restarted
BY DEF commandVars, RestartInv, ToGo, Rebooter!Late

(* The types of both Targets, those of the tokens.                          *)
ServerTypes ==
  /\ scenario # "searching" => TypeInv
  /\ scenario = "searching" => Search!TypeInv
  /\ TokenNumbers /\ TokenFlags

LEMMA ServerTypesStart == ServerInit => ServerTypes
<1> SUFFICES ASSUME ServerInit PROVE ServerTypes
  OBVIOUS
<1>1. scenario # "searching" => TargetInit
  BY DEF ServerInit
<1>2. scenario = "searching" => Search!TargetInit
  BY SameInit DEF ServerInit
<1>3. TargetInit => TypeInv
  BY InitTypes DEF TypeInv, TargetInit
<1>4. Search!TargetInit => Search!TypeInv
  BY SearchAssumption, Search!InitTypes DEF Search!TypeInv, Search!TargetInit
<1>5. TokenNumbers /\ TokenFlags
  BY TokensStart DEF ServerInit
<1>6. QED BY <1>1, <1>2, <1>3, <1>4, <1>5 DEF ServerTypes

LEMMA ServerTypesKept == ServerTypes /\ [ServerNext]_ServerVars => ServerTypes'
<1> SUFFICES ASSUME ServerTypes, [ServerNext]_ServerVars PROVE ServerTypes'
  OBVIOUS
<1>1. scenario' = scenario
  BY Moves
<1>2. scenario # "searching" => TypeInv'
  BY Moves, TypesKept DEF ServerTypes
<1>3. scenario = "searching" => Search!TypeInv'
  BY SearchAssumption, Moves, Search!TypesKept DEF ServerTypes
<1>4. TokenNumbers' /\ TokenFlags'
  BY Moves, NumbersKept, FlagsKept, TokensStay DEF ServerTypes
<1>5. QED BY <1>1, <1>2, <1>3, <1>4 DEF ServerTypes

(* ServerTypeOK: the types of what the scenarios move, for any number of    *)
(* restarts, forms, moves, failures and tokens.                             *)
THEOREM ServerTypesHold == ServerSpec => []ServerTypeOK
<1>1. ServerTypes => ServerTypeOK
  BY SameTypes, RotationTypes DEF ServerTypes, ServerTypeOK, TypeInv, Search!TypeInv
<1>2. QED BY <1>1, ServerTypesStart, ServerTypesKept, PTL DEF ServerSpec

(* No token is lost by rotation where the server withdraws a token only     *)
(* when it has seen the next: whatever is lost on the way, whenever the     *)
(* device restarts, NVS has a token that is accepted as long as the one in  *)
(* use is, and none that is accepted is erased (the safety of TokenLasts).  *)
THEOREM TokensLast ==
  ServerSpec => /\ [](scenario = "prudent" => Prudent!RestartIsSafe)
                /\ [][scenario = "prudent" => Prudent!ErasesWithdrawn]_tokenVars
<1> DEFINE Kept1 == TokenNumbers /\ TokenFlags /\ (scenario = "prudent" => TokenInv)
<1>1. ServerInit => Kept1
  BY TokensStart DEF ServerInit
<1>2. Kept1 /\ [ServerNext]_ServerVars => Kept1'
  <2> SUFFICES ASSUME Kept1, [ServerNext]_ServerVars PROVE Kept1'
    OBVIOUS
  <2>1. TokenNumbers' /\ TokenFlags'
    BY Moves, NumbersKept, FlagsKept, TokensStay
  <2>2. scenario' = "prudent" => TokenInv'
    BY Moves, TokensKept, TokensStay
  <2>3. QED BY <2>1, <2>2
<1>3. Kept1 /\ [ServerNext]_ServerVars => [scenario = "prudent" => Prudent!ErasesWithdrawn]_tokenVars
  <2> SUFFICES ASSUME Kept1, [ServerNext]_ServerVars, scenario = "prudent", request # 0
               PROVE  request' # 0
    BY DEF Prudent!ErasesWithdrawn
  <2>1. QED BY Moves, TokensKept, TokensStay
<1>4. Kept1 => (scenario = "prudent" => Prudent!RestartIsSafe)
  BY DEF TokenInv, Prudent!RestartIsSafe
<1> HIDE DEF Kept1
<1>5. QED BY <1>1, <1>2, <1>3, <1>4, PTL DEF ServerSpec

(* The restart on command comes when its handler has had its second, across *)
(* the wraparound of millis() too (the safety of RestartIsDone).            *)
THEOREM HandlerHasItsSecond == ServerSpec => Rebooter!RestartAfterHandler
<1>1. ServerInit => RestartInv
  BY RestartStarts DEF ServerInit
<1>2. RestartInv /\ [ServerNext]_ServerVars
      => RestartInv' /\ (restarted' => restarted \/ (at = "idle" /\ since >= Delay))
  BY Moves, RestartKept, CommandsStay
<1>3. ASSUME RestartInv, [ServerNext]_ServerVars
      PROVE  [restarted' => ~(at = "handler" /\ Rebooter!Command = "reboot") /\ since >= Delay]_restarted
  <2>1. SUFFICES ASSUME restarted' # restarted, restarted'
                 PROVE  at = "idle" /\ since >= Delay
    OBVIOUS
  <2>2. CASE UNCHANGED commandVars
    BY <2>1, <2>2 DEF commandVars
  <2>3. CASE Rebooter!Next
    BY <1>3, <2>1, <2>3, RestartKept DEF Rebooter!Next
  <2>4. QED BY <1>3, <2>2, <2>3, Moves
<1>4. QED BY <1>1, <1>2, <1>3, PTL DEF ServerSpec, Rebooter!RestartAfterHandler

(* One client, in every scenario.                                           *)
THEOREM OneClientInEach == ASSUME ~Yields PROVE ServerSpec => []OneClient
<1> DEFINE One == ServerTypes /\ (scenario # "searching" => OneInv) /\ (scenario = "searching" => Search!OneInv)
<1>1. ServerInit => One
  BY SearchAssumption, ServerTypesStart, InitOne, Search!InitOne, SameInit DEF ServerInit
<1>2. One /\ [ServerNext]_ServerVars => One'
  <2> SUFFICES ASSUME One, [ServerNext]_ServerVars PROVE One'
    OBVIOUS
  <2>1. ServerTypes' /\ scenario' = scenario
    BY ServerTypesKept, Moves
  <2>2. scenario # "searching" => OneInv'
    BY <2>1, Moves, OneKept DEF ServerTypes
  <2>3. scenario = "searching" => Search!OneInv'
    BY SearchAssumption, <2>1, Moves, Search!OneKept DEF ServerTypes
  <2>4. QED BY <2>1, <2>2, <2>3
<1>3. One => OneClient
  BY DEF OneInv, Search!OneInv, OneClient
<1> HIDE DEF One
<1>4. QED BY <1>1, <1>2, <1>3, PTL DEF ServerSpec

(* What a search reaches is used: requests go to the server last set, one   *)
(* that names no broker is served by the derived one (the safety of         *)
(* TargetFollowsServer), and the client dials what its server named last.   *)
THEOREM SearchIsFollowed ==
  ASSUME ~Yields
  PROVE  ServerSpec => [](scenario = "searching" => DerivesWhenUntold /\ HostIsTarget /\ DialsAsTold)
<1> DEFINE Found == scenario = "searching" =>
                      Search!TypeInv /\ Search!OneInv /\ Search!HostInv /\ Search!ServedInv
<1>1. ServerInit => Found
  <2> SUFFICES ASSUME ServerInit, scenario = "searching"
               PROVE  Search!TypeInv /\ Search!OneInv /\ Search!HostInv /\ Search!ServedInv
    OBVIOUS
  <2>1. Search!TargetInit /\ Search!TypeInv
    BY SameInit, ServerTypesStart DEF ServerInit, ServerTypes
  <2>2. QED BY SearchAssumption, <2>1, Search!InitOne, Search!InitAims, Search!InitServed
<1>2. Found /\ [ServerNext]_ServerVars => Found'
  <2> SUFFICES ASSUME Found, [ServerNext]_ServerVars, scenario = "searching"
               PROVE  Search!TypeInv' /\ Search!OneInv' /\ Search!HostInv' /\ Search!ServedInv'
    BY Moves
  <2>1. [Search!TargetNext]_(Search!targetVars)
    BY Moves
  <2>2. Search!TypeInv'
    BY SearchAssumption, <2>1, Search!TypesKept
  <2>3. Search!OneInv' /\ Search!HostInv'
    BY SearchAssumption, <2>1, <2>2, Search!OneKept, Search!HostKept
  <2>4. QED BY SearchAssumption, <2>1, <2>2, <2>3, Search!ServedKept
<1>3. Found => (scenario = "searching" => DerivesWhenUntold /\ HostIsTarget /\ DialsAsTold)
  <2> SUFFICES ASSUME Search!TypeInv, Search!HostInv, Search!ServedInv
               PROVE  DerivesWhenUntold /\ HostIsTarget /\ DialsAsTold
    OBVIOUS
  <2>1. HostIsTarget
    BY DEF Search!HostInv, Search!Aims, Search!At, Search!Tls, HostIsTarget, At, Tls
  <2>2. st = "DONE" => nvs.issuer # "none"
    BY DEF Search!TypeInv, Search!Servers
  <2>3. Search!NoBroker = NoBroker /\ Search!Handed = Handed
    BY DEF Search!NoBroker, NoBroker, Search!Handed, Handed
  <2>4. DerivesWhenUntold /\ DialsAsTold
    BY <2>2, <2>3 DEF Search!ServedInv, DerivesWhenUntold, DialsAsTold
  <2>5. QED BY <2>1, <2>4
<1> HIDE DEF Found
<1>4. QED BY <1>1, <1>2, <1>3, PTL DEF ServerSpec

(* DialsAsTold in every scenario, with the fixed server, and the brokers,   *)
(* of the other scenarios.                                                  *)
THEOREM DialsInEach ==
  ASSUME ~Yields, Pinned # "none", \A s \in Servers : Advertised[s] # NoBroker
  PROVE  ServerSpec => []DialsAsTold
<1> DEFINE Fixed1 == /\ ServerTypes
                     /\ scenario # "searching" => OneInv /\ BrokerInv
<1>1. ServerInit => Fixed1
  <2>1. TargetInit => OneInv /\ BrokerInv
    BY InitOne DEF TargetInit, BrokerInv
  <2>2. QED BY <2>1, ServerTypesStart DEF ServerInit
<1>2. Fixed1 /\ [ServerNext]_ServerVars => Fixed1'
  <2> SUFFICES ASSUME Fixed1, [ServerNext]_ServerVars PROVE Fixed1'
    OBVIOUS
  <2>1. ServerTypes' /\ scenario' = scenario
    BY ServerTypesKept, Moves
  <2>2. scenario # "searching" => OneInv' /\ BrokerInv'
    BY <2>1, Moves, OneKept, BrokerKept DEF ServerTypes
  <2>3. QED BY <2>1, <2>2
<1>3. Fixed1 => scenario = "searching" \/ DialsAsTold
  BY DEF BrokerInv, DialsAsTold
<1>4. ServerSpec => [](scenario = "searching" => DerivesWhenUntold /\ HostIsTarget /\ DialsAsTold)
  BY SearchIsFollowed
<1> HIDE DEF Fixed1
<1>5. QED BY <1>1, <1>2, <1>3, <1>4, PTL DEF ServerSpec

(* OtaInv and FailedKeepsFirmware beside whatever else the device does, when *)
(* the boot selection can be taken back (pulsync_ota.c:462, 470).            *)
THEOREM UpdatesInEach ==
  ASSUME Overlap = FALSE, SelectFails = FALSE
  PROVE  ServerSpec => [](OtaInv /\ FailedKeepsFirmware)
<1>1. ServerInit => OtaInv
  BY OtaInitially DEF ServerInit
<1>2. OtaInv /\ [ServerNext]_ServerVars => OtaInv'
  BY Moves, OtaStep
<1>3. OtaInv => FailedKeepsFirmware
  BY OtaMeans
<1>4. QED BY <1>1, <1>2, <1>3, PTL DEF ServerSpec

=============================================================================
