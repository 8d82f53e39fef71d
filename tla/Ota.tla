-------------------------------- MODULE Ota --------------------------------
(***************************************************************************)
(* Over-the-air updates (src/src/core/pulsync_ota.c): an offer found in a   *)
(* heartbeat reply, the one-shot task that downloads, checks and restarts,  *)
(* the two app slots, and the boot after it, with rollback.                 *)
(*                                                                          *)
(* Replies arrive on two tasks: loop() for the HTTPS heartbeat, the MQTT    *)
(* client's task for the others.  s_state and s_pending_info are not        *)
(* locked, so each access of start() and of the task is a step of its own.  *)
(* An image is its version, a version the row of numbers version_extract    *)
(* finds in it.  Offers whose signature does not verify change nothing and  *)
(* are left out.  esp_https_ota, esp_ota and the bootloader are external.   *)
(***************************************************************************)
EXTENDS Naturals, Sequences

CONSTANTS
  Callers,     \* tasks that hand over heartbeat replies
  Tasks,       \* control blocks FreeRTOS may hand to ota_download_task
  Versions,    \* versions of the images that exist
  Factory,     \* the image the device was delivered with
  Newest,      \* the version the server goes on offering
  Unbootable,  \* images that do not come as far as begin()
  Overlap,     \* an offer may be handled while another one is, or while an
               \* update waits for its task or for its restart
  SelectFails, \* esp_ota_set_boot_partition may fail
  MaxFaults    \* bound on failures, power cuts and other offers

VARIABLES
  state,    \* s_state
  pending,  \* s_pending_info: version (which is also its url and checksum),
            \* and whether it has a checksum
  where,    \* where each caller is inside pulsync_ota_start
  info,     \* the offer each caller holds
  job,      \* the OTA tasks: program counter, and the url they opened
  flash,    \* what the two app slots hold
  boot,     \* the slot otadata selects
  img,      \* the image state otadata keeps for each slot
  running,  \* the slot that runs
  altered,  \* slots whose image is not the one the offer's checksum is of
  phase,    \* "off", "booting" until begin(), then "up"
  faults

start == <<where, info>>
slots == <<flash, altered, boot, img, running>>
vars  == <<state, pending, start, job, slots, phase, faults>>

Slot  == {0, 1}
Blank == <<>>
Offer == [version : Versions, sum : BOOLEAN]
NoJob == [pc |-> "none", url |-> Blank]

Live(t) == job[t].pc # "none"
Other == 1 - running

Fault == faults < MaxFaults /\ faults' = faults + 1

-----------------------------------------------------------------------------
(* semver_compare(a, b) > 0: the first number that differs decides, else    *)
(* the version with more numbers is newer.                                  *)
Agree(a, b, n) == \A i \in 1 .. n : a[i] = b[i]

Newer(a, b) ==
  \/ \E i \in 1 .. Len(a) : i <= Len(b) /\ a[i] > b[i] /\ Agree(a, b, i - 1)
  \/ Len(a) > Len(b) /\ Agree(a, b, Len(b))

ASSUME OtaAssumption ==
  /\ Versions \subseteq Seq(Nat) \ {Blank}
  /\ Factory \in Versions \ Unbootable /\ Newest \in Versions \ Unbootable
  /\ \A v \in Versions \ {Newest} : Newer(Newest, v)
  /\ Overlap \in BOOLEAN /\ SelectFails \in BOOLEAN /\ MaxFaults \in Nat

-----------------------------------------------------------------------------
(* Mutants, used by no action. *)

\* start() does not count the verification as part of an update
MutInProgress == state = "DOWNLOADING"

\* start() wants the module back in IDLE
MutIdleOnly == state # "IDLE"

\* a mismatch is reported and the boot selection stays
MutMismatch(t) ==
  /\ job[t].pc = "compare" /\ pending.sum
  /\ (flash[boot] # pending.version /\ UNCHANGED faults) \/ Fault
  /\ state' = "FAILED"
  /\ job' = [job EXCEPT ![t] = NoJob]
  /\ UNCHANGED <<pending, start, slots, phase>>

-----------------------------------------------------------------------------
(* pulsync_ota_handle_trigger and pulsync_ota_start. *)

InProgress == state = "DOWNLOADING" \/ state = "VERIFYING"

Fits ==
  Overlap \/ ((\A c \in Callers : where[c] = "idle") /\ state \notin {"AVAILABLE", "READY"})

Trigger(c, o) ==
  /\ phase = "up" /\ where[c] = "idle" /\ Fits
  /\ Newer(o.version, flash[running])
  /\ ~InProgress
  /\ where' = [where EXCEPT ![c] = "copy"]
  /\ info' = [info EXCEPT ![c] = o]
  /\ UNCHANGED <<state, pending, job, slots, phase>>

(* The server goes on offering its newest version. *)
Offered(c) ==
  Trigger(c, [version |-> Newest, sum |-> TRUE]) /\ UNCHANGED faults

OtherOffer(c) == \E o \in Offer : Trigger(c, o) /\ Fault

Copy(c) ==
  /\ where[c] = "copy"
  /\ where' = [where EXCEPT ![c] = "announce"]
  /\ pending' = info[c]
  /\ UNCHANGED <<state, info, job, slots, phase, faults>>

Announce(c) ==
  /\ where[c] = "announce"
  /\ where' = [where EXCEPT ![c] = "create"]
  /\ state' = "AVAILABLE"
  /\ UNCHANGED <<pending, info, job, slots, phase, faults>>

Create(c, t) ==
  /\ where[c] = "create" /\ ~Live(t)
  /\ where' = [where EXCEPT ![c] = "idle"]
  /\ job' = [job EXCEPT ![t].pc = "start"]
  /\ UNCHANGED <<state, pending, info, slots, phase, faults>>

CreateFails(c) ==
  /\ where[c] = "create" /\ Fault
  /\ where' = [where EXCEPT ![c] = "idle"]
  /\ state' = "FAILED"
  /\ UNCHANGED <<pending, info, job, slots, phase>>

StartGoesOn(c) == Copy(c) \/ Announce(c) \/ (\E t \in Tasks : Create(c, t)) \/ CreateFails(c)

-----------------------------------------------------------------------------
(* ota_download_task *)

TaskStarts(t) ==
  /\ job[t].pc = "start"
  /\ state' = "DOWNLOADING"
  /\ job' = [job EXCEPT ![t] = [pc |-> "begin", url |-> pending.version]]
  /\ UNCHANGED <<pending, start, slots, phase, faults>>

(* esp_https_ota_begin takes the slot that does not run and writes it: it   *)
(* holds no image to go back to any more.                                   *)
Begin(t) ==
  /\ job[t].pc = "begin"
  /\ job' = [job EXCEPT ![t].pc = "perform"]
  /\ flash' = [flash EXCEPT ![Other] = Blank] /\ altered' = altered \ {Other}
  /\ img' = [img EXCEPT ![Other] = "invalid"]
  /\ UNCHANGED <<state, pending, start, boot, running, phase, faults>>

(* The image at the url is the one offered, or, by a fault, another one. *)
Perform(t) ==
  /\ job[t].pc = "perform"
  /\ state' = "VERIFYING"
  /\ job' = [job EXCEPT ![t].pc = "finish"]
  /\ \/ flash' = [flash EXCEPT ![Other] = job[t].url] /\ UNCHANGED faults
     \/ Fault /\ \E v \in Versions : flash' = [flash EXCEPT ![Other] = v]
  /\ altered' = IF pending.sum /\ flash'[Other] # pending.version
                THEN altered \cup {Other} ELSE altered \ {Other}
  /\ UNCHANGED <<pending, start, boot, img, running, phase>>

(* esp_https_ota_finish selects the slot for the next boot. *)
Finish(t) ==
  /\ job[t].pc = "finish" /\ flash[Other] # Blank
  /\ job' = [job EXCEPT ![t].pc = "compare"]
  /\ boot' = Other /\ img' = [img EXCEPT ![Other] = "new"]
  /\ UNCHANGED <<state, pending, start, flash, altered, running, phase, faults>>

(* begin, perform and finish may fail; finish does on an unfinished image. *)
Fails(t) ==
  /\ job[t].pc \in {"begin", "perform", "finish"}
  /\ Fault \/ (job[t].pc = "finish" /\ flash[Other] = Blank /\ UNCHANGED faults)
  /\ state' = "FAILED"
  /\ job' = [job EXCEPT ![t] = NoJob]
  /\ UNCHANGED <<pending, start, slots, phase>>

(* What has been written is hashed, if the offer has a checksum. *)
Match(t) ==
  /\ job[t].pc = "compare" /\ (pending.sum => flash[boot] = pending.version)
  /\ job' = [job EXCEPT ![t].pc = "ready"]
  /\ UNCHANGED <<state, pending, start, slots, phase, faults>>

(* esp_ota_set_boot_partition(running); the result is ignored. *)
Deselect ==
  \/ boot' = running /\ img' = [img EXCEPT ![Other] = "invalid"]
  \/ SelectFails /\ UNCHANGED <<boot, img>>

(* The hash differs, or the flash cannot be read back. *)
Mismatch(t) ==
  /\ job[t].pc = "compare" /\ pending.sum
  /\ (flash[boot] # pending.version /\ UNCHANGED faults) \/ Fault
  /\ Deselect
  /\ state' = "FAILED"
  /\ job' = [job EXCEPT ![t] = NoJob]
  /\ UNCHANGED <<pending, start, flash, altered, running, phase>>

Ready(t) ==
  /\ job[t].pc = "ready"
  /\ state' = "READY"
  /\ job' = [job EXCEPT ![t].pc = "sleep"]
  /\ UNCHANGED <<pending, start, slots, phase, faults>>

(* A restart: only the flash survives. *)
Reset ==
  /\ phase' = "off"
  /\ state' = "IDLE" /\ pending' = [version |-> Factory, sum |-> FALSE]
  /\ where' = [c \in Callers |-> "idle"] /\ info' = [c \in Callers |-> pending']
  /\ job' = [t \in Tasks |-> NoJob]
  /\ UNCHANGED <<flash, altered, running>>

(* Two seconds after READY. *)
Restarts(t) == job[t].pc = "sleep" /\ Reset /\ UNCHANGED <<boot, img, faults>>

Download(t) ==
  \/ TaskStarts(t) \/ Begin(t) \/ Perform(t) \/ Finish(t) \/ Fails(t)
  \/ Match(t) \/ Mismatch(t) \/ Ready(t) \/ Restarts(t)

-----------------------------------------------------------------------------
(* The rest of the API, power cuts, and the boot. *)

Reboot == phase = "up" /\ state = "READY" /\ Fault /\ Reset /\ UNCHANGED <<boot, img>>

(* pulsync_ota_rollback, when the sketch asks for it: to an image that was  *)
(* confirmed, if the slot still holds one. *)
Rollback ==
  /\ phase = "up" /\ flash[Other] # Blank /\ img[Other] = "valid" /\ Fault
  /\ Reset
  /\ boot' = Other /\ img' = [img EXCEPT ![running] = "invalid"]

PowerCut == phase # "off" /\ Fault /\ Reset /\ UNCHANGED <<boot, img>>

(* The bootloader takes the slot selected, unless its image is unfinished   *)
(* or was booted once and not confirmed.                                    *)
Boot ==
  /\ phase = "off"
  /\ phase' = "booting"
  /\ IF flash[boot] # Blank /\ img[boot] # "pending"
     THEN /\ boot' = boot
          /\ img' = [img EXCEPT ![boot] = IF @ = "new" THEN "pending" ELSE @]
     ELSE boot' = 1 - boot /\ img' = [img EXCEPT ![boot] = "invalid"]
  /\ running' = boot'
  /\ UNCHANGED <<state, pending, start, job, flash, altered, faults>>

BootFails ==
  /\ phase = "booting" /\ flash[running] \in Unbootable
  /\ Reset
  /\ UNCHANGED <<boot, img, faults>>

(* pulsync_ota_init in begin() confirms the image. *)
OtaInit ==
  /\ phase = "booting" /\ flash[running] \notin Unbootable
  /\ phase' = "up" /\ state' = "IDLE"
  /\ img' = [img EXCEPT ![running] = IF @ = "pending" THEN "valid" ELSE @]
  /\ UNCHANGED <<pending, start, job, flash, altered, boot, running, faults>>

Delivered ==
  /\ phase = "up" /\ state = "IDLE"
  /\ flash = [s \in Slot |-> IF s = 0 THEN Factory ELSE Blank]
  /\ boot = 0 /\ running = 0 /\ img = [s \in Slot |-> IF s = 0 THEN "valid" ELSE "invalid"]
  /\ pending = [version |-> Factory, sum |-> FALSE]
  /\ where = [c \in Callers |-> "idle"] /\ info = [c \in Callers |-> pending]
  /\ job = [t \in Tasks |-> NoJob] /\ altered = {}
  /\ faults = 0

OtaNext ==
  \/ \E c \in Callers : Offered(c) \/ OtherOffer(c) \/ StartGoesOn(c)
  \/ \E t \in Tasks : Download(t)
  \/ Reboot \/ Rollback \/ PowerCut
  \/ Boot \/ BootFails \/ OtaInit

OtaSpec == Delivered /\ [][OtaNext]_vars

(* The server repeats its offer, FreeRTOS runs a ready task, the HTTP       *)
(* client's timeout bounds a download, a device that is off is switched on. *)
OtaFairness ==
  /\ WF_vars(\E c \in Callers : Offered(c))
  /\ \A c \in Callers : WF_vars(StartGoesOn(c))
  /\ \A t \in Tasks : WF_vars(Download(t))
  /\ WF_vars(Boot \/ BootFails \/ OtaInit)

OtaFairSpec == OtaSpec /\ OtaFairness

-----------------------------------------------------------------------------
Pc == {"none", "start", "begin", "perform", "finish", "compare", "ready", "sleep"}

(* Types. *)
OtaTypeOK ==
  /\ state \in {"IDLE", "AVAILABLE", "DOWNLOADING", "VERIFYING", "READY", "FAILED"}
  /\ pending \in Offer
  /\ where \in [Callers -> {"idle", "copy", "announce", "create"}]
  /\ info \in [Callers -> Offer]
  /\ job \in [Tasks -> [pc : Pc, url : Versions \cup {Blank}]]
  /\ flash \in [Slot -> Versions \cup {Blank}]
  /\ boot \in Slot /\ running \in Slot
  /\ img \in [Slot -> {"new", "pending", "valid", "invalid"}]
  /\ altered \subseteq Slot /\ phase \in {"off", "booting", "up"}
  /\ faults \in 0 .. MaxFaults

(* The device that is about to restart into an update restarts into the     *)
(* image the offer names: what was hashed is what is selected, and the      *)
(* offer has not changed since.                                             *)
ReadyIsChecked ==
  \A t \in Tasks : job[t].pc \in {"ready", "sleep"} =>
    boot = Other /\ (pending.sum => flash[boot] = pending.version)

(* The inductive form, when offers do not overlap: one caller or one task is *)
(* at work, s_state says how far it is, and the selected slot is the        *)
(* running one until a task has finished another.                           *)
StateAt == [start |-> "AVAILABLE", begin |-> "DOWNLOADING", perform |-> "DOWNLOADING",
            finish |-> "VERIFYING", compare |-> "VERIFYING", ready |-> "VERIFYING",
            sleep |-> "READY"]

OneAtWork ==
  /\ \A t, u \in Tasks : Live(t) /\ Live(u) => t = u
  /\ \A c, d \in Callers : where[c] # "idle" /\ where[d] # "idle" => c = d
  /\ \A c \in Callers, t \in Tasks : where[c] = "idle" \/ ~Live(t)
  /\ \A c \in Callers : where[c] = "create" => state = "AVAILABLE"
  /\ \A t \in Tasks : Live(t) => state = StateAt[job[t].pc]
  /\ phase # "up" => (\A c \in Callers : where[c] = "idle") /\ (\A t \in Tasks : ~Live(t))

Finished(t) == job[t].pc \in {"compare", "ready", "sleep"}

Selected ==
  /\ \A t \in Tasks : Finished(t) => boot = Other
  /\ phase = "up" /\ boot # running => \E t \in Tasks : Finished(t)
  /\ phase = "booting" => boot = running

OtaInv == OtaTypeOK /\ OneAtWork /\ Selected /\ ReadyIsChecked

(* One update at a time: "true if OTA started, false if already in          *)
(* progress".                                                               *)
OneUpdateAtATime == \A t, u \in Tasks : Live(t) /\ Live(u) => t = u

(* When an update has failed, the running firmware is the one that will be  *)
(* booted again: "keeps the running firmware as the boot partition".        *)
FailedKeepsFirmware ==
  phase = "up" /\ state \in {"IDLE", "FAILED"} /\ (\A t \in Tasks : ~Live(t)) => boot = running

(* Whatever fails, finitely often, the device in the end runs the newest    *)
(* version and stays with it.                                               *)
EndsUpdated == <>[](phase = "up" /\ flash[running] = Newest)

(* The device does not come to run an image that differs from the checksum  *)
(* of the offer that brought it: "A mismatch aborts the update and keeps    *)
(* the running firmware as the boot partition".                             *)
MismatchNeverRuns == phase = "up" => running \notin altered
=============================================================================
