# Verification of the Pulsync Arduino library

The library keeps an ESP32 connected to a Pulsync server: it stores WiFi
networks, opens a captive portal when none can be joined, finds a server on the
LAN or in the cloud, enrolls the device with a pairing code, keeps the token the
server issued, confirms it over HTTPS and then holds an MQTT link over which
data, heartbeats, commands and firmware offers go. This directory holds TLA+
models of that code, the TLC runs that check them on small instances, and proofs
checked by TLAPS. Paths such as `pulsync_enroll.c:196` are relative to
`src/src/core/`, `PulsyncClass.cpp` is `src/src/PulsyncClass.cpp`.

## 1. The system

### Tasks

| task | priority | what it runs |
|---|---|---|
| loop | 1 | `PulsyncClass::loop()`, timers, `publish()`, the HTTPS heartbeat, the reset button |
| enroll_task, OTA task | 4 | one-shot: the enrollment POST; the download of an image |
| DNS task | 3 | captive-portal answers while the portal runs |
| esp_mqtt | 5 | MQTT events: connected (flushes the offline queue), messages |
| httpd | 5 | the portal's handlers: enroll form, config menu, Exit, re-pair |
| sys_evt | 20 | WiFi and IP events |

There is not a single mutex in the library. On a one-core chip (C3, C6, S2) the
priorities order the tasks; on two cores everything below may run side by side.

### Components, their state and what makes them correct

| component | state | operations | hard part | correctness |
|---|---|---|---|---|
| Enrollment (`pulsync_enroll`) | IDLE/NEEDED/IN_PROGRESS/DONE/FAILED, attempt number, task handle, token and id in RAM, NVS and transport | init, reset, set_idle, check, start, response, enroll_task | a POST in flight while the module is reset or re-initialised from another task | one task, replies in order, nobody left waiting |
| Main loop and discovery (`PulsyncClass`) | discovery state, server, pairing code, flags `_token_ok`, `_hb_started`, `_reauth` | loop, discovery, recovery, rediscovery, portal handlers, begin | decisions taken from flags other tasks change; restarts between NVS writes | a token in use goes to its issuer only, MQTT only with a confirmed token, the device comes online again |
| Transport (`pulsync_transport`) | MQTT client, HTTP target, unauthorized flag, ring of unsent messages | start, stop, publish, flush, post | publish() on loop against flush on the MQTT task | the last N unsent messages are kept, in order |
| Scheduler (`pulsync_scheduler`) | slots, next id, table of C++ callbacks | set, clear, tick | callbacks that change the slots under the tick, a counter that wraps | no timer early, lost or confused with another |
| OTA (`pulsync_ota`) | state, pending offer, task, two app slots, boot selection | offer, start, download, verify, restart, rollback, boot | offers on two tasks; power cuts between writes of otadata | what is booted was checked; a failure keeps the old firmware |
| WiFi manager and store (`pulsync_wifi`, `pulsync_wifi_store`) | profiles, retry counters; list in RAM and in seven NVS keys | connect, retry, next profile, portal callback; load, migrate, seed, save | events against disconnect and list changes; power cuts in a save | a network in reach is joined; the stored list is the one in use |
| Portal (`pulsync_portal`) | state, HTTP server, access point, DNS task | start, stop, one handler per page | stop() waits while others may call start(); a port that lingers | what reports RUNNING can be reached; what is closed is closed |
| Transport target (`pulsync_transport`, `PulsyncClass`) | HTTP host, name being resolved, advertised broker in RAM and NVS, the running client | set_server, set_mqtt_url, resolve, start, stop, pushes of a broker | a restart or a change of server with a broker left over; a wait between a test and the write it guards | the client dials the broker its server named |
| Heartbeat (`pulsync_heartbeat`) | interval, times of the last send and success, flags | start, stop, tick, probe, response, rotation of the token | times that wrap, outages of the network, a reply that is lost after the server has acted on it | a server is given up when it is gone and only then; no token is lost |
| Config store (`pulsync_config`) | table of typed entries, one NVS cell each | on_int and so on, push | a push before the registration, a full table, failed writes | the sketch is told the value the server sent last |
| Payload builder, commands (`PulsyncClass`) | one buffer; table of handlers, time of the restart | beginPayload, add, endPayload, send; on, dispatch, reboot | a length that runs past the buffer; handlers registered while messages arrive | payloads complete; registered commands called; a reboot after its handler |
| Button and portal session (`PulsyncClass`, `pulsync_portal`) | start of the press; mode, gate, session, list, hash | press, open, log in, save, reset | passes of a slow loop(), openings by two tasks, writes during a reset | a hold opens the portal; a session ends with its opening |
| NVS, version | see `PROJECT.json` | | | variables of the modules that use them |

Components interact by direct calls, by callbacks registered in `_initModules`,
by the values in NVS that one writes and another reads after a restart, and by
flags polled in `loop()`. `PROJECT.json` lists every component with its sources
under "components" and every hazard with its line under "hazards".

## 2. The modules

| module | models | how |
|---|---|---|
| `Enroll` | pulsync_enroll.c | Every access to a shared variable is a step. A call of the API is a row of steps in `step[c]` for caller c, enroll_task a row in `job[t]`. A credential is the number of the server's grant. |
| `Lifecycle` | PulsyncClass.cpp: loop, discovery, recovery, portal handlers, restarts, MQTT client | EXTENDS `Enroll`: a pass of loop() is a row of steps in `pc`; a call of the enrollment API waits until the caller's `step` is idle again. The world (servers up, issuer of each token, withdrawn tokens) is explicit. |
| `OfflineQueue`, `Window` | the ring in pulsync_transport.c, and what it promises | Slots are written and read field by field. `W` is an INSTANCE of `Window` with the number of the newest message, the set kept and the set sent computed from the slots. |
| `Scheduler`, `Timers` | pulsync_scheduler.c with the table in PulsyncClass.cpp, and what it promises | Times modulo `Wrap`; `T` maps slots to a function from identifiers to timers in a time that never wraps. |
| `Ota` | pulsync_ota.c, bootloader and otadata as external parts | start() and the download step by step; flash, boot selection and image states survive a restart. Versions are sequences of numbers, compared as semver_compare does. |
| `WifiStore`, `WifiManager` | pulsync_wifi_store.c; pulsync_wifi.c with begin(), the driver and the portal's requests | The manager EXTENDS the store. A save is one action per NVS write. |
| `Portal` | pulsync_portal.c: start, stop, the handlers that close it, the DNS task | Three callers, each with its place in start() or stop(); the port, the server handle and the access point are apart. |
| `PortalSession` | what an opening of the portal shows and accepts: mode, gate, session, list, the forms, the factory reset | Opening and closing are one step each here; lists and hashes are numbers. |
| `ConfigStore` | pulsync_config.c with the push in PulsyncClass.cpp | `Cell` maps a key to its NVS cell, `FromFlash` and `ToFlash` convert as the code does for each type. |
| `Heartbeat` | pulsync_heartbeat.c in time, with the passes of loop() that drive it | The clock advances only when a pass has nothing to do; 32-bit differences modulo `Wrap`. History counters (`unsent`, `waited`, `quiet`) measure what the properties are about. |
| `Rotation` | the token in its five places: server, NVS, HTTP client, enrollment module, password of MQTT | Tokens are numbers in the order of grants; one may be lost, or fail to reach NVS. |
| `Target` | HTTP host and broker: pulsync_transport.c with _applyServerCandidate, begin() and the pushes in _handleHeartbeatResponse | Three servers with brokers of their own or handed out; resolving a name and starting a client are steps apart. |
| `Payload` | beginPayload, add, endPayload, send, and what the queue keeps | A payload is the sequence of its field lengths; sizes are scaled down. |
| `Commands` | on(), _handleRx and the built-in reboot | An entry of the table is counted, named and completed in three steps. |
| `ConfigButton` | the button in loop() | A hold is counted in ticks, by the code's clock and by the finger. |
| `EnrollProof`, `LifecycleProof`, `TargetProof` | | theorems about `Enroll`, `Lifecycle`, `Target` |
| `SettledProof` | | theorems about `Lifecycle`: RAM, NVS and transport agree, tokens in use stay with their issuers |
| `SketchProof` | | theorems about `OfflineQueue`, `Scheduler`, `Payload`, `ConfigButton`, in the behaviours of `MCSketch` |
| `RepliesProof` | | about `ConfigStore`, `Heartbeat`, `Commands`, in those of `MCReplies` |
| `ServerProof` | | about `Ota`, `Rotation`, `Commands` and (with `TargetProof`) `Target`, in those of `MCServer` |
| `LocalProof` | | about `WifiStore`, `WifiManager`, `Portal`, `PortalSession`, in those of `MCLocal` |
| `MCEnroll`, `MCLifecycle`, `MCOta`, `MCTarget`, `MCWifi`, `MCPortal`, `MCConfig` | model values and small sets for TLC | `MCLifecycle` also has the action constraint of `life_cores`. |
| `MCSketch`, `MCReplies`, `MCServer`, `MCLocal` | several components side by side | see below |

The last four put components that share no variable in one module. The variable
`scenario` says at the start which of them moves; the others stay as they
start. TLC thus explores each component in full and never their product, which
would show nothing more: the places where components act on each other are
inside the modules (`Lifecycle` on `Enroll`, `WifiManager` on `WifiStore`, the
portal's forms in `Lifecycle`). A module that needs several sets of constants is
instantiated once for each (`Prudent` and `Abrupt` of `Rotation`, `Calmly` and
`AnyTime` of `PortalSession`, `Searching` of `Target`, whose fixed server has the
constants of the cfg). Properties
that speak of a component's start, or need its fairness, begin with
`scenario = "..." =>`. `MC*` properties that join several formulas of a
component name them in their comments.

`LifecycleProof` shows that `Lifecycle` implements `Enroll`: loop() and the
portal use the component only as its specification allows. `map` in
`PROJECT.json` gives the lines behind every definition.

## 3. Runs

| run | what it asks | bounds and why they are enough |
|---|---|---|
| `enroll_loop` | With loop() as the only caller: IN_PROGRESS has a task, a current attempt has the current code | two codes to tell old from new, two task handles so that a second task could exist, three attempts (current, stale, next), a restart, failing NVS writes |
| `enroll_portal` | loop() and httpd inside the API at once: one task, replies in order, the handle is given back | both callers may interleave at every access; two grants are enough for an old reply to come after a new one |
| `life_auto` | One core, automatic discovery, any set of servers, three failures of any kind: the device comes online | three failures let a recovery fail and be followed by another; a fourth finds the device in a state already seen |
| `life_cores` | Two cores. A form of the portal at any moment: the code posted is the current one. Or two power cuts between any two steps and two failures: memory, NVS and transport agree again, MQTT starts with a confirmed token only; after at most one cut a restart goes back to the issuer, NVS holds token and id of one grant, and tokens in use go to their issuers | one form at every point of loop() and the task, two codes; two cuts, so that the second falls into what the boot after the first repairs |
| `life_stuck` | (violation) does discovery always move on? | two cores, cloud only, no failures |
| `sketch_calls`: queue | The ring of three against the window of three, any link and refusals | eight messages: more than twice round the ring, holes from partial flushes included |
| `sketch_calls`: payload | Payloads that fit are complete and their own, whatever came before | a buffer of 10 characters, up to five fields of 1, 2 or 4: four short fields fit, five or two long ones do not, and others just fill it |
| `sketch_calls`: timers | No timer early, lost or confused; one that is due runs | two slots, three calls, `Wrap` 8 with nine ticks and late ticks: past the wrap, a full table, callbacks that cancel and set |
| `sketch_calls`: button | A hold opens the portal, and only a hold | three ticks of hold, passes up to two ticks apart, one opening that fails |
| `server_replies`: config | The value the server sent last is kept and told | two of three keys fit the table; a new firmware with the same defaults, three pushes, two restarts, failing writes |
| `server_replies`: heartbeat | Probes and heartbeats in time; a server given up when gone and only then | a window of four units, one unit to answer, one without a link, intervals of one and of two; ten units: a window passes twice |
| `server_replies`: command | A handler registered in time is called | two names, two entries, two messages of one command; a clock of 12 ticks, which wraps |
| `server_long`: ota | Offers on two tasks, wrong and unbootable images, power cuts, rollback | three versions of which one does not boot and one is a pre-release; four faults: a failed update, a wrong image and a cut in the next one |
| `server_long`: fixed, searching | One client, which dials the broker that was named; a search ends with the target it chose | two brokers to hand out and those derived; a broker moves twice, five failures; one form and two restarts with the fixed server |
| `server_long`: prudent, abrupt | No token is lost by rotation; however tokens are lost, the device comes back | five tokens, four losses, three restarts: a rotation lost, repeated, and overtaken by the next |
| `server_long`: reboot | The restart comes, a second after the handler | one command, `Wrap` 16, a delay of two ticks and passes up to two apart |
| `ota_cut` | (violation) does an image that fails the checksum never run? | one wrong image and one power cut |
| `hb_outage` | (violation) is an armed server that answers kept through an outage of the network? | a window of four units and five without WiFi |
| `rotation_key` | (violation) does the key of the offers follow the token? | one rotation, nothing lost |
| `local_site`: wifi | Boot, migration, seeding, saves, lost links, cuts, three faults | two slots and three networks: one in reach, one from the sketch, one from an older firmware |
| `local_site`: portal | Openings, closings and the DNS task interleaved, lingering port, three failing calls | four bind attempts as in the code; two handles so that a second DNS task could exist |
| `local_site`: calm, any | What the portal shows is current; a session belongs to its opening | `MaxOpenings`, `MaxSaves` and `MaxHashes` 2: before and after each |

Deadlock is checked in the enrollment, lifecycle and `sketch_calls` runs. The
others say `CHECK_DEADLOCK FALSE`: a device that has restarted on command, or
has used up its faults and is up to date, or connected, really has nothing more
to do. Every property of a passing run has a mutant in the module it is about
(names beginning with `Mut`, used by no action) that the run must catch.

### Fairness

Weak fairness only, and only where the code is called for ever or bounded by a
timeout: FreeRTOS runs a ready task; `loop()` is called again; esp_http_client
bounds a POST and a download; a deadline passes; esp_mqtt and the WiFi driver
report the end of an attempt; a handler or a call that has begun goes on; a
lingering port is freed. Nothing is assumed of users, of servers (a server that
is up answers, which ones are up is arbitrary) or of faults, which are bounded
by `MaxFaults` so that "in the end" has a meaning. `EndsUpdated` also assumes
that the server repeats its offer. `KeepsOpening` is conditional: the button is
held again and again. In the modules with scenarios each condition reads
`WF_v(scenario = "x" /\ Action)`, which is trivially true in the others. In
`Rotation`, links come back and probes are repeated; in `Commands`, handlers
return and time passes. `Heartbeat`, `ConfigStore` and `PortalSession` have
safety properties only; "given up when the window is over" is one, since time
does not pass before.

## 4. What is proved

Every safety property of the passing runs is stated by a theorem, for every value
of the constants that the `ASSUME`s and the theorem's own hypotheses allow. Where
a hypothesis restricts the code's behaviour (calls that do not overlap, one task,
no form), section 5 says so of the model, and section 6 has the run in which the
property fails without it. `PROJECT.json` lists the theorems; here is what each
argument turns on.

* **Enrollment** (`EnrollProof`). `TypeCorrect`. `OneTask`: never two tasks, for
  any number of callers; `OneTaskAtATime` is not inductive, since start() may
  create a task without looking again. The invariant `HandleInv` adds that
  s_task names exactly the live task and that between start()'s test of the
  handle and the creation nobody else can set it. `RepliesInOrder`: over a
  stored token only nothing or the latest grant is written; it rests on one
  task at a time (`CredIsLatest`). `ProgressIsOwned` and `AttemptCodesAgree`
  assume a sole caller, with `SoleCallerInv`; with httpd inside
  start() as well they are false (either one in `MCEnroll_portal.cfg`), as is
  `StaleAttemptIsSilent` (section 6).
* **Lifecycle** (`LifecycleProof`). `LifecycleImplementsEnroll`: every step of
  the device is a step of the component or leaves it alone, so `OneTask` and
  `RepliesInOrder` hold in the device (`DeviceEnrollsInOrder`), and the
  sole-caller results while the portal is never opened. `CodeInUse`: the code in
  use is the current one outside the calls; the invariant excepts the moment
  between the handler's assignment and enroll_init's copy. `LifeTypesHold`.
* **The device before a form** (`SettledProof`). `DeviceKeepsItsWord`: until a
  form comes a DONE enrollment is coherent and MQTT has a confirmed token only,
  through any failures and power cuts; if no write or erase of NVS fails either,
  a device that was cut off once goes back to the issuer, with token and id of
  one grant. None of that is inductive: a token that is confirmed now was probed
  some steps ago, and the reply that made the state DONE may be half written.
  `CalmInv` says where loop() can be in each state (`PlaceInv`, `StateInv`),
  what a task at work finds around it (`TaskInv`), that a refusal which meets an
  attempt has nothing to lose (`RefusalInv`), how far a check or a commit has
  come (`CheckInv`, `CoherentInv`) and what a confirmation rests on
  (`ConfirmInv`). `OriginInv` follows the tokens back to their issuers: which
  server an attempt asks (`PostInv`), whose the tokens in RAM, NVS and transport
  are (`HomeInv`), what the note in NVS says (`NoteInv`), and that what a reset
  or a recovery erases was noted or is gone (`ErasedInv`, `PairInv`). One cut is
  the limit: a cut inside a reset leaves the id and the note of the old grant,
  and a second one, inside the writes of the next grant, joins its token to
  them. `TokensStayHome` is about tokens in use. MQTT has only a password of its
  own server, whatever fails, since the confirmation came from that server
  (`ConfirmHome`) and the client takes password and server together when it is
  started (`LinkMoves`). A heartbeat asks the issuer of its token, after one cut
  too if the issuer is noted and no write fails. And the POST of a recovery
  carries no token if no write fails: while `_reauth` is set the target stays
  what it was (`RecoveryStays`, and `FixedInv` for a server fixed by the
  sketch), and between the erasing of the token and the next grant there is none
  to carry (`BareRecovery`). The POST of a discovery is another matter: see
  section 6.
* **Offline queue** (`SketchProof`). `RingIsInOrder`, then `QueueKeepsWindow`:
  the ring implements `Window` under the mapping above, for any ring size,
  provided loop() does not run inside a flush. `RingInv` says which number
  belongs at each slot given the head, with the message publish() has in hand
  apart. `NothingIsLost`.
* **Scheduler** (`SketchProof`). `SlotsKeepTimers`: the slots implement `Timers`,
  for any number of slots and any delays, with `~Rearms`. The code compares
  32-bit differences; `DueFits` makes these tell before from after: a due time is
  at most `MaxLag` behind the clock and, with `MaxLag` added, at most half a turn
  ahead. `SlotsFit` has the identifiers apart, and `Mapped` ties a slot to the
  timer it stands for in a time that never wraps (`SlotsHold`).
* **Button** (`SketchProof`). `ButtonOpens`: with a finger off the button for
  longer than a pass (`PauseIsNoticed`), a hold of three seconds and two passes
  opens the portal, and it opens by the button only after three seconds without a
  break. `HoldInv` compares the code's count
  with the finger's: behind by one pass at most, never ahead, and a release is
  always seen.
* **Payload** (`SketchProof`). `FittingAreWhole`, for any tasks, and
  `PayloadsAreComplete` with one (`OneBuilder`). `LengthIs`: while a payload is
  open `_payload_len` is what its fields make, those that did not fit included,
  so an overflow cannot be forgotten; `Own`: the buffer has the fields asked for,
  or these do not fit.
* **Config store** (`RepliesProof`). `ServerValuesAreKept`: where no two keys
  share a cell, floats have at most three decimals and all firmwares of the
  device give a key the same default (`Representable`), a registered key has
  the value pushed last, through restarts, failed writes and any order of
  pushes and registrations. The
  invariant `ConfigInv` says what RAM, flash and the last push have to do with
  each other before and after the registration. `SketchIsTold` adds `ToldInv`:
  outside of a push nothing remains to be told, unless the key was registered
  through onConfig. `ConfigTypesHold`.
* **Heartbeat** (`RepliesProof`). `HeartbeatsComeInTime` and `ServerIsGivenUp`,
  for a device that is up for less than half a turn of millis() (`ClockIsShort`)
  and a window with room for an interval, an answer and an outage
  (`WindowIsWide`); the limits of both are entries of section 6. That only a silent server
  is given up does not follow from what the code stores. `QuietIsSpent` accounts
  for the time since the last answer: without a link, waiting for an answer, or
  before the next heartbeat was due, each of which is bounded.
  `HeartbeatTypesHold`.
* **Commands** (`RepliesProof`). `RegisteredAreCalled`: `TableGrows` says that
  on() only adds at the end and that at most the last entry is unready,
  `MessageFits` that what was ready when a message came is so still, and that
  the handler has been called by the time dispatch moves on.
* **OTA** (`ServerProof`). `OtaInvariant`, `OneUpdate`, `RestartIsChecked`,
  `FirmwareIsKept` while offers do not overlap an update and the boot selection
  can be taken back; `NewerIsTransitive` and `NewerIrreflexive` on sequences of
  any length: updates only go up.
* **Tokens** (`ServerProof`). `TokensLast`, the safety of `TokenLasts`, for a
  server that withdraws what it has seen replaced: NVS is as good as the token in
  use and no accepted token is erased. `TokenInv`: NVS has the token of the
  requests, the password is one that was probed, and once the server has been
  shown its newest, that is the one in use.
* **Restart on command** (`ServerProof`). `HandlerHasItsSecond`, the safety of
  `RestartIsDone`. `RestartInv` adds up two halves of a second that neither the
  code nor the property mentions: the ticks to go until the restart and those
  since the handler make a delay, or the restart is late by a pass at most. It
  uses a delay and a pass that together are less than half a turn.
* **Transport target** (`TargetProof`). `OneClientHolds`: while loop() does not
  run inside the waits of transport_start there is never a second client; the
  invariant `OneInv` says which task may stand between the test and the write.
  `DialsAsToldHolds`: where the server is fixed and every server names a broker,
  the client dials the one that the token's server named last; `BrokerInv`
  relates the endpoint in RAM, its key in NVS and the client from one restart
  to the next. `HostIsTargetHolds` and `ServerIsFollowed` are about a search:
  `HostInv` says that a name being resolved is the target's, `ServedInv` that
  what is kept of a broker comes from the server that issued the token. They
  need a portal that names no server, and the second a fixed server or no
  restart. `TargetTypesHold`. `ServerProof` takes them into the scenarios of
  `MCServer`: `Search` is `TargetProof` with the constants of a search
  (`ServerTypesHold`, `OneClientInEach`, `SearchIsFollowed`, `DialsInEach`).
* **WiFi** (`LocalProof`). `ReportsAreTrue`: CONNECTED means a link, or the event
  that it is lost is pending; the invariant `LinkInv` follows the driver's state
  through the moments between an event and its handling. `StoreInvariant` and
  `ListInUseIsStored`: `StoreInv` says which keys a save has written at each of
  its places (`WritesDone`), whose save it is and what follows it (`WhoSaves`),
  and that between saves RAM, NVS and manager agree (`InUse`). `ListsSurvive`
  adds `LeftInv`, which must know that a device is seeded before the user can
  drop a network; it holds with `MaxCreds > 1`, as in the code, which has three
  slots. With one, a migrated network fills the list, nothing can be seeded after
  a cut, and the mark is never set (`MCLocal_site.cfg` with `MaxCreds = 1`,
  `MaxFaults = 4`: `DroppedStaysDropped`).
* **Portal** (`LocalProof`). While calls do not overlap: `DnsIsSingle`,
  `RunningIsReachable`, `StopCloses`, from one invariant (`PortalInvariant`) that
  says for each place in start() and stop() what the server handle, the port,
  the access point and the DNS handle are. `PortalTypesHold` without that
  hypothesis.
* **Session** (`LocalProof`). `SessionsAreCurrent`: a session is made in an
  opening and cleared by the next and by the closing, whichever task does it;
  `CalmInv` adds, for calls that do not overlap, that the copy the trampoline has
  read is current and that after an erasure nobody writes.
* **Types** of the joined modules: `LocalTypesHold`, `RepliesTypesHold`.

Where an argument needs induction over data (the sum of the lengths of a
payload, the lists a save or a seeding makes entry by entry) the proofs take the set of
numbers for which a fact holds, and show that it has them all from the fact of
the library that a set of numbers with any in it has a least one. The library's theorems
that take an operator, and RECURSIVE operators, are out of the provers' reach;
the modules that are proved about use recursive functions.

Model-checked only: liveness under fairness, which is out of the prover's reach.
That is `HandleReleased`, `ComesOnline`, `OtaEndsUpdated`, `WifiEndsConnected`,
`PortalKeepsOpening`, the half of `TimersRun` named `DueTimersRun`, and those of
`TargetFollowsServer` (`FollowsServer`), `TokenLasts` (`Reconnects`) and
`RestartIsDone` (`TakenIsDone`).

## 5. Restrictions of the models

* `FlushYields = FALSE` (`OfflineQueue`): loop() does not run while the MQTT task
  is in flush_queue. True on one core as long as esp_mqtt_client_publish does
  not block. With TRUE, `NothingLost` fails: see section 6.
* `Rearms = FALSE` (`Scheduler`): a callback that has cleared its own timer does
  not set another into the slot the tick stands at.
* `Overlap = FALSE` (`Ota`): no offer is handled while another is being handled,
  or while an update is announced or waits for its restart.
* `Overlap = FALSE` (`Portal`): start() and stop() are not called while another
  call of them is under way. The DNS task runs at any time.
* `WifiManager`: a WiFi event is handled before the next step of loop() or httpd
  except within disconnect(); apply() and tick() are single steps; a connect
  while one is under way is refused, and one while linked drops the link; the
  page in enroll mode only offers the form; the length of a backoff is abstract.
* `SelectFails = FALSE` (`Ota`): esp_ota_set_boot_partition succeeds. The code
  ignores its result (pulsync_ota.c:462, 470).
* `WifiStore`: the writes of a save succeed, each by itself, and a power cut may
  fall between any two. pulsync_wifi_store.c:178-199 ignores their results.
* `Portal`, `Lifecycle`: httpd_stop called from a handler of the same server is
  taken to return and let the handler finish, as the code expects. One httpd
  handler runs at a time.
* `Lifecycle`: `NvsFails = FALSE` in the runs. The writes and erases of token_srv,
  the code and the server may fail like those of the credentials (`WriteFails`),
  and the theorems say which of their claims need that none does. A server
  judges an enrollment by its pairing code, whatever token the header carries.
  The requests of an update carry the same header and are not modelled.
* `life_cores`: a behaviour has a form or has failures and restarts, not both.
  After a form `DoneIsCoherent`, `RememberedIssuer` and `OnlyConfirmedTokens`
  fail (section 6), and before one they hold; `RememberedIssuer` and
  `OneGrantStored` up to the second power cut (section 6).
* `Target`: writes of NVS succeed. `Yields = FALSE`: loop() does not run while the MQTT task waits in
  stop or start. `MaxForms = 1` and `MaxBoots = 2` in `fixed`, neither in a
  search: a form while a name is being resolved and a restart with a broker left
  over are entries of section 6.
* `Heartbeat`: a unit of time is 30 seconds, a server that is up answers within
  `MaxAnswer`, and the link is missing for at most `MaxOutage`, less than the
  window; `hb_outage` lifts this. `Wrap` is larger than the clock reaches: the
  probe of a device that was online for 2^31 ms is an entry of section 6.
* `Rotation`: the server of `prudent` withdraws a token when the next has been
  seen in a request; that of `abrupt` at any time, and `NvsFails`.
* `Payload`: sizes of 10 for 512, 6 for send() and 8 for a slot; one task.
* `Commands`: one command in a message; `Delay`, `Slow` and `Wrap` in ticks, with
  `2 * (Delay + Slow) < Wrap` as in the code; one reboot command in `reboot`.
* `ConfigButton`: `Slow` is the longest time between passes, and a finger is off
  the button for at least `Pause` ticks, longer than a pass.
* `PortalSession`: in `calm` the networks fail while the portal is closed, no
  other task runs inside the trampoline, and no reply comes during a factory
  reset; in `any` all of it may happen.
* Integers that only count (attempts, grants, timers set) do not wrap; the
  attempt counter is 32 bits and the timer identifier 16 bits in the code.
* What a user types, JSON, URLs, HTML and log lines are model values or left out.

## 6. Where the code and its words disagree

Four disagreements are runs (`findings` in `PROJECT.json`):

* `life_stuck`: on two cores loop() sees FAILED, moves on to the next candidate
  and calls start() before enroll_task has cleared `s_task` (line 186). start()
  is refused, discovery waits in WAIT for a state nobody will set. README.md:49
  says it retries.
* `ota_cut`: esp_https_ota_finish selects the new slot before the checksum is
  compared; a power cut in between boots an image that fails it. README.md:160
  says a mismatch keeps the running firmware.
* `hb_outage`: the age of the last answer is tested in the first pass after WiFi
  has returned, before a heartbeat can be sent (PulsyncClass.cpp:516). An outage
  of more than two minutes makes the device erase its token and search, although
  its server answers. PulsyncClass.cpp:510 says the server "has stopped
  answering".
* `rotation_key`: a rotated token does not reach `s_device_token` of
  pulsync_enroll.c, from which pulsync_ota.c:78 derives the signing key, before
  the next restart. README.md:165 says "rotating the token rotates the key
  automatically".

The following were reproduced with the models but are not kept as runs. Each
entry says what to change.

| what | how to see it |
|---|---|
| A power cut between the commit of the credentials and the note of their server (PulsyncClass.cpp:617, 643) makes the next boot send the token of the local server to the cloud, against "stick to the server the token was issued by" (line 356). | `MCLifecycle_auto.cfg` with `LifeSpec`, `Worlds = {{"local"}}`, `MaxFaults = 0`, `MaxReboots = 1`: `TokenStaysHome` |
| Every request carries the token the transport has (pulsync_transport.c:588), and a rediscovery (PulsyncClass.cpp:515-527) leaves it there: the enrollment POST takes the token of the old server to the next candidate, against "stick to the server the token was issued by" (line 356). A recovery clears it first (416). | `MCLifecycle_auto.cfg`: `TokenStaysHome` |
| The results of the writes and of the erase of token_srv are ignored (PulsyncClass.cpp:525, 617, 643). If one fails, the note of an older grant stays, and the next boot sends the token to that server, against line 356. | `MCLifecycle_auto.cfg` with `LifeSpec`, `NvsFails = TRUE`, `MaxReboots = 1`: `RememberedIssuer` |
| A power cut between the two erasures of a reset (pulsync_enroll.c:332) and another between the two writes of the next grant (271) leave the new token with the old id and the old note of the server; the boot takes the device for enrolled with that server, against PulsyncClass.cpp:356. | `MCLifecycle_cores.cfg` with `MaxSubmits = 0`: `RememberedIssuer`, `OneGrantStored` |
| An attempt invalidated between its test (pulsync_enroll.c:173) and its commit overwrites the newer state, against the comment at line 171. Memory, NVS and the remembered server then disagree, and MQTT can start with a token that was not probed. | `MCLifecycle_cores.cfg` with `LifeSpec`, `Worlds <- CloudOnly`, `MaxFaults = 0`, `MaxReboots = 0`: `StaleAttemptIsSilent`. `MCLifecycle_cores.cfg`: `DoneIsCoherent`, `RememberedIssuer`, `OnlyConfirmedTokens` |
| flush_queue and publish() at once lose a message (pulsync_transport.c:175) that pulsync_transport.h:88 calls sent or queued. | `MCSketch_calls.cfg` with `FlushYields = TRUE`: `NothingLost` |
| A message of more than 255 characters is cut when it is queued (pulsync_transport.c:146), and publish() returns true, against pulsync_transport.h:88 "true if sent or queued". | `Payload` with `Tasks = {"loop"}`, `Room = 12`, `Short = 6`, `Slot = 5`, `Lengths = {1, 2}`, `MaxFields = 3`: `QueuedWhole` |
| Fields beyond the buffer leave `_payload_len` past it; endPayload() adds no brace and publishes more bytes than there are (PulsyncClass.cpp:769, Pulsync.h:147). | `Payload` with `Tasks = {"loop"}`, `Room = 10`, `Short = 12`, `Slot = 9`, `Lengths = {1, 4}`, `MaxFields = 3`: `WholeText` |
| A payload built in a command handler, on the MQTT task, restarts the one loop() is building (PulsyncClass.cpp:756, Pulsync.h:147). | `Payload` with `Tasks = {"loop", "mqtt"}`, `Room = 12`, `Short = 6`, `Slot = 11`, `Lengths = {1, 2}`, `MaxFields = 3`: `OwnFields` |
| The C++ table is exhausted by entries that are never given back while the scheduler is empty (PulsyncClass.cpp:718): 0 is returned, which pulsync_scheduler.h explains as "scheduler is full". | `MCSketch_calls.cfg` with `Entries = 2`: `RefusedOnlyWhenFull` |
| A callback that clears its own timer and sets another loses the new one (pulsync_scheduler.c:102). | `MCSketch_calls.cfg` with `Rearms = TRUE`: `KeepsTimers` |
| portal_needed on sys_evt opens the portal while stop() waits for the DNS task; stop() then leaves AP mode. The portal reports RUNNING without an access point, and start() answers true at once for ever after. | `MCLocal_site.cfg` with `Overlap = TRUE`: `OpenIsReachable` |
| A second offer in AVAILABLE or READY starts a second OTA task (pulsync_ota.c:556), against "false if already in progress" (pulsync_ota.h:76). | `MCServer_long.cfg` with `Overlap = TRUE`: `OneUpdateAtATime` |
| The result of esp_ota_set_boot_partition is ignored (pulsync_ota.c:462, 470): where it fails, the image that was refused boots next, against README.md:160. | `MCOta_cut.cfg` with `SelectFails = TRUE`: `FailedKeepsFirmware` |
| Two keys with the same first 11 characters share one NVS cell (pulsync_config.c:71), against "persistence across reboots" (pulsync_config.h:5). | `MCReplies_server.cfg` with `Keys <- TwoKeys`, `Cell <- OneCell`, `Type <- AllInt`, `Default <- ZeroDefault`: `ServerValueKept` |
| A pushed value that equals the default is not saved (pulsync_config.c:217), so a firmware with another default shows that, although the server has set the key (pulsync_config.h:64). | the same with `Cell <- OwnCell`, `Default <- NewDefault`: `ServerValueKept` |
| onConfig passes no C callback and nothing registers the generic one, so its function is never called (PulsyncClass.cpp:956), against Pulsync.h:188. | `MCReplies_server.cfg` with `Facade = TRUE`: `ToldTheValue` |
| The HTTPS probe arms the window before the first connection (PulsyncClass.cpp:514), against "a slow first connect doesn't trip it" (512). | `Heartbeat_outage.cfg`: `SlowConnectKept` |
| With an interval above two minutes every pause gives the server up: the window does not grow with it (PulsyncClass.cpp:516, Pulsync.h:201). | `Heartbeat_outage.cfg` with `Intervals = {5}`, `MaxOutage = 0`: `AnsweringServerKept` |
| `_https_hb_at` is set by failed probes only; more than 2^31 ms later the probe waits for the counter to wrap (PulsyncClass.cpp:481, against 478). | `Heartbeat_outage.cfg` with `Wrap = 16`, `MaxOutage = 2`: `ProbedInTime` |
| `_applyServerCandidate` clears the broker that begin() has just restored (PulsyncClass.cpp:585, against 342), if the server does not repeat it. | `MCTarget` with `Pinned = "none"`, `Advertised <- CloudOnly`, `Repeats = FALSE`, `Yields = FALSE`, `MaxMoves = 0`, `MaxForms = 0`, `MaxBoots = 1`, `MaxFailures = 2`: `DialsAsTold` |
| A server set in the portal keeps the broker of the one before (PulsyncClass.cpp:1264), against "we keep deriving" (pulsync_enroll.c:287). | the same with `MaxForms = 1`, `MaxBoots = 0`, `MaxFailures = 1`: `DerivesWhenUntold` |
| The address of a resolved name replaces a server that was set meanwhile (pulsync_transport.c:374, pulsync_transport.h:175). | the same with `MaxForms = 1`, `MaxBoots = 0`, `MaxFailures = 0`: `HostIsTarget` |
| loop() and the MQTT task both start a client (pulsync_transport.c:413), against "no-op if already started" (PulsyncClass.cpp:495). | `MCTarget` with `Pinned = "local"`, `Advertised <- AllHandOut`, `Repeats = FALSE`, `Yields = TRUE`, `MaxMoves = 1` and the other bounds 0: `OneClient` |
| A link lost after the server has withdrawn the old token makes the CONNECT fail with the old password, and the new token is erased (pulsync_heartbeat.c:184, against PulsyncClass.cpp:400). | `Rotation_key.cfg` with `Careful = FALSE`, `MaxDrops = 1`: `OnlyWithdrawnErased` |
| A second reboot command within the second has its handler cut short (PulsyncClass.cpp:1103, against 1101). | `Commands` with `Names = {"reboot"}`, one message of that command, `MaxHandlers = 2`, `Delay = 2`, `Wrap = 16`, `Slow = 2`, `MaxMessages = 2`: `RestartAfterHandler` |
| When millis() + 1000 is 0 the restart is forgotten (PulsyncClass.cpp:1104, against 1102). | the same with `MaxMessages = 1` and `FairCommandsSpec`: `StillRestarts` |
| Of several commands in a reply the first is dispatched (PulsyncClass.cpp:1189, against 1186), with the first "value" of the text (1073, against Pulsync.h:159). | `Commands` with a message of two commands, the first without a value: `EachElement`, `OwnValue` |
| A hold of five seconds erases nothing (PulsyncClass.cpp:538, against Pulsync.h:206). | `ConfigButton` with `Hold = 3`, `Long = 5`, `Slow = 2`, `Pause = 3`, `MaxFaults = 1`: `HoldErases` |
| A release between two passes of a slow loop() is not seen (PulsyncClass.cpp:535, against 539). | the same with `Pause = 0`: `HeldThroughout` |
| Networks that fail while the menu is open turn it into the enroll form (PulsyncClass.cpp:63, against pulsync_portal.h:81). | `PortalSession` with the constants of `AnyTime` in `MCLocal`, bounds of 2, `Interrupts = FALSE`, `Pushes = FALSE`: `MenuStays` |
| A list saved while portal_needed_trampoline has its copy is replaced on the pages by the one before (PulsyncClass.cpp:68, against pulsync_portal.h:104). | the same with `Interrupts = TRUE`: `ListShown` |
| The enroll form of an enrolled device asks for the password (pulsync_portal.c:407, against pulsync_portal.h:114). | `PortalSession` with the constants of `Calmly` and bounds of 2: `EnrollNotGated` |
| A reply between the erasing of NVS and the restart stores a hash or token again (PulsyncClass.cpp:56, against pulsync_portal.c:532). | the same with `Pushes = TRUE`: `FreshAfterReset` |

Met while reading, and visible in the models, but contradicted by no line of the
repository, so that no property is stated: a FAILED outside a recovery (after a
re-pair that failed) is never retried (PulsyncClass.cpp:462); a server saved
while discovery runs is overwritten by the next candidate (1254); the re-pair
handler's stop can be followed by a start that loop() had already decided on
(1271-1273); `_token_ok` survives a re-pair (1274) until the state has been seen
as not DONE (494); a pairing code refused with 401 raises the flag that later
erases a fresh token (pulsync_transport.c:612); the DNS task created at
pulsync_portal.c:1124 ends at once when it gets to its loop before line 1128,
and the portal then runs without captive-portal detection; a list emptied before
a link is lost leaves nobody to retry until Exit; a legacy network whose erasure
was cut off comes back when the user later empties the list
(pulsync_wifi_store.c:100-105); `s_profile_retries` is not reset on a connect
(pulsync_wifi.c:150-158); the config menu's save does not set `wifi_seeded`; a
broker pushed in a reply makes the task of the MQTT client stop its own client
(PulsyncClass.cpp:1127), which the ESP-IDF library forbids.

## 7. Not modelled, and why

* URL and form parsing, the search for keys in JSON, HTML, the length of a
  backoff, log lines: text with no state. What the properties need of them (the
  first "value" of a reply, the cut of a key to 11 characters) is modelled.
* The HTTP client, the MQTT client, esp_wifi, NVS, FreeRTOS: external libraries,
  modelled by what the code relies on.
* The signature of offers (HKDF, HMAC, hex): no state; `rotation_key` is about the
  token it is derived from.
* The WiFi scan of the portal, device name and descriptions: no other component
  reads them.
* `optional/`: headers without code. Examples and the partition table: data.

## 8. Plan

The order in which the project grows; all but the last two blocks are done.

1. `Enroll`, `Lifecycle`, `OfflineQueue`/`Window`, `Scheduler`/`Timers`, `Ota`,
   `WifiStore`, `WifiManager`, `Portal`, each with its run.
2. `ConfigStore`, `Target`, `Rotation`, `Heartbeat`, `Payload`, `Commands`,
   `ConfigButton`, `PortalSession`.
3. Proofs: the safety properties of the runs (section 4).
4. Proofs of what only entries of section 6 bound so far: the target across
   forms that come while no name is being resolved; an abstract specification of the portal
   (closed, opening, open, closing) and of the target (a server and its broker)
   that the modules implement.
5. Compositions: `Portal` with `WifiManager` (who calls portal_needed while a
   stop is under way), `WifiManager` with `Lifecycle` (its `wifi` flag), `Target`
   with `Lifecycle` (one `server` for both).
