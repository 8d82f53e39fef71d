------------------------------ MODULE Commands ------------------------------
(***************************************************************************)
(* The commands of the server (src/src/PulsyncClass.cpp): the table that    *)
(* on() fills from the sketch, the dispatch in _handleRx, which runs in the *)
(* task of the MQTT client, and the built-in reboot, which loop() carries   *)
(* out.                                                                     *)
(*                                                                          *)
(* A message is the sequence of its commands: one on the command topic, any *)
(* number in the "commands" of a heartbeat reply.  A tick of the clock is a *)
(* part of the second that the reboot waits.                                *)
(***************************************************************************)
EXTENDS Integers, Sequences, SequencesExt, FiniteSetsExt

CONSTANTS
  Names,       \* the names that the sketch registers, none of them empty
  Messages,    \* the messages that the server sends
  MaxHandlers, \* MAX_CMD_HANDLERS
  Delay,       \* ticks from the end of a reboot command to the restart
  Wrap,        \* millis() returns to 0 after this many ticks
  Slow,        \* loop() comes around at least every so many ticks
  MaxMessages  \* bound on the messages that are received

Nothing == 0  \* the value of a command whose payload has none
NoName == ""  \* the name of an entry that has not got its own

CommandsAssumption ==
  /\ NoName \notin Names
  /\ \A m \in Messages : Len(m) > 0 /\ \A i \in DOMAIN m : m[i].value \in Nat
  /\ MaxHandlers \in Nat /\ MaxMessages \in Nat
  /\ Delay \in Nat \ {0} /\ Slow \in Nat
  /\ Wrap \in Nat /\ 2 * (Delay + Slow) < Wrap

VARIABLES
  table,     \* _cmd_handlers, as far as _cmd_handler_count
  adding,    \* the name that on() is registering, or NoName
  at,        \* where _handleRx is
  message,   \* the message it handles
  known,     \* the names whose on() had returned when it arrived
  calls,     \* the calls of handlers that it led to
  reboot_at, \* _reboot_at
  clock,     \* millis()
  since,     \* ticks since a reboot handler returned, up to Delay
  received,  \* the messages received
  restarted  \* esp_restart() has been called

rx == <<at, message, known, calls, received>>
time == <<reboot_at, clock, since>>
vars == <<table, adding, rx, time, restarted>>

Ready == {table[i].name : i \in {j \in DOMAIN table : table[j].ready}}

Command == Head(message).name

-----------------------------------------------------------------------------
(* Mutants, used by no action. *)

\* a name is compared with the last entry alone
MutMatches == {i \in DOMAIN table : i = Len(table) /\ table[i].name = Command}

\* the times are compared as they are
MutRestartDue == reboot_at # 0 /\ clock >= reboot_at

\* the time of the restart is not taken to 32 bits
MutRebootTime == clock + Delay

-----------------------------------------------------------------------------
(* on(), onInt() and the others, in the sketch: the entry is counted before *)
(* it has its name, and has its name before its callback.  A full table     *)
(* ignores the call.                                                        *)

On(n) ==
  /\ adding = NoName /\ Len(table) < MaxHandlers
  /\ adding' = n
  /\ table' = Append(table, [name |-> NoName, ready |-> FALSE])
  /\ UNCHANGED <<rx, time, restarted>>

OnNames ==
  /\ adding # NoName /\ Last(table).name = NoName
  /\ table' = [table EXCEPT ![Len(table)].name = adding]
  /\ UNCHANGED <<adding, rx, time, restarted>>

OnReturns ==
  /\ adding # NoName /\ Last(table).name = adding
  /\ table' = [table EXCEPT ![Len(table)].ready = TRUE]
  /\ adding' = NoName
  /\ UNCHANGED <<rx, time, restarted>>

-----------------------------------------------------------------------------
(* _handleRx *)

Receive(m) ==
  /\ at = "idle" /\ received < MaxMessages
  /\ at' = "match" /\ message' = m /\ known' = Ready /\ calls' = <<>>
  /\ received' = received + 1
  /\ UNCHANGED <<table, adding, time, restarted>>

(* strcmp() with the entries, in their order. *)
Matches == {i \in DOMAIN table : table[i].name = Command}

Callable == Matches # {} /\ table[Min(Matches)].ready

(* _json_extract: the first "value" in the text, whoever's it is. *)
Extracted ==
  LET with == {i \in DOMAIN message : message[i].value # Nothing}
  IN  IF with = {} THEN Nothing ELSE message[Min(with)].value

(* The first "command" of the text is the one that is dispatched. *)
Match ==
  /\ at = "match"
  /\ at' = IF Callable THEN "handler" ELSE "builtin"
  /\ calls' = IF Callable THEN <<[name |-> Command, value |-> Extracted]>> ELSE <<>>
  /\ UNCHANGED <<table, adding, message, known, received, time, restarted>>

HandlerReturns ==
  /\ at = "handler"
  /\ at' = "builtin"
  /\ since' = IF Command = "reboot" THEN 0 ELSE since
  /\ UNCHANGED <<table, adding, message, known, calls, received, reboot_at, clock, restarted>>

Reboots == Command = "reboot" /\ reboot_at = 0

RebootTime == (clock + Delay) % Wrap

Builtin ==
  /\ at = "builtin"
  /\ at' = "idle"
  /\ reboot_at' = IF Reboots THEN RebootTime ELSE reboot_at
  /\ UNCHANGED <<table, adding, message, known, calls, received, clock, since, restarted>>

-----------------------------------------------------------------------------
(* loop() *)

Late == (clock - reboot_at) % Wrap

RestartDue == reboot_at # 0 /\ Late < Wrap \div 2

Restart ==
  /\ RestartDue
  /\ restarted' = TRUE
  /\ UNCHANGED <<table, adding, rx, time>>

Tick ==
  /\ RestartDue => Late < Slow
  /\ clock' = (clock + 1) % Wrap
  /\ since' = Min({since + 1, Delay})
  /\ UNCHANGED <<table, adding, rx, reboot_at, restarted>>

Init ==
  /\ table = <<>> /\ adding = NoName
  /\ at = "idle" /\ message = <<>> /\ known = {} /\ calls = <<>> /\ received = 0
  /\ reboot_at = 0 /\ clock = 0 /\ since = Delay
  /\ restarted = FALSE

Sketch == (\E n \in Names : On(n)) \/ OnNames \/ OnReturns
Dispatch == Match \/ HandlerReturns \/ Builtin

Next ==
  /\ ~restarted
  /\ Sketch \/ (\E m \in Messages : Receive(m)) \/ Dispatch \/ Restart \/ Tick

CommandsSpec == Init /\ [][Next]_vars

(* Handlers return, loop() comes around and time passes. *)
CommandsFairness ==
  /\ WF_vars(~restarted /\ Dispatch) /\ WF_vars(~restarted /\ Restart) /\ WF_vars(~restarted /\ Tick)

FairCommandsSpec == CommandsSpec /\ CommandsFairness

-----------------------------------------------------------------------------
CommandsTypeOK ==
  /\ Len(table) <= MaxHandlers
  /\ at \in {"idle", "match", "handler", "builtin"}
  /\ reboot_at \in 0 .. Wrap - 1 /\ clock \in 0 .. Wrap - 1 /\ since \in 0 .. Delay
  /\ at # "idle" => message \in Messages
  /\ known \subseteq Ready

(* A command calls the handler that on() had registered when it arrived,    *)
(* also while another is being registered (Pulsync.h:158, "server sends     *)
(* {"command":"name","payload":{"value":X}}").                              *)
RegisteredIsCalled ==
  at \in {"handler", "builtin"} /\ Command \in known => calls # <<>>

(* A handler for "reboot" has returned a full second before the restart     *)
(* (PulsyncClass.cpp:1101, "A user on("reboot") handler above runs first    *)
(* (save state, turn outputs off)").                                        *)
RestartAfterHandler ==
  [][restarted' => ~(at = "handler" /\ Command = "reboot") /\ since >= Delay]_restarted

(* A reboot that has been taken is carried out, across the wraparound of    *)
(* millis() too.                                                            *)
TakenIsDone == reboot_at # 0 ~> restarted

(* Whatever its handler does, a reboot command restarts the device          *)
(* (PulsyncClass.cpp:1102, "The library still restarts").                   *)
StillRestarts == (at = "match" /\ Command = "reboot") ~> restarted

(* Every command of a message that has a handler is dispatched              *)
(* (PulsyncClass.cpp:1186, "Commands is an array - dispatch each element"). *)
EachElement ==
  at = "builtin" =>
    \A i \in DOMAIN message : message[i].name \in known =>
       \E c \in DOMAIN calls : calls[c].name = message[i].name

(* A handler gets the value of its own command (Pulsync.h:159, "The library *)
(* extracts "value" and passes it directly").                               *)
OwnValue == \A c \in DOMAIN calls : \E i \in DOMAIN message : calls[c] = message[i]
=============================================================================
