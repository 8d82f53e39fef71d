----------------------------- MODULE Scheduler -----------------------------
(***************************************************************************)
(* The cooperative scheduler (src/src/core/pulsync_scheduler.c) and the     *)
(* table of std::function callbacks that PulsyncClass keeps before it.      *)
(* All of it runs on the loop task; what interleaves is user code: between  *)
(* two ticks, and inside a callback, while the tick stands at its slot.     *)
(* pulsync_millis() is a counter modulo Wrap (2^32).                        *)
(***************************************************************************)
EXTENDS Integers

CONSTANTS
  MaxTasks,  \* PULSYNC_MAX_TASKS
  Entries,   \* MAX_SCHED_CBS; a bound on the calls where the C API is used alone
  Wrap,      \* modulus of pulsync_millis()
  Delays,    \* delays and intervals asked for
  Rearms,    \* a callback that has cleared its own timer may set another one
             \* in the slot of it
  MaxClock,  \* bound on time
  MaxLag     \* bound on how late loop() comes to a due timer

ASSUME SchedulerAssumption ==
  /\ MaxTasks \in Nat \ {0} /\ Entries \in Nat /\ Wrap \in Nat \ {0} /\ Wrap % 2 = 0
  /\ Rearms \in BOOLEAN /\ MaxClock \in Nat /\ MaxLag \in Nat \ {0}
  /\ Delays \subseteq Nat /\ \A d \in Delays : d + MaxLag <= Wrap \div 2

VARIABLES
  tasks,    \* s_tasks; an identifier is the number of the call that took it
  calls,    \* successful calls so far: s_next_id - 1, and the entries in use
  clock,    \* milliseconds since boot, not wrapped
  i,        \* the slot at which the tick stands; MaxTasks: no tick is under way
  now,      \* local of the tick, not wrapped
  inside,   \* the callback of slot i runs
  answer    \* what the last call answered: an identifier, or 0

schedulerVars == <<tasks, calls, clock, i, now, inside, answer>>

TaskSlots == 0 .. MaxTasks - 1
Kind == {"TIMEOUT", "INTERVAL"}
Used == {j \in TaskSlots : tasks[j].type # "EMPTY"}
Full == Used = TaskSlots

(* time_reached: the sign of a 32-bit difference. *)
Reached(t, target) == (t - target) % Wrap < Wrap \div 2

(* User code runs between ticks and inside a callback. *)
UserRuns == i = MaxTasks \/ inside

-----------------------------------------------------------------------------
(* Mutants, used by no action. *)

\* a one-shot timer keeps its slot
MutCallbackEnds ==
  /\ inside
  /\ inside' = FALSE /\ i' = i + 1
  /\ tasks' = [tasks EXCEPT ![i].next_run = (now + tasks[i].interval) % Wrap]
  /\ UNCHANGED <<calls, clock, now, answer>>

-----------------------------------------------------------------------------
(* find_free_slot: the first free one. *)
FirstFree(j) == j \in TaskSlots \ Used /\ \A k \in TaskSlots \ Used : j <= k

(* setTimeout, setInterval: an entry of the C++ table, then a slot. *)
Set(k, d) ==
  /\ UserRuns
  /\ calls < Entries
  /\ calls' = calls + 1 /\ answer' = calls + 1
  /\ \E j \in TaskSlots :
       /\ FirstFree(j) /\ (inside /\ j = i => Rearms)
       /\ tasks' = [tasks EXCEPT ![j] =
            [type |-> k, id |-> calls + 1, interval |-> d, next_run |-> (clock + d) % Wrap]]
  /\ UNCHANGED <<clock, i, now, inside>>

(* The entry is given back only when there is no slot. *)
SetRefused ==
  /\ UserRuns
  /\ calls = Entries \/ Full
  /\ answer' = 0
  /\ UNCHANGED <<tasks, calls, clock, i, now, inside>>

(* pulsync_clear_task: the slot is empty, the entry stays taken. *)
Clear ==
  /\ UserRuns
  /\ \E j \in Used : tasks' = [tasks EXCEPT ![j].type = "EMPTY"]
  /\ UNCHANGED <<calls, clock, i, now, inside, answer>>

-----------------------------------------------------------------------------
(* pulsync_scheduler_tick *)

TickBegins ==
  /\ i = MaxTasks
  /\ i' = 0 /\ now' = clock
  /\ UNCHANGED <<tasks, calls, clock, inside, answer>>

Due(j) == tasks[j].type # "EMPTY" /\ Reached(now, tasks[j].next_run)

Skip ==
  /\ i \in TaskSlots /\ ~inside /\ ~Due(i)
  /\ i' = i + 1
  /\ UNCHANGED <<tasks, calls, clock, now, inside, answer>>

CallbackBegins ==
  /\ i \in TaskSlots /\ ~inside /\ Due(i)
  /\ inside' = TRUE
  /\ UNCHANGED <<tasks, calls, clock, i, now, answer>>

(* After the callback the slot is read again, whatever it now holds. *)
CallbackEnds ==
  /\ inside
  /\ inside' = FALSE /\ i' = i + 1
  /\ tasks' = IF tasks[i].type = "TIMEOUT"
              THEN [tasks EXCEPT ![i].type = "EMPTY"]
              ELSE [tasks EXCEPT ![i].next_run = (now + tasks[i].interval) % Wrap]
  /\ UNCHANGED <<calls, clock, now, answer>>

Tick == TickBegins \/ Skip \/ CallbackBegins \/ CallbackEnds

(* The time at which slot j is due: the one nearest to the clock that is    *)
(* next_run modulo Wrap.                                                    *)
DueTime(j) == clock + ((tasks[j].next_run - clock + Wrap \div 2) % Wrap) - Wrap \div 2

TimePasses ==
  /\ clock < MaxClock
  /\ \A j \in Used : clock < DueTime(j) + MaxLag
  /\ i # MaxTasks => clock < now + MaxLag
  /\ clock' = clock + 1
  /\ UNCHANGED <<tasks, calls, i, now, inside, answer>>

SchedulerInit ==
  /\ tasks = [j \in TaskSlots |-> [type |-> "EMPTY", id |-> 0, interval |-> 0, next_run |-> 0]]
  /\ calls = 0 /\ clock = 0 /\ i = MaxTasks /\ now = 0 /\ inside = FALSE /\ answer = 0

SchedulerNext ==
  \/ \E k \in Kind, d \in Delays : Set(k, d)
  \/ SetRefused \/ Clear
  \/ Tick \/ TimePasses

SchedulerSpec == SchedulerInit /\ [][SchedulerNext]_schedulerVars

(* loop() is called for ever and a callback returns. *)
SchedulerFairness == WF_schedulerVars(Tick)
SchedulerFairSpec == SchedulerSpec /\ SchedulerFairness

-----------------------------------------------------------------------------
SlotOf(id) == CHOOSE j \in Used : tasks[j].id = id

ActiveIds == {tasks[j].id : j \in Used}

ActiveTimers ==
  [id \in ActiveIds |->
     [type |-> tasks[SlotOf(id)].type, every |-> tasks[SlotOf(id)].interval,
      due |-> DueTime(SlotOf(id))]]

Running == IF inside THEN tasks[i].id ELSE 0

T == INSTANCE Timers WITH Ids <- 1 .. Entries, timers <- ActiveTimers, running <- Running

(* The slots keep what the timers promise, across the wraparound of the     *)
(* millisecond counter and whatever the callbacks set and clear: no timer   *)
(* runs early, is lost, or is cancelled in the place of another.            *)
KeepsTimers == T!Spec

(* A timer that is due runs, unless it is cancelled first. *)
DueTimersRun ==
  \A id \in 1 .. Entries :
    (\E j \in Used : tasks[j].id = id /\ DueTime(j) <= clock)
      ~> Running = id \/ id \notin ActiveIds

(* A call is refused only by a full scheduler: "Returns task ID (>0) on     *)
(* success, 0 if scheduler is full".                                        *)
RefusedOnlyWhenFull == [][answer # 0 /\ answer' = 0 => Full]_schedulerVars
=============================================================================
