---------------------------- MODULE ConfigButton ----------------------------
(***************************************************************************)
(* The button of the device, which loop() samples on every pass             *)
(* (src/src/PulsyncClass.cpp), and what becomes of the portal and of the    *)
(* settings by it.                                                          *)
(*                                                                          *)
(* A tick is a part of a second.  loop() comes around after at most Slow    *)
(* ticks: a request to the server or a name to resolve may hold it up.      *)
(***************************************************************************)
EXTENDS Integers, FiniteSetsExt

CONSTANTS
  Hold,      \* ticks after which the portal is opened
  Long,      \* ticks after which the documentation promises a reset
  Slow,      \* ticks between two passes of loop(), at most
  Pause,     \* ticks between a release and the next press, at least
  MaxFaults  \* bound on the openings that fail

ButtonAssumption ==
  /\ Hold \in Nat \ {0} /\ Long \in Nat /\ Slow \in Nat \ {0}
  /\ Pause \in Nat /\ MaxFaults \in Nat

VARIABLES
  down,     \* the button is pressed
  pressing, \* _reset_press_start is not 0
  since,    \* ticks since _reset_press_start
  portal,   \* pulsync_portal_is_active()
  gap,      \* ticks since the last pass of loop()
  held,     \* ticks the button has been down without a break
  up,       \* ticks since it was released, up to Pause
  served,   \* the portal has been open, or failed to open, while it was held
  short,    \* the last opening by the button came before a full hold
  wiped,    \* the settings have been erased
  faults

loop == <<pressing, since>>
vars == <<down, loop, portal, gap, held, up, served, short, wiped, faults>>

Enough == Hold + 3 * Slow + Long

-----------------------------------------------------------------------------
(* Mutants, used by no action. *)

\* a release is not noticed
MutPassUp ==
  /\ ~down /\ gap' = 0
  /\ UNCHANGED <<loop, down, portal, held, up, served, short, wiped, faults>>

-----------------------------------------------------------------------------
(* loop(): one pass. *)

PassUp ==
  /\ ~down /\ gap' = 0
  /\ pressing' = FALSE
  /\ UNCHANGED <<down, since, portal, held, up, served, short, wiped, faults>>

PassStarts ==
  /\ down /\ ~pressing /\ gap' = 0
  /\ pressing' = TRUE /\ since' = 0
  /\ UNCHANGED <<down, portal, held, up, served, short, wiped, faults>>

LongPress == down /\ pressing /\ since >= Hold

(* The portal opens, or pulsync_portal_start() fails. *)
PassOpens ==
  /\ LongPress /\ ~portal /\ gap' = 0
  /\ \/ portal' = TRUE /\ UNCHANGED faults
     \/ faults < MaxFaults /\ faults' = faults + 1 /\ UNCHANGED portal
  /\ pressing' = FALSE /\ served' = TRUE
  /\ short' = (held < Hold)
  /\ UNCHANGED <<down, since, held, up, wiped>>

PassWaits ==
  /\ down /\ pressing /\ (since < Hold \/ portal) /\ gap' = 0
  /\ UNCHANGED <<down, loop, portal, held, up, served, short, wiped, faults>>

Pass == PassUp \/ PassStarts \/ PassOpens \/ PassWaits

-----------------------------------------------------------------------------
(* The user, the portal and time. *)

Press ==
  /\ ~down /\ up = Pause /\ down' = TRUE
  /\ held' = 0 /\ served' = portal
  /\ UNCHANGED <<loop, portal, gap, up, short, wiped, faults>>

Release ==
  /\ down /\ down' = FALSE
  /\ held' = 0 /\ up' = 0 /\ served' = FALSE
  /\ UNCHANGED <<loop, portal, gap, short, wiped, faults>>

(* All networks have failed. *)
OpensItself ==
  /\ ~portal /\ portal' = TRUE
  /\ served' = down
  /\ UNCHANGED <<down, loop, gap, held, up, short, wiped, faults>>

(* By its own pages: Exit, re-pair or the enroll form. *)
Closes ==
  /\ portal /\ portal' = FALSE
  /\ UNCHANGED <<down, loop, gap, held, up, served, short, wiped, faults>>

(* The page for a factory reset; it restarts the device. *)
ResetByPage ==
  /\ portal /\ portal' = FALSE
  /\ wiped' = TRUE /\ pressing' = FALSE /\ since' = 0 /\ gap' = 0
  /\ held' = 0 /\ served' = FALSE /\ short' = FALSE
  /\ UNCHANGED <<down, up, faults>>

Tick ==
  /\ gap < Slow
  /\ gap' = gap + 1 /\ since' = Min({since + 1, Hold})
  /\ held' = IF down THEN Min({held + 1, Enough}) ELSE 0
  /\ up' = Min({up + 1, Pause})
  /\ UNCHANGED <<down, pressing, portal, served, short, wiped, faults>>

Init ==
  /\ down = FALSE /\ pressing = FALSE /\ since = 0 /\ portal = FALSE
  /\ gap = 0 /\ held = 0 /\ up = Pause /\ served = FALSE /\ short = FALSE
  /\ wiped = FALSE /\ faults = 0

Next == Pass \/ Press \/ Release \/ OpensItself \/ Closes \/ ResetByPage \/ Tick

ButtonSpec == Init /\ [][Next]_vars

-----------------------------------------------------------------------------
(* Whoever holds the button for three seconds, and for two passes of loop() *)
(* more, has seen the portal open or fail to (PulsyncClass.cpp:539, "Hold   *)
(* 3s -> open config portal").                                              *)
HoldIsServed == held > Hold + 2 * Slow => served

(* The portal opens by the button only when that has been down for three    *)
(* seconds without a break (PulsyncClass.cpp:539, the same comment).        *)
HeldThroughout == ~short

(* A button held for five seconds, and two passes of loop() more, has       *)
(* erased the settings (Pulsync.h:206, "Hold for 5 seconds to erase NVS and *)
(* restart captive portal").                                                *)
HoldErases == held > Long + 2 * Slow => wiped
=============================================================================
