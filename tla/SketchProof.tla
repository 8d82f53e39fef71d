----------------------------- MODULE SketchProof -----------------------------
(* Proofs about what a sketch works with, for every value of the constants: *)
(* the offline queue, the scheduler, the configuration button and the       *)
(* payload builder, each whatever the others do.  As long as the flush is   *)
(* not interleaved with publish() the queue keeps what Window promises; as  *)
(* long as no callback clears its own timer and sets another, the slots     *)
(* keep what Timers promises; whoever holds the button long enough is       *)
(* served; and a payload that fits is sent whole.                           *)
EXTENDS MCSketch, Sequences, WellFoundedInduction, TLAPS

-----------------------------------------------------------------------------
(* The offline queue. *)

(* The empty ring is in order. *)
LEMMA RingInitially == QueueInit => RingInv
<1> SUFFICES ASSUME QueueInit PROVE RingInv
  OBVIOUS
<1> USE QueueAssumption DEF QueueAssumption, QueueInit, Index, EmptySlot
<1>1. QueueTypeOK
  BY DEF QueueTypeOK, Flushing
<1>2. ~Busy /\ flushing = "test" /\ used = {}
  BY DEF Busy
<1>3. QED BY <1>1, <1>2 DEF RingInv, SlotInOrder, FreesSent

(* The head moves to an index. *)
LEMMA HeadMoves ==
  ASSUME head \in Index
  PROVE  /\ Next1 \in Index
         /\ head + 1 < Size => Next1 = head + 1
         /\ head + 1 >= Size => head + 1 = Size /\ Next1 = 0
BY QueueAssumption DEF QueueAssumption, Index, Next1

(* No step changes the types. *)
LEMMA QueueTypes ==
  ASSUME QueueTypeOK, [QueueNext]_vars
  PROVE  QueueTypeOK'
<1> USE QueueAssumption DEF QueueAssumption, QueueTypeOK
<1>1. CASE PublishQueues \/ PublishDirect \/ DirectEnds \/ Connect \/ Disconnect \/ Identify
  BY <1>1 DEF PublishQueues, PublishDirect, DirectEnds, Connect, Disconnect, Identify
<1>2. CASE FillTopic
  <2>1. queued + 1 \in Nat
    OBVIOUS
  <2>2. QED BY <1>2, <2>1 DEF FillTopic
<1>3. CASE FillPayload
  BY <1>3 DEF FillPayload, Index
<1>4. CASE Mark
  BY <1>4 DEF Mark
<1>5. CASE Advance
  BY <1>5, HeadMoves DEF Advance
<1>6. CASE FlushSkips \/ FlushRefused
  BY <1>6 DEF FlushSkips, FlushRefused, Flushing
<1>7. CASE FlushSends
  <2>1. flush \in Index
    BY <1>7 DEF FlushSends, Flushing, Index
  <2>2. slots[flush].topic \in Nat /\ slots[flush].payload \in Nat
    BY <2>1
  <2>3. QED BY <1>7, <2>2 DEF FlushSends
<1>8. CASE FlushClears
  BY <1>8 DEF FlushClears, Flushing
<1>9. CASE UNCHANGED vars
  BY <1>9 DEF vars
<1>10. QED
  BY <1>1, <1>2, <1>3, <1>4, <1>5, <1>6, <1>7, <1>8, <1>9 DEF QueueNext, Publish, MqttTask

(* publish() preserves the invariant: while it runs no flush is under way.  *)
LEMMA PublishKeepsRing ==
  ASSUME RingInv, ~FlushYields, Publish, QueueTypeOK'
  PROVE  RingInv'
<1> USE DEF RingInv
<1>1. UNCHANGED <<flush, flushing>> /\ flush = Size
  BY DEF Publish, PublishQueues, PublishDirect, DirectEnds, FillTopic, FillPayload,
         Mark, Advance, LoopRuns, Flushing
<1>2. flushing = "test"
  <2>1. Size \notin Index
    BY QueueAssumption DEF QueueAssumption, Index
  <2>2. QED BY <1>1, <2>1 DEF FreesSent, QueueTypeOK
<1>3. FreesSent'
  BY <1>1, <1>2 DEF FreesSent
<1>4. (Busy => queued >= 1)'
  BY DEF Publish, PublishQueues, PublishDirect, DirectEnds, FillTopic, FillPayload,
         Mark, Advance, QueueTypeOK, Busy
<1>5. ASSUME NEW s \in Index PROVE SlotInOrder(s)'
  <2>1. CASE PublishQueues \/ PublishDirect \/ DirectEnds
    BY <2>1 DEF PublishQueues, PublishDirect, DirectEnds, SlotInOrder, Busy, Belongs,
                Settled
  <2>2. CASE FillTopic
    <3>1. /\ ~Busy /\ Busy' /\ pub' = "payload" /\ queued' = queued + 1
          /\ UNCHANGED <<head, used>> /\ queued \in Nat
      BY <2>2 DEF FillTopic, Busy, QueueTypeOK
    <3>2. CASE s = head
      BY <2>2, <3>1, <3>2 DEF FillTopic, SlotInOrder, QueueTypeOK
    <3>3. CASE s # head
      <4>1. slots'[s] = slots[s]
        BY <2>2, <3>3 DEF FillTopic, QueueTypeOK
      <4>2. Belongs(s)' = Belongs(s)
        BY <3>1, <3>3 DEF Belongs, Settled, QueueTypeOK, Index
      <4>3. QED BY <3>1, <3>3, <4>1, <4>2 DEF SlotInOrder
    <3>4. QED BY <3>2, <3>3
  <2>3. CASE FillPayload
    BY <2>3 DEF FillPayload, SlotInOrder, Busy, Belongs, Settled, QueueTypeOK, Index
  <2>4. CASE Mark
    BY <2>4 DEF Mark, SlotInOrder, Busy, Belongs, Settled, QueueTypeOK, Index
  <2>5. CASE Advance
    <3>1. /\ pub = "advance" /\ pub' = "idle" /\ head' = Next1
          /\ UNCHANGED <<slots, used, queued>>
      BY <2>5 DEF Advance
    <3>2. Busy /\ ~Busy' /\ Settled = queued - 1 /\ Settled' = queued
      BY <3>1 DEF Busy, Settled
    <3>3. CASE s = head
      <4>1. Belongs(s)' = queued
        BY <3>1, <3>2, <3>3, HeadMoves, QueueAssumption
        DEF Belongs, QueueTypeOK, Index, QueueAssumption
      <4>2. SlotInOrder(s)
        OBVIOUS
      <4>3. QED BY <3>1, <3>2, <3>3, <4>1, <4>2 DEF SlotInOrder
    <3>4. CASE s # head
      <4>1. Belongs(s)' = Belongs(s)
        BY <3>1, <3>2, <3>4, HeadMoves, QueueAssumption
        DEF Belongs, QueueTypeOK, Index, QueueAssumption
      <4>2. SlotInOrder(s)
        OBVIOUS
      <4>3. QED BY <3>1, <3>2, <3>4, <4>1, <4>2 DEF SlotInOrder
    <3>5. QED BY <3>3, <3>4
  <2>6. QED BY <2>1, <2>2, <2>3, <2>4, <2>5 DEF Publish
<1>6. QED BY <1>3, <1>4, <1>5 DEF Index

(* The MQTT task frees slots, and only slots whose message has been sent.   *)
LEMMA OthersKeepRing ==
  ASSUME RingInv, MqttTask \/ Identify \/ UNCHANGED vars, QueueTypeOK'
  PROVE  RingInv'
<1> USE DEF RingInv
<1>1. UNCHANGED <<slots, head, pub, queued>> /\ used' \subseteq used
  BY DEF MqttTask, Connect, Disconnect, Identify, FlushSkips, FlushSends, FlushRefused,
         FlushClears, vars
<1>2. (Busy => queued >= 1)' /\ \A s \in Index : SlotInOrder(s)'
  BY <1>1 DEF SlotInOrder, Belongs, Settled, Busy
<1>3. FreesSent'
  <2>1. CASE FlushSends
    <3>1. flush \in used /\ UNCHANGED <<flush, used>>
      BY <2>1 DEF FlushSends
    <3>2. SlotInOrder(flush)
      BY <3>1 DEF QueueTypeOK
    <3>3. \/ flush = head /\ pub = "payload"
          \/ slots[flush].payload = slots[flush].topic
      BY <3>1, <3>2 DEF SlotInOrder, Busy, QueueTypeOK
    <3>4. QED BY <1>1, <2>1, <3>1, <3>3 DEF FlushSends, FreesSent
  <2>2. flushing = "clear" => Flushing
    BY QueueAssumption DEF QueueAssumption, FreesSent, QueueTypeOK, Index, Flushing
  <2>3. CASE ~FlushSends
    BY <1>1, <2>2, <2>3 DEF MqttTask, Connect, Disconnect, Identify, FlushSkips,
                            FlushRefused, FlushClears, vars, FreesSent
  <2>4. QED BY <2>1, <2>3
<1>4. QED BY <1>2, <1>3 DEF Index

(* The slots hold consecutive numbers, the head the oldest one.             *)
THEOREM RingIsInOrder == ~FlushYields => (QueueSpec => []RingInv)
<1> SUFFICES ASSUME ~FlushYields PROVE QueueSpec => []RingInv
  OBVIOUS
<1>1. RingInv /\ [QueueNext]_vars => RingInv'
  BY QueueTypes, PublishKeepsRing, OthersKeepRing DEF QueueNext, RingInv
<1>2. QED BY <1>1, RingInitially, PTL DEF QueueSpec

-----------------------------------------------------------------------------
(* The refinement: what is sent whole, and what each step does to Held.     *)
LEMMA WholeMeans ==
  ASSUME NEW S, S \subseteq Nat \X Nat, NEW m
  PROVE  m \in WholeOf(S) <=> m \in Nat /\ <<m, m>> \in S
<1>1. ASSUME m \in WholeOf(S) PROVE m \in Nat /\ <<m, m>> \in S
  <2>1. PICK y \in S : y[1] = y[2] /\ m = y[1]
    BY <1>1 DEF WholeOf
  <2>2. y = <<y[1], y[2]>> /\ y[1] \in Nat
    OBVIOUS
  <2>3. QED BY <2>1, <2>2
<1>2. ASSUME m \in Nat, <<m, m>> \in S PROVE m \in WholeOf(S)
  <2>1. <<m, m>>[1] = m /\ <<m, m>>[2] = m
    OBVIOUS
  <2>2. QED BY <1>2, <2>1 DEF WholeOf
<1>3. QED BY <1>1, <1>2

(* The topic that is written first is what puts a message into the window. *)
LEMMA WindowPut ==
  ASSUME RingInv, FillTopic
  PROVE  W!Put
<1> USE DEF RingInv
<1>1. /\ queued' = queued + 1 /\ pub = "topic" /\ pub' = "payload"
      /\ UNCHANGED <<used, sent>> /\ slots' = [slots EXCEPT ![head].topic = queued + 1]
  BY DEF FillTopic
<1>2. Held = {slots[s].topic : s \in used}
  BY <1>1 DEF Held
<1>3. Held' = {slots'[s].topic : s \in used} \cup {queued + 1}
  BY <1>1 DEF Held
<1>4. ASSUME NEW s \in used, s # head
      PROVE  slots[s].topic \notin {queued + 1, queued + 1 - Size} /\ slots'[s] = slots[s]
  <2>1. slots[s].topic = Belongs(s) /\ Settled = queued
    BY <1>1, <1>4 DEF SlotInOrder, Busy, Settled, QueueTypeOK
  <2>2. Belongs(s) \notin {queued + 1, queued + 1 - Size}
    BY <1>4, <2>1, QueueAssumption DEF Belongs, QueueTypeOK, Index, QueueAssumption
  <2>3. QED BY <1>1, <1>4, <2>1, <2>2 DEF QueueTypeOK
<1>5. head \in used => slots[head].topic = queued + 1 - Size
  <2>1. SlotInOrder(head) /\ ~Busy /\ Settled = queued
    BY <1>1 DEF QueueTypeOK, Busy, Settled
  <2>2. Belongs(head) = queued + 1 - Size
    BY <2>1, QueueAssumption DEF Belongs, QueueTypeOK, Index, QueueAssumption
  <2>3. QED BY <2>1, <2>2 DEF SlotInOrder
<1>6. slots'[head].topic = queued + 1
  BY <1>1 DEF QueueTypeOK
<1>7. queued + 1 # queued + 1 - Size
  BY QueueAssumption DEF QueueAssumption, QueueTypeOK
<1>8. Held' = (Held \cup {queued + 1}) \ {queued + 1 - Size}
  <2>1. ASSUME NEW m \in Held' PROVE m \in (Held \cup {queued + 1}) \ {queued + 1 - Size}
    BY <1>2, <1>3, <1>4, <1>6, <1>7, <2>1
  <2>2. ASSUME NEW m \in (Held \cup {queued + 1}) \ {queued + 1 - Size} PROVE m \in Held'
    BY <1>2, <1>3, <1>4, <1>5, <2>2
  <2>3. QED BY <2>1, <2>2
<1>9. Whole' = Whole
  BY <1>1 DEF Whole, WholeOf
<1>10. QED BY <1>1, <1>8, <1>9 DEF W!Put

(* A slot that is sent whole is a message of the window. *)
LEMMA WindowSend ==
  ASSUME RingInv, FlushSends
  PROVE  W!Send \/ UNCHANGED <<queued, Held, Whole>>
<1> USE DEF RingInv
<1> DEFINE top == slots[flush].topic
           pay == slots[flush].payload
<1>1. flush \in used /\ UNCHANGED <<slots, used, pub, queued>> /\ sent' = sent \cup {<<top, pay>>}
  BY DEF FlushSends
<1>2. UNCHANGED <<queued, Held>> /\ top \in Held /\ top \in Nat /\ pay \in Nat
  BY <1>1 DEF Held, QueueTypeOK
<1>3. sent \subseteq Nat \X Nat /\ sent' \subseteq Nat \X Nat
  BY <1>1, <1>2 DEF QueueTypeOK
<1>4. ASSUME NEW m
      PROVE  /\ m \in Whole <=> m \in Nat /\ <<m, m>> \in sent
             /\ m \in Whole' <=> m \in Nat /\ <<m, m>> \in sent'
  BY <1>3, WholeMeans DEF Whole
<1>5. CASE top = pay
  <2>1. Whole' = Whole \cup {top}
    BY <1>1, <1>2, <1>4, <1>5
  <2>2. QED BY <1>2, <2>1 DEF W!Send
<1>6. CASE top # pay
  <2>1. Whole' = Whole
    BY <1>1, <1>2, <1>4, <1>6
  <2>2. QED BY <1>2, <2>1
<1>7. QED BY <1>5, <1>6

(* A slot is freed only after its message has been sent. *)
LEMMA WindowForget ==
  ASSUME RingInv, FlushClears
  PROVE  W!Forget \/ UNCHANGED <<queued, Held, Whole>>
<1> USE DEF RingInv
<1> DEFINE top == slots[flush].topic
<1>1. /\ used' = used \ {flush} /\ flushing = "clear"
      /\ UNCHANGED <<slots, pub, queued, sent>>
  BY DEF FlushClears
<1>2. flush \in used /\ flush \in Index /\ top \in Nat
  BY <1>1 DEF FreesSent, QueueTypeOK
<1>3. Held = Held' \cup {top} /\ Whole' = Whole
  BY <1>1, <1>2 DEF Held, Whole
<1>4. CASE top \in Held'
  BY <1>1, <1>3, <1>4
<1>5. CASE top \notin Held'
  <2>1. ~(flush = head /\ pub = "payload")
    BY <1>1, <1>2, <1>5 DEF Held, SlotInOrder, Busy
  <2>2. <<top, top>> \in sent
    BY <1>1, <2>1 DEF FreesSent
  <2>3. top \in Whole
    BY <1>2, <2>2, WholeMeans DEF Whole, QueueTypeOK
  <2>4. Held' = Held \ {top}
    BY <1>3, <1>5
  <2>5. QED BY <1>1, <1>3, <2>3, <2>4 DEF W!Forget
<1>6. QED BY <1>4, <1>5

(* No other step is seen by the window. *)
LEMMA WindowStutter ==
  ASSUME RingInv, [QueueNext]_vars, ~FillTopic, ~FlushSends, ~FlushClears
  PROVE  UNCHANGED <<queued, Held, Whole>>
<1> USE DEF RingInv
<1>1. UNCHANGED <<queued, sent>>
  BY DEF QueueNext, Publish, PublishQueues, PublishDirect, DirectEnds, FillPayload,
         Mark, Advance, MqttTask, Connect, FlushSkips, FlushRefused, Disconnect,
         Identify, vars
<1>2. Held' = Held
  <2>1. CASE FillPayload
    <3>1. \A s \in Index : slots'[s].topic = slots[s].topic
      BY <2>1 DEF FillPayload, QueueTypeOK
    <3>2. QED BY <2>1, <3>1 DEF FillPayload, Held, QueueTypeOK
  <2>2. CASE Mark
    <3>1. slots[head].topic = queued /\ pub = "mark" /\ pub' = "advance"
      BY <2>2 DEF Mark, SlotInOrder, Busy, QueueTypeOK
    <3>2. used' = used \cup {head} /\ UNCHANGED <<slots, queued>>
      BY <2>2 DEF Mark
    <3>3. QED BY <3>1, <3>2 DEF Held
  <2>3. CASE ~FillPayload /\ ~Mark
    BY <2>3 DEF QueueNext, Publish, PublishQueues, PublishDirect, DirectEnds, Advance,
                MqttTask, Connect, FlushSkips, FlushRefused, Disconnect, Identify, vars,
                Held
  <2>4. QED BY <2>1, <2>2, <2>3
<1>3. QED BY <1>1, <1>2 DEF Whole

(* For a ring of any size that is not flushed in the middle of a publish(), *)
(* a queued message is kept until it is sent or Size newer ones follow it.  *)
THEOREM QueueKeepsWindow == ~FlushYields => (QueueSpec => KeepsWindow)
<1> SUFFICES ASSUME ~FlushYields PROVE QueueSpec => KeepsWindow
  OBVIOUS
<1>1. QueueInit => W!Init
  BY DEF QueueInit, W!Init, Held, Whole, WholeOf
<1>2. RingInv /\ [QueueNext]_vars => [W!Put \/ W!Send \/ W!Forget]_<<queued, Held, Whole>>
  BY WindowPut, WindowSend, WindowForget, WindowStutter
<1>3. QED BY <1>1, <1>2, RingIsInOrder, PTL DEF QueueSpec, KeepsWindow, W!Spec

(* What the window means for its user: none of the last Size messages is    *)
(* gone without having been sent.                                           *)
THEOREM NothingIsLost == ~FlushYields => (QueueSpec => []NothingLost)
<1> SUFFICES ASSUME ~FlushYields PROVE QueueSpec => []NothingLost
  OBVIOUS
<1>1. QueueInit => NothingLost
  BY DEF QueueInit, NothingLost
<1>2. RingInv /\ NothingLost /\ [QueueNext]_vars => NothingLost'
  <2> SUFFICES ASSUME RingInv, NothingLost, [QueueNext]_vars PROVE NothingLost'
    OBVIOUS
  <2> USE QueueAssumption DEF QueueAssumption
  <2>1. queued \in Nat
    BY DEF RingInv, QueueTypeOK
  <2>2. CASE W!Put
    BY <2>1, <2>2 DEF W!Put, NothingLost
  <2>3. CASE W!Send \/ W!Forget
    BY <2>1, <2>3 DEF W!Send, W!Forget, NothingLost
  <2>4. CASE UNCHANGED <<queued, Held, Whole>>
    BY <2>1, <2>4 DEF NothingLost
  <2>5. QED BY <2>2, <2>3, <2>4, WindowPut, WindowSend, WindowForget, WindowStutter
<1>3. QED BY <1>1, <1>2, RingIsInOrder, PTL DEF QueueSpec

-----------------------------------------------------------------------------
(* The scheduler. *)

(* What is assumed of the constants of the scheduler. *)
LEMMA SchedulerConstants ==
  /\ MaxTasks \in Nat \ {0} /\ Entries \in Nat /\ Wrap \in Nat \ {0} /\ Wrap % 2 = 0
  /\ Rearms \in BOOLEAN /\ MaxClock \in Nat /\ MaxLag \in Nat \ {0}
  /\ Delays \subseteq Nat /\ \A d \in Delays : d + MaxLag <= Wrap \div 2
BY SchedulerAssumption

(* A number and its remainder. *)
LEMMA ModRange ==
  ASSUME NEW M \in Nat \ {0}, NEW x \in Int
  PROVE  x % M \in 0 .. M - 1 /\ \E q \in Int : x = q * M + (x % M)
<1>1. x % M \in 0 .. M - 1
  OBVIOUS
<1>2. (x \div M) \in Int /\ x = (x \div M) * M + (x % M)
  OBVIOUS
<1> DEFINE r == x % M
<1> HIDE DEF r
<1>3. x = (x \div M) * M + r
  BY <1>2 DEF r
<1>4. \E q \in Int : x = q * M + r
  BY <1>2, <1>3
<1> QED BY <1>1, <1>4 DEF r

(* The remainder is unique. *)
LEMMA ModUnique ==
  ASSUME NEW M \in Nat \ {0}, NEW p \in Int, NEW q \in Int,
         NEW r \in 0 .. M - 1, NEW s \in 0 .. M - 1,
         q * M + r = p * M + s
  PROVE  r = s
<1>1. CASE p = q
  BY <1>1
<1>2. CASE p >= q + 1
  <2>1. p * M >= (q + 1) * M
    BY <1>2
  <2>2. (q + 1) * M = q * M + M
    OBVIOUS
  <2> QED BY <2>1, <2>2
<1>3. CASE q >= p + 1
  <2>1. q * M >= (p + 1) * M
    BY <1>3
  <2>2. (p + 1) * M = p * M + M
    OBVIOUS
  <2> QED BY <2>1, <2>2
<1> QED BY <1>1, <1>2, <1>3

(* What has quotient q and remainder r. *)
LEMMA ModIs ==
  ASSUME NEW M \in Nat \ {0}, NEW q \in Int, NEW r \in 0 .. M - 1
  PROVE  (q * M + r) % M = r
<1> DEFINE x == q * M + r
           s == x % M
<1>1. x \in Int
  OBVIOUS
<1>2. PICK p \in Int : x = p * M + (x % M)
  BY <1>1, ModRange
<1>3. s \in 0 .. M - 1
  BY <1>1, ModRange
<1> HIDE DEF s
<1>4. q * M + r = p * M + s
  BY <1>2 DEF s
<1>5. r = s
  BY <1>3, <1>4, ModUnique
<1> QED BY <1>5 DEF s

(* Numbers that differ by a multiple of M have the same remainder.          *)
LEMMA ModShifts ==
  ASSUME NEW M \in Nat \ {0}, NEW q \in Int, NEW x \in Int
  PROVE  (q * M + x) % M = x % M
<1> DEFINE r == x % M
<1>1. PICK p \in Int : x = p * M + (x % M)
  BY ModRange
<1>2. r \in 0 .. M - 1
  BY ModRange
<1> HIDE DEF r
<1>3. x = p * M + r
  BY <1>1 DEF r
<1>4. q * M + x = (q + p) * M + r
  BY <1>2, <1>3
<1>5. ((q + p) * M + r) % M = r
  BY <1>2, ModIs
<1> QED BY <1>4, <1>5 DEF r

(* The number that is next to c and has the remainder n.                    *)
Near(n, c) == c + ((n - c + Wrap \div 2) % Wrap) - Wrap \div 2

(* Half a turn of the counter is longer than any delay. *)
LEMMA HalfTurns ==
  /\ Wrap \div 2 \in Nat /\ Wrap = 2 * (Wrap \div 2) /\ Wrap \div 2 >= 1
  /\ \A d \in Delays : d \in Nat /\ d + MaxLag <= Wrap \div 2
BY SchedulerConstants

(* A time within half a turn of c is told by its remainder. *)
LEMMA NearIs ==
  ASSUME NEW c \in Int, NEW t \in Int, t >= c - Wrap \div 2, t < c + Wrap \div 2
  PROVE  Near(t % Wrap, c) = t
<1> DEFINE H == Wrap \div 2
           n == t % Wrap
<1>c. Wrap \in Nat \ {0} /\ H \in Nat /\ Wrap = 2 * H
  BY SchedulerConstants, HalfTurns
<1>1. PICK q \in Int : t = q * Wrap + n
  BY <1>c, ModRange
<1>2. n \in 0 .. Wrap - 1
  BY <1>c, ModRange
<1>p. PICK p \in Int : p = -q
  OBVIOUS
<1> HIDE DEF H, n
<1>3. n - c + H = p * Wrap + (t - c + H)
  BY <1>c, <1>1, <1>2, <1>p
<1>4. t - c + H \in 0 .. Wrap - 1
  BY <1>c DEF H
<1>5. (p * Wrap + (t - c + H)) % Wrap = t - c + H
  BY <1>c, <1>4, ModIs
<1>6. c + ((n - c + H) % Wrap) - H = t
  BY <1>c, <1>3, <1>4, <1>5
<1> QED BY <1>6 DEF Near, H, n

(* The time that Near gives has the remainder and is within half a turn. *)
LEMMA NearHas ==
  ASSUME NEW c \in Int, NEW n \in 0 .. Wrap - 1
  PROVE  /\ Near(n, c) \in Int /\ Near(n, c) % Wrap = n
         /\ Near(n, c) >= c - Wrap \div 2 /\ Near(n, c) < c + Wrap \div 2
<1> DEFINE H == Wrap \div 2
           a == n - c + H
           m == a % Wrap
<1>c. Wrap \in Nat \ {0} /\ H \in Nat /\ Wrap = 2 * H
  BY SchedulerConstants, HalfTurns
<1>0. a \in Int
  BY <1>c
<1>1. PICK q \in Int : a = q * Wrap + m
  BY <1>c, <1>0, ModRange
<1>2. m \in 0 .. Wrap - 1
  BY <1>c, <1>0, ModRange
<1>p. PICK p \in Int : p = -q
  OBVIOUS
<1> HIDE DEF H, m
<1>3. c + m - H = p * Wrap + n
  BY <1>c, <1>1, <1>2, <1>p
<1>4. (p * Wrap + n) % Wrap = n
  BY <1>c, ModIs
<1>5. Near(n, c) = c + m - H
  BY DEF Near, m, H
<1>6. /\ c + m - H \in Int /\ (c + m - H) % Wrap = n
      /\ c + m - H >= c - H /\ c + m - H < c + H
  BY <1>c, <1>2, <1>3, <1>4
<1> QED BY <1>5, <1>6 DEF H

(* The 32-bit comparison tells a time that is past from one that is not, as *)
(* long as they are less than half a turn apart.                            *)
LEMMA ReachedIs ==
  ASSUME NEW t \in Int, NEW d \in Int, t - d < Wrap \div 2, d - t <= Wrap \div 2
  PROVE  Reached(t, d % Wrap) <=> d <= t
<1> DEFINE H == Wrap \div 2
           n == d % Wrap
<1>c. Wrap \in Nat \ {0} /\ H \in Nat /\ Wrap = 2 * H
  BY SchedulerConstants, HalfTurns
<1>1. PICK q \in Int : d = q * Wrap + n
  BY <1>c, ModRange
<1>2. n \in 0 .. Wrap - 1
  BY <1>c, ModRange
<1>h. t - d < H /\ d - t <= H
  OBVIOUS
<1> HIDE DEF H, n
<1>3. CASE d <= t
  <2>1. t - n = q * Wrap + (t - d)
    BY <1>c, <1>1, <1>2
  <2>2. t - d \in 0 .. Wrap - 1
    BY <1>c, <1>h, <1>3
  <2>3. (t - n) % Wrap = t - d
    BY <1>c, <2>1, <2>2, ModIs
  <2> QED BY <1>h, <1>3, <2>3 DEF Reached, H, n
<1>4. CASE d > t
  <2>1. t - n = (q - 1) * Wrap + (t - d + Wrap)
    BY <1>c, <1>1, <1>2
  <2>2. t - d + Wrap \in 0 .. Wrap - 1 /\ t - d + Wrap >= H
    BY <1>c, <1>h, <1>4
  <2>3. (t - n) % Wrap = t - d + Wrap
    BY <1>c, <2>1, <2>2, ModIs
  <2>4. ~((t - n) % Wrap < H)
    BY <1>c, <2>2, <2>3
  <2> QED BY <1>4, <2>4 DEF Reached, H, n
<1> QED BY <1>3, <1>4

(* What a slot may hold. *)
TaskRecord ==
  [type : Kind \cup {"EMPTY"}, id : Nat, interval : Nat, next_run : 0 .. Wrap - 1]

(* The slots: what a slot holds, and that identifiers are not given twice.  *)
SlotsFit ==
  /\ tasks \in [TaskSlots -> TaskRecord]
  /\ calls \in 0 .. Entries /\ clock \in Nat /\ now \in Nat /\ now <= clock
  /\ i \in 0 .. MaxTasks /\ inside \in BOOLEAN /\ (inside => i \in TaskSlots)
  /\ \A j \in TaskSlots : tasks[j].id <= calls
  /\ \A j, k \in TaskSlots : tasks[j].id = tasks[k].id => j = k \/ tasks[j].id = 0
  /\ \A j \in Used : tasks[j].id # 0 /\ tasks[j].interval \in Delays
  /\ inside => tasks[i].id # 0

(* The times at which timers are due are near enough to the clock for the   *)
(* 32-bit differences to tell them, and a pass stands at most MaxLag.       *)
DueFits ==
  /\ \A j \in Used : 
       DueTime(j) >= clock - MaxLag /\ DueTime(j) + MaxLag <= clock + Wrap \div 2
  /\ i # MaxTasks => clock <= now + MaxLag
  /\ \A j \in Used : inside /\ j = i => DueTime(j) <= now

(* The inductive invariant of the scheduler. *)
SlotsInv == SlotsFit /\ DueFits

(* A step that changes one slot. *)
LEMMA OneSlot ==
  ASSUME tasks \in [TaskSlots -> TaskRecord], NEW j \in TaskSlots, NEW r \in TaskRecord,
         tasks' = [tasks EXCEPT ![j] = r]
  PROVE  /\ tasks' \in [TaskSlots -> TaskRecord] /\ tasks'[j] = r
         /\ \A k \in TaskSlots \ {j} : tasks'[k] = tasks[k]
         /\ r.type # "EMPTY" => Used' = Used \cup {j}
         /\ r.type = "EMPTY" => Used' = Used \ {j}
<1>1. /\ tasks' \in [TaskSlots -> TaskRecord] /\ tasks'[j] = r
      /\ \A k \in TaskSlots \ {j} : tasks'[k] = tasks[k]
  OBVIOUS
<1>2. ASSUME r.type # "EMPTY"
      PROVE  Used' = Used \cup {j}
  BY <1>1, <1>2 DEF Used
<1>3. ASSUME r.type = "EMPTY"
      PROVE  Used' = Used \ {j}
  BY <1>1, <1>3 DEF Used
<1> QED BY <1>1, <1>2, <1>3

(* The records that the steps write. *)
LEMMA SlotFields ==
  ASSUME NEW r \in TaskRecord, NEW n \in 0 .. Wrap - 1
  PROVE  /\ [r EXCEPT !.type = "EMPTY"] \in TaskRecord
         /\ [r EXCEPT !.type = "EMPTY"].type = "EMPTY" /\ [r EXCEPT !.type = "EMPTY"].id = r.id
         /\ [r EXCEPT !.next_run = n] \in TaskRecord
         /\ [r EXCEPT !.next_run = n].type = r.type /\ [r EXCEPT !.next_run = n].id = r.id
         /\ [r EXCEPT !.next_run = n].interval = r.interval
         /\ [r EXCEPT !.next_run = n].next_run = n
BY DEF TaskRecord

(* The timers that a step of Set adds to.                                   *)
LEMMA SetChanges ==
  ASSUME SlotsFit, NEW k \in Kind, NEW d \in Delays, Set(k, d)
  PROVE  \E j \in TaskSlots \ Used, r \in TaskRecord :
           /\ tasks' = [tasks EXCEPT ![j] = r] /\ (inside /\ j = i => Rearms)
           /\ r.type = k /\ r.type # "EMPTY" /\ r.id = calls + 1 /\ r.interval = d
           /\ r.next_run = (clock + d) % Wrap
<1>1. PICK j \in TaskSlots :
        /\ FirstFree(j) /\ (inside /\ j = i => Rearms)
        /\ tasks' = [tasks EXCEPT ![j] =
             [type |-> k, id |-> calls + 1, interval |-> d, next_run |-> (clock + d) % Wrap]]
  BY DEF Set
<1> DEFINE r == [type |-> k, id |-> calls + 1, interval |-> d, next_run |-> (clock + d) % Wrap]
<1>2. (clock + d) % Wrap \in 0 .. Wrap - 1 /\ d \in Nat /\ calls + 1 \in Nat
  BY SchedulerConstants, HalfTurns, ModRange DEF SlotsFit
<1>3. r \in TaskRecord /\ r.type # "EMPTY"
  BY <1>2 DEF TaskRecord, Kind
<1>4. j \in TaskSlots \ Used
  BY <1>1 DEF FirstFree
<1> QED BY <1>1, <1>3, <1>4

(* The slot that a step of Clear empties. *)
LEMMA ClearChanges ==
  ASSUME SlotsFit, Clear
  PROVE  \E j \in Used, r \in TaskRecord :
           tasks' = [tasks EXCEPT ![j] = r] /\ r.type = "EMPTY" /\ r.id = tasks[j].id
<1>1. PICK j \in Used : tasks' = [tasks EXCEPT ![j].type = "EMPTY"]
  BY DEF Clear
<1>2. tasks[j] \in TaskRecord /\ tasks \in [TaskSlots -> TaskRecord]
  BY DEF SlotsFit, Used
<1> DEFINE r == [tasks[j] EXCEPT !.type = "EMPTY"]
<1>3. 0 \in 0 .. Wrap - 1
  BY SchedulerConstants
<1>4. r \in TaskRecord /\ r.type = "EMPTY" /\ r.id = tasks[j].id
  BY <1>2, <1>3, SlotFields, Zenon
<1>5. tasks' = [tasks EXCEPT ![j] = r]
  BY <1>1, <1>2
<1> QED BY <1>4, <1>5

(* What is left in the slot after its callback.                             *)
LEMMA EndChanges ==
  ASSUME SlotsFit, CallbackEnds
  PROVE  \E r \in TaskRecord :
           /\ tasks' = [tasks EXCEPT ![i] = r] /\ r.id = tasks[i].id
           /\ tasks[i].type = "INTERVAL" =>
                /\ r.type = "INTERVAL" /\ r.interval = tasks[i].interval
                /\ r.next_run = (now + tasks[i].interval) % Wrap
           /\ tasks[i].type # "INTERVAL" => r.type = "EMPTY"
<1>1. inside /\ tasks[i] \in TaskRecord /\ tasks \in [TaskSlots -> TaskRecord] /\ i \in TaskSlots
  BY DEF SlotsFit, CallbackEnds
<1> DEFINE n == (now + tasks[i].interval) % Wrap
           r1 == [tasks[i] EXCEPT !.type = "EMPTY"]
           r2 == [tasks[i] EXCEPT !.next_run = n]
<1>2. n \in 0 .. Wrap - 1
  BY <1>1, SchedulerConstants, ModRange DEF SlotsFit, TaskRecord
<1>3. tasks[i].type \in Kind \cup {"EMPTY"}
  BY <1>1 DEF TaskRecord
<1>4. tasks' = IF tasks[i].type = "TIMEOUT" THEN [tasks EXCEPT ![i] = r1]
                                           ELSE [tasks EXCEPT ![i] = r2]
  BY DEF CallbackEnds
<1> HIDE DEF n
<1>5. /\ r1 \in TaskRecord /\ r1.type = "EMPTY" /\ r1.id = tasks[i].id
      /\ r2 \in TaskRecord /\ r2.type = tasks[i].type /\ r2.id = tasks[i].id
      /\ r2.interval = tasks[i].interval /\ r2.next_run = n
  BY <1>1, <1>2, SlotFields, Zenon
<1> HIDE DEF r1, r2
<1>6. CASE tasks[i].type = "TIMEOUT"
  <2>1. tasks' = [tasks EXCEPT ![i] = r1]
    BY <1>4, <1>6
  <2> QED BY <1>5, <1>6, <2>1 DEF n
<1>7. CASE tasks[i].type # "TIMEOUT"
  <2>1. tasks' = [tasks EXCEPT ![i] = r2]
    BY <1>4, <1>7
  <2>2. tasks[i].type # "INTERVAL" => r2.type = "EMPTY"
    BY <1>3, <1>5, <1>7 DEF Kind
  <2> QED BY <1>5, <1>7, <2>1, <2>2 DEF n
<1> QED BY <1>6, <1>7

(* All slots are empty at first. *)
LEMMA SlotsStart == SchedulerInit => SlotsFit
<1> SUFFICES ASSUME SchedulerInit
             PROVE  SlotsFit
  OBVIOUS
<1>1. \A j \in TaskSlots : tasks[j] = [type |-> "EMPTY", id |-> 0, interval |-> 0, next_run |-> 0]
  BY DEF SchedulerInit
<1>2. [type |-> "EMPTY", id |-> 0, interval |-> 0, next_run |-> 0] \in TaskRecord
  BY SchedulerConstants DEF TaskRecord
<1>3. tasks \in [TaskSlots -> TaskRecord]
  BY <1>2 DEF SchedulerInit
<1>4. Used = {}
  BY <1>1 DEF Used
<1>5. \A j \in TaskSlots : tasks[j].id = 0
  BY <1>1
<1>6. calls = 0 /\ clock = 0 /\ i = MaxTasks /\ now = 0 /\ inside = FALSE
  BY DEF SchedulerInit
<1>7. calls \in 0 .. Entries /\ i \in 0 .. MaxTasks /\ clock \in Nat /\ now \in Nat /\ now <= clock
  BY <1>6, SchedulerConstants
<1>8. inside \in BOOLEAN /\ ~inside
  BY <1>6
<1>9. \A j \in TaskSlots : tasks[j].id <= calls
  BY <1>5, <1>6
<1> QED BY <1>3, <1>4, <1>5, <1>7, <1>8, <1>9, Zenon DEF SlotsFit

(* No step breaks what a slot holds. *)
LEMMA SlotsStep ==
  ASSUME SlotsFit, [SchedulerNext]_schedulerVars
  PROVE  SlotsFit'
<1>c. MaxTasks \in Nat \ {0} /\ Entries \in Nat /\ TaskSlots = 0 .. MaxTasks - 1
  BY SchedulerConstants DEF TaskSlots
<1>t. /\ tasks \in [TaskSlots -> TaskRecord] /\ calls \in 0 .. Entries /\ clock \in Nat /\ now \in Nat
      /\ now <= clock /\ i \in 0 .. MaxTasks /\ inside \in BOOLEAN /\ (inside => i \in TaskSlots)
      /\ \A j \in TaskSlots : tasks[j].id <= calls /\ tasks[j].id \in Nat
      /\ \A j, k \in TaskSlots : tasks[j].id = tasks[k].id => j = k \/ tasks[j].id = 0
      /\ \A j \in Used : tasks[j].id # 0 /\ tasks[j].interval \in Delays /\ j \in TaskSlots
      /\ inside => tasks[i].id # 0
  BY DEF SlotsFit, Used, TaskRecord
<1>1. ASSUME NEW k \in Kind, NEW d \in Delays, Set(k, d)
      PROVE  SlotsFit'
  <2>1. PICK j \in TaskSlots \ Used, r \in TaskRecord :
           /\ tasks' = [tasks EXCEPT ![j] = r] /\ (inside /\ j = i => Rearms)
           /\ r.type = k /\ r.type # "EMPTY" /\ r.id = calls + 1 /\ r.interval = d
           /\ r.next_run = (clock + d) % Wrap
    BY <1>1, SetChanges
  <2>2. /\ tasks' \in [TaskSlots -> TaskRecord] /\ tasks'[j] = r
        /\ \A l \in TaskSlots \ {j} : tasks'[l] = tasks[l]
        /\ Used' = Used \cup {j}
    BY <1>t, <2>1, OneSlot
  <2>3. calls < Entries /\ calls' = calls + 1 /\ UNCHANGED <<clock, i, now, inside>>
    BY <1>1 DEF Set
  <2>4. \A l \in TaskSlots : tasks'[l].id = IF l = j THEN calls + 1 ELSE tasks[l].id
    BY <2>1, <2>2
  <2>5. \A l, m \in TaskSlots : tasks'[l].id = tasks'[m].id => l = m \/ tasks'[l].id = 0
    BY <1>t, <2>4
  <2>6. \A l \in Used' : tasks'[l].id # 0 /\ tasks'[l].interval \in Delays
    BY <1>t, <2>1, <2>2, <2>4
  <2>7. \A l \in TaskSlots : tasks'[l].id <= calls'
    BY <1>t, <2>3, <2>4
  <2>8. inside' => i' \in TaskSlots /\ tasks'[i'].id # 0
    BY <1>t, <2>3, <2>4
  <2>9. calls' \in 0 .. Entries
    BY <1>c, <1>t, <2>3
  <2> QED BY <1>t, <2>2, <2>3, <2>5, <2>6, <2>7, <2>8, <2>9 DEF SlotsFit
<1>2. CASE Clear
  <2>1. PICK j \in Used, r \in TaskRecord :
          tasks' = [tasks EXCEPT ![j] = r] /\ r.type = "EMPTY" /\ r.id = tasks[j].id
    BY <1>2, ClearChanges
  <2>2. /\ tasks' \in [TaskSlots -> TaskRecord] /\ tasks'[j] = r
        /\ \A l \in TaskSlots \ {j} : tasks'[l] = tasks[l]
        /\ Used' = Used \ {j}
    BY <1>t, <2>1, OneSlot
  <2>3. UNCHANGED <<calls, clock, i, now, inside>>
    BY <1>2 DEF Clear
  <2>4. \A l \in TaskSlots : tasks'[l].id = tasks[l].id
    BY <2>1, <2>2
  <2>5. \A l \in Used' : l \in Used /\ tasks'[l] = tasks[l]
    BY <1>t, <2>2
  <2> QED BY <1>t, <2>2, <2>3, <2>4, <2>5 DEF SlotsFit
<1>3. CASE CallbackEnds
  <2>1. PICK r \in TaskRecord :
          /\ tasks' = [tasks EXCEPT ![i] = r] /\ r.id = tasks[i].id
          /\ tasks[i].type = "INTERVAL" =>
               /\ r.type = "INTERVAL" /\ r.interval = tasks[i].interval
               /\ r.next_run = (now + tasks[i].interval) % Wrap
          /\ tasks[i].type # "INTERVAL" => r.type = "EMPTY"
    BY <1>3, EndChanges
  <2>2. inside /\ inside' = FALSE /\ i' = i + 1 /\ UNCHANGED <<calls, clock, now>> /\ i \in TaskSlots
    BY <1>t, <1>3 DEF CallbackEnds
  <2>3. /\ tasks' \in [TaskSlots -> TaskRecord] /\ tasks'[i] = r
        /\ \A l \in TaskSlots \ {i} : tasks'[l] = tasks[l]
        /\ r.type # "EMPTY" => Used' = Used \cup {i}
        /\ r.type = "EMPTY" => Used' = Used \ {i}
    BY <1>t, <2>1, <2>2, OneSlot
  <2>4. \A l \in TaskSlots : tasks'[l].id = tasks[l].id
    BY <2>1, <2>3
  <2>5. ASSUME NEW l \in Used'
        PROVE  l \in Used /\ tasks'[l].interval = tasks[l].interval
    <3>1. CASE tasks[i].type = "INTERVAL"
      <4>1. i \in Used
        BY <2>2, <3>1 DEF Used
      <4> QED BY <1>t, <2>1, <2>3, <3>1, <4>1
    <3>2. CASE tasks[i].type # "INTERVAL"
      BY <1>t, <2>1, <2>3, <3>2
    <3> QED BY <3>1, <3>2
  <2>6. /\ i' \in 0 .. MaxTasks /\ calls' \in 0 .. Entries /\ clock' \in Nat /\ now' \in Nat
        /\ now' <= clock'
    BY <1>c, <1>t, <2>2
  <2>9. inside' \in BOOLEAN /\ ~inside'
    BY <2>2, Zenon
  <2>7. \A l \in Used' : tasks'[l].id # 0 /\ tasks'[l].interval \in Delays
    BY <1>t, <2>4, <2>5
  <2>8. /\ \A j \in TaskSlots : tasks'[j].id <= calls'
        /\ \A j, k \in TaskSlots : tasks'[j].id = tasks'[k].id => j = k \/ tasks'[j].id = 0
    BY <1>t, <2>2, <2>4
  <2> QED BY <2>3, <2>6, <2>7, <2>8, <2>9, Zenon DEF SlotsFit
<1>4. ASSUME UNCHANGED tasks, UNCHANGED calls, clock' \in Nat, now' \in Nat, now' <= clock',
             i' \in 0 .. MaxTasks, inside' \in BOOLEAN,
             inside' => i' \in TaskSlots /\ tasks[i'].id # 0
      PROVE  SlotsFit'
  <2>1. Used' = Used
    BY <1>4 DEF Used
  <2> QED BY <1>t, <1>4, <2>1 DEF SlotsFit
<1>5. CASE SetRefused
  BY <1>t, <1>4, <1>5 DEF SetRefused
<1>6. CASE TickBegins
  <2>1. 0 \in 0 .. MaxTasks
    BY <1>c
  <2>2. ~inside
    BY <1>c, <1>t, <1>6 DEF TickBegins
  <2> QED BY <1>t, <1>4, <1>6, <2>1, <2>2 DEF TickBegins
<1>7. CASE Skip
  <2>1. i' = i + 1 /\ i \in TaskSlots /\ ~inside /\ UNCHANGED <<tasks, calls, clock, now, inside>>
    BY <1>7 DEF Skip
  <2>2. i + 1 \in 0 .. MaxTasks
    BY <1>c, <2>1
  <2> QED BY <1>t, <1>4, <2>1, <2>2
<1>8. CASE CallbackBegins
  <2>1. i \in TaskSlots /\ tasks[i].type # "EMPTY" /\ inside' = TRUE
        /\ UNCHANGED <<tasks, calls, clock, i, now>>
    BY <1>8 DEF CallbackBegins, Due
  <2>2. i \in Used
    BY <2>1 DEF Used
  <2> QED BY <1>t, <1>4, <2>1, <2>2
<1>9. CASE TimePasses
  <2>1. clock' = clock + 1 /\ UNCHANGED <<tasks, calls, i, now, inside>>
    BY <1>9 DEF TimePasses
  <2>2. clock + 1 \in Nat /\ now <= clock + 1
    BY <1>t
  <2> QED BY <1>t, <1>4, <2>1, <2>2
<1>10. CASE UNCHANGED schedulerVars
  BY <1>t, <1>4, <1>10 DEF schedulerVars
<1> QED
  BY <1>1, <1>2, <1>3, <1>5, <1>6, <1>7, <1>8, <1>9, <1>10 DEF SchedulerNext, Tick

(* The time of a slot, as a number next to the clock. *)
LEMMA DueIsNear ==
  ASSUME NEW j
  PROVE  DueTime(j) = Near(tasks[j].next_run, clock)
BY DEF DueTime, Near

(* The same in the next state. *)
LEMMA DueIsNearNext ==
  ASSUME NEW j
  PROVE  DueTime(j)' = Near(tasks'[j].next_run, clock')
BY DEF DueTime, Near

(* What the time of a slot in use is, in a state of the invariant.          *)
LEMMA DueHas ==
  ASSUME SlotsInv, NEW j \in Used
  PROVE  /\ DueTime(j) \in Int /\ tasks[j].next_run = DueTime(j) % Wrap
         /\ DueTime(j) >= clock - MaxLag /\ DueTime(j) + MaxLag <= clock + Wrap \div 2
         /\ DueTime(j) < clock + Wrap \div 2
         /\ MaxLag \in Nat \ {0} /\ MaxLag <= Wrap \div 2 /\ clock \in Nat
         /\ j \in TaskSlots
<1>1. j \in TaskSlots /\ tasks[j] \in TaskRecord /\ tasks[j].interval \in Delays /\ clock \in Nat
  BY DEF SlotsInv, SlotsFit, Used
<1>2. tasks[j].next_run \in 0 .. Wrap - 1
  BY <1>1 DEF TaskRecord
<1> DEFINE n == tasks[j].next_run
<1> HIDE DEF n
<1>3. /\ Near(n, clock) \in Int /\ Near(n, clock) % Wrap = n
      /\ Near(n, clock) < clock + Wrap \div 2
  BY <1>1, <1>2, NearHas DEF n
<1>4. DueTime(j) = Near(n, clock)
  BY DueIsNear DEF n
<1>5. DueTime(j) >= clock - MaxLag /\ DueTime(j) + MaxLag <= clock + Wrap \div 2
  BY DEF SlotsInv, DueFits
<1>6. MaxLag \in Nat \ {0} /\ MaxLag <= Wrap \div 2
  <2>1. PICK d \in Delays : d = tasks[j].interval
    BY <1>1
  <2>2. d \in Nat /\ d + MaxLag <= Wrap \div 2
    BY HalfTurns
  <2>3. MaxLag \in Nat \ {0} /\ Wrap \div 2 \in Nat
    BY HalfTurns, SchedulerConstants
  <2> DEFINE H == Wrap \div 2
  <2> HIDE DEF H
  <2>4. d \in Nat /\ d + MaxLag <= H /\ MaxLag \in Nat \ {0} /\ H \in Nat
    BY <2>2, <2>3 DEF H
  <2>5. MaxLag <= H
    BY <2>4
  <2> QED BY <2>3, <2>5 DEF H
<1> QED BY <1>1, <1>3, <1>4, <1>5, <1>6 DEF n

(* No timer, no time. *)
LEMMA DueStart == SchedulerInit => DueFits
<1> SUFFICES ASSUME SchedulerInit
             PROVE  DueFits
  OBVIOUS
<1>1. \A j \in TaskSlots : tasks[j].type = "EMPTY"
  BY DEF SchedulerInit
<1>2. Used = {}
  BY <1>1 DEF Used
<1>3. i = MaxTasks /\ inside = FALSE
  BY DEF SchedulerInit
<1> QED BY <1>2, <1>3, Zenon DEF DueFits

(* A slot that a step leaves as it is keeps its time.                       *)
LEMMA DueStays ==
  ASSUME SlotsInv, NEW j \in Used, tasks'[j] = tasks[j],
         clock' = clock \/ TimePasses
  PROVE  DueTime(j)' = DueTime(j)
<1>h. /\ DueTime(j) \in Int /\ tasks[j].next_run = DueTime(j) % Wrap
      /\ DueTime(j) >= clock - MaxLag /\ DueTime(j) < clock + Wrap \div 2
      /\ MaxLag \in Nat /\ MaxLag <= Wrap \div 2 /\ clock \in Nat
  BY DueHas
<1>1. CASE clock' = clock
  BY <1>1, DueIsNear, DueIsNearNext, Zenon
<1>2. CASE TimePasses
  <2>1. clock' = clock + 1 /\ clock < DueTime(j) + MaxLag
    BY <1>2 DEF TimePasses
  <2> DEFINE D == DueTime(j)
             H == Wrap \div 2
  <2>h. H \in Nat
    BY HalfTurns
  <2>2. DueTime(j)' = Near(D % Wrap, clock + 1)
    BY <1>h, <2>1, DueIsNearNext
  <2>3. D \in Int /\ D >= clock + 1 - MaxLag /\ D < clock + H /\ MaxLag <= H
    BY <1>h, <2>1
  <2>4. \A t \in Int : t >= clock + 1 - MaxLag /\ t < clock + H => Near(t % Wrap, clock + 1) = t
    <3> SUFFICES ASSUME NEW t \in Int, t >= clock + 1 - MaxLag, t < clock + H
                 PROVE  Near(t % Wrap, clock + 1) = t
      OBVIOUS
    <3> DEFINE c == clock + 1
    <3>1. c \in Int /\ MaxLag <= H /\ H \in Nat /\ clock = c - 1 /\ MaxLag \in Nat
      BY <1>h, <2>h
    <3> HIDE DEF c, H
    <3>2. t >= c - H /\ t < c + H
      BY <1>h, <3>1
    <3>3. t >= c - Wrap \div 2 /\ t < c + Wrap \div 2
      BY <3>2 DEF H
    <3>4. Near(t % Wrap, c) = t
      BY <3>1, <3>3, NearIs
    <3> QED BY <3>4 DEF c
  <2> QED BY <2>2, <2>3, <2>4
<1> QED BY <1>1, <1>2

(* A slot that is set or armed again is due when it should be.              *)
LEMMA DueIsSet ==
  ASSUME clock \in Nat, clock' = clock, MaxLag <= Wrap \div 2,
         NEW j, NEW t \in Int, tasks'[j].next_run = t % Wrap,
         t >= clock - MaxLag, t + MaxLag <= clock + Wrap \div 2
  PROVE  DueTime(j)' = t
<1> DEFINE H == Wrap \div 2
<1>1. H \in Nat /\ MaxLag \in Nat \ {0}
  BY HalfTurns, SchedulerConstants
<1>2. DueTime(j)' = Near(t % Wrap, clock)
  BY DueIsNearNext
<1>3. t >= clock - MaxLag /\ t + MaxLag <= clock + H /\ MaxLag <= H
  OBVIOUS
<1> HIDE DEF H
<1>4. t >= clock - H /\ t < clock + H
  BY <1>1, <1>3
<1>5. Near(t % Wrap, clock) = t
  BY <1>4, NearIs DEF H
<1> QED BY <1>2, <1>5

(* A timer that is set takes a slot of its own and is due after its delay.  *)
LEMMA SetMoves ==
  ASSUME SlotsInv, ~Rearms, NEW k \in Kind, NEW d \in Delays, Set(k, d)
  PROVE  \E j \in TaskSlots \ Used :
           /\ tasks'[j].type = k /\ tasks'[j].id = calls + 1 /\ tasks'[j].interval = d
           /\ DueTime(j)' = clock + d /\ Used' = Used \cup {j} /\ (inside => j # i)
           /\ \A l \in TaskSlots \ {j} : tasks'[l] = tasks[l]
           /\ \A l \in Used : DueTime(l)' = DueTime(l)
           /\ clock + d >= clock - MaxLag /\ clock + d + MaxLag <= clock + Wrap \div 2
<1>t. tasks \in [TaskSlots -> TaskRecord] /\ clock \in Nat
  BY DEF SlotsInv, SlotsFit
<1>c. MaxLag \in Nat \ {0} /\ Wrap \div 2 \in Nat
  BY SchedulerConstants, HalfTurns
<1>1. PICK j \in TaskSlots \ Used, r \in TaskRecord :
         /\ tasks' = [tasks EXCEPT ![j] = r] /\ (inside /\ j = i => Rearms)
         /\ r.type = k /\ r.type # "EMPTY" /\ r.id = calls + 1 /\ r.interval = d
         /\ r.next_run = (clock + d) % Wrap
  BY SetChanges DEF SlotsInv
<1>2. /\ tasks'[j] = r /\ Used' = Used \cup {j}
      /\ \A l \in TaskSlots \ {j} : tasks'[l] = tasks[l]
  BY <1>t, <1>1, OneSlot
<1>3. UNCHANGED <<clock, i, now, inside>>
  BY DEF Set
<1>4. ASSUME NEW l \in Used
      PROVE  DueTime(l)' = DueTime(l) /\ l # j
  <2>1. l # j /\ tasks'[l] = tasks[l]
    BY <1>1, <1>2 DEF Used
  <2> QED BY <1>3, <2>1, DueStays
<1>5. d \in Nat /\ d + MaxLag <= Wrap \div 2 /\ MaxLag <= Wrap \div 2
  <2>1. d \in Nat /\ d + MaxLag <= Wrap \div 2
    BY HalfTurns
  <2> DEFINE H == Wrap \div 2
  <2>2. d + MaxLag <= H /\ H \in Nat
    BY <1>c, <2>1
  <2> HIDE DEF H
  <2>3. MaxLag <= H
    BY <1>c, <2>1, <2>2
  <2> QED BY <2>1, <2>3 DEF H
<1>6. /\ clock + d \in Int /\ clock + d >= clock - MaxLag
      /\ clock + d + MaxLag <= clock + Wrap \div 2
  <2> DEFINE H == Wrap \div 2
  <2>2. d + MaxLag <= H /\ H \in Nat
    BY <1>c, <1>5
  <2> HIDE DEF H
  <2>3. clock + d \in Int /\ clock + d >= clock - MaxLag /\ clock + d + MaxLag <= clock + H
    BY <1>t, <1>c, <1>5, <2>2
  <2> QED BY <2>3 DEF H
<1>7. DueTime(j)' = clock + d
  <2>1. PICK t \in Int : t = clock + d
    BY <1>6
  <2>2. tasks'[j].next_run = t % Wrap
    BY <1>1, <1>2, <2>1
  <2>3. t >= clock - MaxLag /\ t + MaxLag <= clock + Wrap \div 2
    BY <1>6, <2>1
  <2> QED BY <1>t, <1>3, <1>5, <2>1, <2>2, <2>3, DueIsSet
<1> QED BY <1>1, <1>2, <1>4, <1>6, <1>7

(* A timer that is cleared leaves the others as they are.                   *)
LEMMA ClearMoves ==
  ASSUME SlotsInv, Clear
  PROVE  \E j \in Used :
           /\ Used' = Used \ {j} /\ \A l \in TaskSlots : tasks'[l].id = tasks[l].id
           /\ \A l \in Used' : tasks'[l] = tasks[l] /\ DueTime(l)' = DueTime(l)
<1>t. tasks \in [TaskSlots -> TaskRecord]
  BY DEF SlotsInv, SlotsFit
<1>1. PICK j \in Used, r \in TaskRecord :
        tasks' = [tasks EXCEPT ![j] = r] /\ r.type = "EMPTY" /\ r.id = tasks[j].id
  BY ClearChanges DEF SlotsInv
<1>2. /\ Used' = Used \ {j} /\ tasks'[j] = r
      /\ \A l \in TaskSlots \ {j} : tasks'[l] = tasks[l]
  BY <1>t, <1>1, OneSlot DEF Used
<1>3. clock' = clock
  BY DEF Clear
<1>4. ASSUME NEW l \in Used'
      PROVE  tasks'[l] = tasks[l] /\ DueTime(l)' = DueTime(l)
  <2>1. l \in Used /\ tasks'[l] = tasks[l]
    BY <1>1, <1>2 DEF Used
  <2> QED BY <1>3, <2>1, DueStays
<1>5. \A l \in TaskSlots : tasks'[l].id = tasks[l].id
  BY <1>1, <1>2
<1> QED BY <1>2, <1>4, <1>5

(* After its callback a timeout is gone, and an interval is due again its   *)
(* interval after the pass.                                                 *)
LEMMA EndMoves ==
  ASSUME SlotsInv, CallbackEnds
  PROVE  /\ \A l \in TaskSlots : tasks'[l].id = tasks[l].id
         /\ \A l \in TaskSlots \ {i} : tasks'[l] = tasks[l]
         /\ \A l \in Used \ {i} : DueTime(l)' = DueTime(l)
         /\ \/ i \notin Used /\ Used' = Used
            \/ i \in Used /\ tasks[i].type = "TIMEOUT" /\ Used' = Used \ {i}
            \/ /\ i \in Used /\ tasks[i].type = "INTERVAL" /\ Used' = Used
               /\ \A l \in Used : l = i =>
                    /\ tasks'[l].type = "INTERVAL" /\ tasks'[l].interval = tasks[l].interval
                    /\ DueTime(l)' = now + tasks[l].interval
                    /\ DueTime(l)' >= clock - MaxLag
                    /\ DueTime(l)' + MaxLag <= clock + Wrap \div 2
<1>t. /\ tasks \in [TaskSlots -> TaskRecord] /\ clock \in Nat /\ now \in Nat /\ now <= clock
      /\ (inside => i \in TaskSlots)
  BY DEF SlotsInv, SlotsFit
<1>c. MaxTasks \in Nat /\ MaxTasks \notin TaskSlots /\ MaxLag \in Nat \ {0} /\ Wrap \div 2 \in Nat
  BY SchedulerConstants, HalfTurns DEF TaskSlots
<1>1. PICK r \in TaskRecord :
        /\ tasks' = [tasks EXCEPT ![i] = r] /\ r.id = tasks[i].id
        /\ tasks[i].type = "INTERVAL" =>
             /\ r.type = "INTERVAL" /\ r.interval = tasks[i].interval
             /\ r.next_run = (now + tasks[i].interval) % Wrap
        /\ tasks[i].type # "INTERVAL" => r.type = "EMPTY"
  BY EndChanges DEF SlotsInv
<1>2. inside /\ i' = i + 1 /\ UNCHANGED <<calls, clock, now>> /\ i \in TaskSlots
  BY <1>t DEF CallbackEnds
<1>i. inside' = FALSE
  BY DEF CallbackEnds
<1>3. /\ tasks'[i] = r
      /\ \A l \in TaskSlots \ {i} : tasks'[l] = tasks[l]
      /\ r.type # "EMPTY" => Used' = Used \cup {i}
      /\ r.type = "EMPTY" => Used' = Used \ {i}
  BY <1>t, <1>1, <1>2, OneSlot
<1>4. clock <= now + MaxLag
  BY <1>c, <1>2 DEF SlotsInv, DueFits
<1>6. ASSUME NEW l \in Used, l = i, tasks[i].type = "INTERVAL"
      PROVE  /\ tasks'[l].type = "INTERVAL" /\ tasks'[l].interval = tasks[l].interval
             /\ DueTime(l)' = now + tasks[l].interval
             /\ DueTime(l)' >= clock - MaxLag
             /\ DueTime(l)' + MaxLag <= clock + Wrap \div 2
  <2>1. tasks[i].type = "INTERVAL"
    BY <1>6
  <2>2. i \in Used
    BY <1>6
  <2>3. PICK d \in Delays : d = tasks[i].interval
    BY <2>2 DEF SlotsInv, SlotsFit
  <2>4. d \in Nat /\ d + MaxLag <= Wrap \div 2
    BY HalfTurns
  <2>5. PICK t \in Int : t = now + d
    BY <1>t, <2>4
  <2>6. /\ t >= clock - MaxLag /\ t + MaxLag <= clock + Wrap \div 2
        /\ MaxLag <= Wrap \div 2
    <3> DEFINE H == Wrap \div 2
    <3>1. d + MaxLag <= H /\ H \in Nat
      BY <1>c, <2>4
    <3> HIDE DEF H
    <3>2. t >= clock - MaxLag /\ t + MaxLag <= clock + H /\ MaxLag <= H
      BY <1>t, <1>c, <1>4, <2>4, <2>5, <3>1
    <3> QED BY <3>2 DEF H
  <2>7. tasks'[l].next_run = t % Wrap
    BY <1>1, <1>3, <1>6, <2>1, <2>3, <2>5
  <2>8. DueTime(l)' = t
    BY <1>t, <1>2, <2>6, <2>7, DueIsSet
  <2>9. tasks'[l].type = "INTERVAL" /\ tasks'[l].interval = tasks[l].interval
    BY <1>1, <1>3, <1>6
  <2> QED BY <1>6, <2>3, <2>5, <2>6, <2>8, <2>9
<1>7. \A l \in TaskSlots : tasks'[l].id = tasks[l].id
  BY <1>1, <1>3
<1>8. \A l \in Used \ {i} : DueTime(l)' = DueTime(l)
  <2>1. \A l \in Used \ {i} : l \in TaskSlots /\ tasks'[l] = tasks[l]
    BY <1>3 DEF Used
  <2> QED BY <1>2, <2>1, DueStays
<1>9. CASE i \notin Used
  <2>1. r.type = "EMPTY"
    BY <1>1, <1>2, <1>9 DEF Used
  <2>2. Used' = Used
    BY <1>3, <1>9, <2>1
  <2> QED BY <1>3, <1>7, <1>8, <1>9, <2>2
<1>10. CASE i \in Used
  <2>1. tasks[i].type = "TIMEOUT" \/ tasks[i].type = "INTERVAL"
    BY <1>t, <1>10 DEF Used, TaskRecord, Kind
  <2>2. CASE tasks[i].type = "TIMEOUT"
    <3>1. Used' = Used \ {i}
      BY <1>1, <1>3, <2>2
    <3> QED BY <1>3, <1>7, <1>8, <1>10, <2>2, <3>1
  <2>3. CASE tasks[i].type = "INTERVAL"
    <3>1. Used' = Used
      BY <1>1, <1>3, <1>10, <2>3
    <3>2. \A l \in Used : l = i =>
            /\ tasks'[l].type = "INTERVAL" /\ tasks'[l].interval = tasks[l].interval
            /\ DueTime(l)' = now + tasks[l].interval
            /\ DueTime(l)' >= clock - MaxLag
            /\ DueTime(l)' + MaxLag <= clock + Wrap \div 2
      BY <1>6, <2>3
    <3> QED BY <1>3, <1>7, <1>8, <1>10, <2>3, <3>1, <3>2
  <2> QED BY <2>1, <2>2, <2>3
<1> QED BY <1>9, <1>10

(* The 32-bit comparison starts no callback early. *)
LEMMA BeginsDue ==
  ASSUME SlotsInv, CallbackBegins
  PROVE  i \in Used /\ \A j \in Used : j = i => DueTime(j) <= now /\ DueTime(j) <= clock
<1>t. clock \in Nat /\ now \in Nat /\ now <= clock
  BY DEF SlotsInv, SlotsFit
<1>f. i # MaxTasks => clock <= now + MaxLag
  BY DEF SlotsInv, DueFits
<1>c. MaxTasks \in Nat /\ MaxTasks \notin TaskSlots /\ MaxLag \in Nat \ {0} /\ Wrap \div 2 \in Nat
  BY SchedulerConstants, HalfTurns DEF TaskSlots
<1>u. i \in TaskSlots /\ i \in Used /\ Reached(now, tasks[i].next_run)
  BY DEF CallbackBegins, Due, Used
<1>1. /\ DueTime(i) \in Int /\ tasks[i].next_run = DueTime(i) % Wrap
      /\ DueTime(i) + MaxLag <= clock + Wrap \div 2
  BY <1>u, DueHas
<1>2. PICK t \in Int : t = DueTime(i)
  BY <1>1
<1>3. Reached(now, t % Wrap)
  BY <1>u, <1>1, <1>2
<1>4. clock <= now + MaxLag
  BY <1>c, <1>f, <1>u
<1> DEFINE H == Wrap \div 2
<1>5. t + MaxLag <= clock + H /\ H \in Nat
  BY <1>c, <1>1, <1>2
<1> HIDE DEF H
<1>6. ASSUME t > now
      PROVE  FALSE
  <2>1. now - t < H /\ t - now <= H
    BY <1>t, <1>c, <1>4, <1>5, <1>6
  <2>2. t <= now
    BY <1>t, <1>3, <2>1, ReachedIs DEF H
  <2> QED BY <1>t, <1>6, <2>2
<1> QED BY <1>t, <1>u, <1>2, <1>6

(* No step that is not a rearming callback makes a time too far to tell.    *)
LEMMA DueStep ==
  ASSUME SlotsInv, ~Rearms, [SchedulerNext]_schedulerVars
  PROVE  DueFits'
<1>t. /\ tasks \in [TaskSlots -> TaskRecord] /\ clock \in Nat /\ now \in Nat /\ now <= clock
      /\ (inside => i \in TaskSlots) /\ i \in 0 .. MaxTasks
  BY DEF SlotsInv, SlotsFit
<1>f. /\ \A j \in Used : DueTime(j) >= clock - MaxLag /\ DueTime(j) + MaxLag <= clock + Wrap \div 2
      /\ i # MaxTasks => clock <= now + MaxLag
      /\ \A j \in Used : inside /\ j = i => DueTime(j) <= now
  BY DEF SlotsInv, DueFits
<1>c. MaxTasks \in Nat /\ MaxTasks \notin TaskSlots /\ MaxLag \in Nat \ {0} /\ Wrap \div 2 \in Nat
  BY SchedulerConstants, HalfTurns DEF TaskSlots
<1>1. ASSUME NEW k \in Kind, NEW d \in Delays, Set(k, d)
      PROVE  DueFits'
  <2>1. PICK j \in TaskSlots \ Used :
           /\ DueTime(j)' = clock + d /\ Used' = Used \cup {j} /\ (inside => j # i)
           /\ \A l \in Used : DueTime(l)' = DueTime(l)
           /\ clock + d >= clock - MaxLag /\ clock + d + MaxLag <= clock + Wrap \div 2
    BY <1>1, SetMoves
  <2>3. UNCHANGED <<clock, i, now, inside>>
    BY <1>1 DEF Set
  <2>8. \A l \in Used' :
           DueTime(l)' >= clock - MaxLag /\ DueTime(l)' + MaxLag <= clock + Wrap \div 2
    BY <1>f, <2>1
  <2>9. ASSUME NEW l \in Used', inside', l = i'
        PROVE  DueTime(l)' <= now'
    <3>1. inside /\ l = i /\ now' = now
      BY <2>3, <2>9, Zenon
    <3>2. l \in Used
      BY <2>1, <3>1
    <3> QED BY <1>f, <2>1, <3>1, <3>2
  <2>10. i' # MaxTasks => clock' <= now' + MaxLag
    BY <1>f, <2>3
  <2> QED BY <2>3, <2>8, <2>9, <2>10 DEF DueFits
<1>2. CASE Clear
  <2>1. PICK j \in Used :
          Used' = Used \ {j} /\ \A l \in Used' : DueTime(l)' = DueTime(l)
    BY <1>2, ClearMoves
  <2>2. UNCHANGED <<clock, i, now, inside>>
    BY <1>2 DEF Clear
  <2> QED BY <1>f, <2>1, <2>2 DEF DueFits
<1>3. CASE CallbackEnds
  <2>1. UNCHANGED <<clock, now>> /\ i \in TaskSlots /\ inside
    BY <1>t, <1>3 DEF CallbackEnds
  <2>2. inside' = FALSE
    BY <1>3 DEF CallbackEnds
  <2>3. ASSUME NEW l \in Used'
        PROVE  DueTime(l)' >= clock - MaxLag /\ DueTime(l)' + MaxLag <= clock + Wrap \div 2
    <3>1. l \in Used
      BY <1>3, EndMoves
    <3>2. CASE l # i
      BY <1>3, <1>f, <3>1, <3>2, EndMoves
    <3>3. CASE l = i
      BY <1>3, <3>1, <3>3, EndMoves
    <3> QED BY <3>2, <3>3
  <2>4. i' # MaxTasks => clock' <= now' + MaxLag
    BY <1>f, <1>c, <2>1
  <2>5. ~inside'
    BY <2>2, Zenon
  <2> QED BY <2>1, <2>3, <2>4, <2>5 DEF DueFits
<1>4. ASSUME UNCHANGED tasks, clock' = clock
      PROVE  Used' = Used /\ \A l \in Used : DueTime(l)' = DueTime(l)
  <2>1. Used' = Used
    BY <1>4 DEF Used
  <2>2. \A l : tasks'[l] = tasks[l]
    BY <1>4
  <2> QED BY <1>4, <2>1, <2>2, DueStays
<1>5. CASE SetRefused \/ UNCHANGED schedulerVars
  <2>1. UNCHANGED <<tasks, clock, i, now, inside>>
    BY <1>5 DEF SetRefused, schedulerVars
  <2> QED BY <1>f, <1>4, <2>1 DEF DueFits
<1>6. CASE TickBegins
  <2>1. now' = clock /\ UNCHANGED <<tasks, clock, inside>> /\ ~inside
    BY <1>c, <1>t, <1>6 DEF TickBegins
  <2>2. clock' <= now' + MaxLag
    BY <1>t, <1>c, <2>1
  <2>3. ~inside'
    BY <2>1, Zenon
  <2> QED BY <1>f, <1>4, <2>1, <2>2, <2>3 DEF DueFits
<1>7. CASE Skip
  <2>1. UNCHANGED <<tasks, clock, now, inside>> /\ ~inside /\ i \in TaskSlots
    BY <1>7 DEF Skip
  <2>2. ~inside' /\ clock' <= now' + MaxLag
    BY <1>f, <1>c, <2>1
  <2> QED BY <1>f, <1>4, <2>1, <2>2 DEF DueFits
<1>8. CASE CallbackBegins
  <2>1. UNCHANGED <<tasks, clock, i, now>>
    BY <1>8 DEF CallbackBegins
  <2>2. i \in Used /\ \A j \in Used : j = i => DueTime(j) <= now
    BY <1>8, BeginsDue
  <2>3. DueFits'
    BY <1>f, <1>4, <2>1, <2>2 DEF DueFits
  <2> QED BY <2>3
<1>9. CASE TimePasses
  <2>1. /\ clock' = clock + 1 /\ UNCHANGED <<tasks, i, now, inside>>
        /\ \A j \in Used : clock < DueTime(j) + MaxLag
        /\ i # MaxTasks => clock < now + MaxLag
    BY <1>9 DEF TimePasses
  <2>2. Used' = Used
    BY <2>1 DEF Used
  <2>3. ASSUME NEW l \in Used
        PROVE  /\ DueTime(l)' = DueTime(l) /\ DueTime(l) >= (clock + 1) - MaxLag
               /\ DueTime(l) + MaxLag <= clock + 1 + Wrap \div 2
    <3>1. DueTime(l)' = DueTime(l)
      BY <1>9, <2>1, DueStays
    <3>2. DueTime(l) \in Int /\ DueTime(l) + MaxLag <= clock + Wrap \div 2
      BY DueHas
    <3>3. clock < DueTime(l) + MaxLag
      BY <2>1
    <3> DEFINE D == DueTime(l)
               H == Wrap \div 2
    <3>4. D \in Int /\ D + MaxLag <= clock + H /\ H \in Nat /\ clock < D + MaxLag
      BY <1>c, <3>2, <3>3
    <3> HIDE DEF D, H
    <3>5. D >= (clock + 1) - MaxLag /\ D + MaxLag <= clock + 1 + H
      BY <1>t, <1>c, <3>4
    <3>6. DueTime(l) >= (clock + 1) - MaxLag /\ DueTime(l) + MaxLag <= clock + 1 + Wrap \div 2
      BY <3>5 DEF D, H
    <3> QED BY <3>1, <3>6
  <2>4. i' # MaxTasks => clock' <= now' + MaxLag
    BY <1>t, <1>c, <2>1
  <2>5. (inside' <=> inside) /\ i' = i /\ now' = now
    BY <2>1, Zenon
  <2>6. \A l \in Used' : inside' /\ l = i' => DueTime(l)' <= now'
    BY <1>f, <2>2, <2>3, <2>5
  <2>7. clock' = clock + 1
    BY <2>1
  <2>8. \A l \in Used' : DueTime(l)' >= clock' - MaxLag
    BY <2>2, <2>3, <2>7
  <2>9. \A l \in Used' : DueTime(l)' + MaxLag <= clock' + Wrap \div 2
    BY <2>2, <2>3, <2>7
  <2> QED BY <2>4, <2>6, <2>8, <2>9, Zenon DEF DueFits
<1> QED
  BY <1>1, <1>2, <1>3, <1>5, <1>6, <1>7, <1>8, <1>9 DEF SchedulerNext, Tick

(* The timers that the slots stand for. *)
TimerAt(j) == [type |-> tasks[j].type, every |-> tasks[j].interval, due |-> DueTime(j)]

(* The timers are the slots in use, one for each identifier. *)
Mapped ==
  /\ ActiveTimers = [x \in ActiveIds |-> ActiveTimers[x]]
  /\ \A j \in Used : tasks[j].id \in ActiveIds /\ ActiveTimers[tasks[j].id] = TimerAt(j)
  /\ \A j \in TaskSlots \ Used : tasks[j].id = 0 \/ tasks[j].id \notin ActiveIds
  /\ \A j, k \in TaskSlots : tasks[j].id = tasks[k].id => j = k \/ tasks[j].id = 0
  /\ 0 \notin ActiveIds

(* Distinct identifiers tell the slots apart. *)
LEMMA TimersMapped == SlotsFit => Mapped
<1> SUFFICES ASSUME SlotsFit
             PROVE  Mapped
  OBVIOUS
<1>1. /\ \A j, k \in TaskSlots : tasks[j].id = tasks[k].id => j = k \/ tasks[j].id = 0
      /\ \A j \in Used : tasks[j].id # 0 /\ j \in TaskSlots
  BY DEF SlotsFit, Used
<1>2. ActiveTimers = [x \in ActiveIds |-> ActiveTimers[x]]
  BY DEF ActiveTimers
<1>3. ASSUME NEW j \in Used
      PROVE  tasks[j].id \in ActiveIds /\ ActiveTimers[tasks[j].id] = TimerAt(j)
  <2>1. tasks[j].id \in ActiveIds
    BY DEF ActiveIds
  <2>2. SlotOf(tasks[j].id) = j
    <3>1. \A k \in Used : tasks[k].id = tasks[j].id => k = j
      BY <1>1
    <3> QED BY <3>1 DEF SlotOf
  <2> QED BY <2>1, <2>2 DEF ActiveTimers, TimerAt
<1>4. ASSUME NEW j \in TaskSlots \ Used
      PROVE  tasks[j].id = 0 \/ tasks[j].id \notin ActiveIds
  BY <1>1 DEF ActiveIds
<1>5. 0 \notin ActiveIds
  BY <1>1 DEF ActiveIds
<1> QED BY <1>1, <1>2, <1>3, <1>4, <1>5 DEF Mapped

(* Two functions with the same values are equal. *)
LEMMA SameFunction ==
  ASSUME NEW S, NEW f, NEW g, f = [x \in S |-> f[x]], g = [x \in S |-> g[x]],
         \A x \in S : f[x] = g[x]
  PROVE  f = g
OBVIOUS

(* Slots that are left as they are stand for the same timers.               *)
LEMMA SameTimers ==
  ASSUME Mapped, Mapped', Used' = Used,
         \A l \in Used : tasks'[l].id = tasks[l].id /\ TimerAt(l)' = TimerAt(l)
  PROVE  ActiveTimers' = ActiveTimers
<1>1. ActiveIds' = ActiveIds
  BY DEF ActiveIds
<1>2. \A x \in ActiveIds : ActiveTimers'[x] = ActiveTimers[x]
  <2> SUFFICES ASSUME NEW x \in ActiveIds
               PROVE  ActiveTimers'[x] = ActiveTimers[x]
    OBVIOUS
  <2>1. PICK l \in Used : tasks[l].id = x
    BY DEF ActiveIds
  <2> QED BY <2>1 DEF Mapped
<1>3. ActiveTimers = [x \in ActiveIds |-> ActiveTimers[x]]
  BY DEF Mapped
<1>4. ActiveTimers' = [x \in ActiveIds |-> ActiveTimers'[x]]
  BY <1>1 DEF Mapped
<1> QED BY <1>2, <1>3, <1>4, SameFunction

(* A slot that keeps its record and its time keeps its timer. *)
LEMMA TimerStays ==
  ASSUME NEW l, tasks'[l] = tasks[l], DueTime(l)' = DueTime(l)
  PROVE  TimerAt(l)' = TimerAt(l)
BY DEF TimerAt

(* No slot, no timer. *)
LEMMA TimersStart == SchedulerInit => T!Init
<1> SUFFICES ASSUME SchedulerInit
             PROVE  T!Init
  OBVIOUS
<1>1. \A j \in TaskSlots : tasks[j].type = "EMPTY"
  BY DEF SchedulerInit
<1>2. Used = {}
  BY <1>1 DEF Used
<1>3. ActiveIds = {}
  BY <1>2 DEF ActiveIds
<1>4. DOMAIN ActiveTimers = {}
  BY <1>3 DEF ActiveTimers
<1>5. clock = 0 /\ inside = FALSE
  BY DEF SchedulerInit
<1>6. Running = 0
  BY <1>5 DEF Running
<1> QED BY <1>4, <1>5, <1>6 DEF T!Init, T!Active

(* Set. *)
LEMMA SetsTimer ==
  ASSUME SlotsInv, SlotsInv', Mapped, Mapped', ~Rearms, NEW k \in Kind, NEW d \in Delays, Set(k, d)
  PROVE  T!Set
<1>1. PICK j \in TaskSlots \ Used :
         /\ tasks'[j].type = k /\ tasks'[j].id = calls + 1 /\ tasks'[j].interval = d
         /\ DueTime(j)' = clock + d /\ Used' = Used \cup {j} /\ (inside => j # i)
         /\ \A l \in TaskSlots \ {j} : tasks'[l] = tasks[l]
         /\ \A l \in Used : DueTime(l)' = DueTime(l)
  BY SetMoves
<1>2. UNCHANGED <<clock, i, now, inside>> /\ calls < Entries
  BY DEF Set
<1>3. /\ calls \in Nat /\ Entries \in Nat /\ (inside => i \in TaskSlots)
      /\ \A l \in Used : tasks[l].id <= calls /\ tasks[l].id \in Nat /\ l \in TaskSlots
  BY SchedulerConstants DEF SlotsInv, SlotsFit, Used, TaskRecord
<1> DEFINE id == calls + 1
<1>4. id \in 1 .. Entries
  BY <1>2, <1>3
<1>5. id \notin ActiveIds
  <2>1. \A l \in Used : tasks[l].id # calls + 1
    BY <1>3
  <2> QED BY <2>1 DEF ActiveIds
<1> HIDE DEF id
<1>6. /\ \A l \in Used : l # j /\ tasks'[l] = tasks[l] /\ l \in Used' /\ tasks'[l].id = tasks[l].id
      /\ j \in Used' /\ tasks'[j].id = id
  BY <1>1, <1>3 DEF id
<1>7. ActiveIds' = ActiveIds \cup {id}
  BY <1>1, <1>6 DEF ActiveIds
<1> DEFINE g == [x \in ActiveIds \cup {id} |->
                   IF x = id THEN [type |-> k, every |-> d, due |-> clock + d] ELSE ActiveTimers[x]]
<1>8. \A x \in ActiveIds \cup {id} : ActiveTimers'[x] = g[x]
  <2> SUFFICES ASSUME NEW x \in ActiveIds \cup {id}
               PROVE  ActiveTimers'[x] = g[x]
    OBVIOUS
  <2>1. CASE x = id
    <3>1. ActiveTimers'[x] = TimerAt(j)'
      BY <1>6, <2>1 DEF Mapped
    <3>2. TimerAt(j)' = [type |-> k, every |-> d, due |-> clock + d]
      BY <1>1 DEF TimerAt
    <3> QED BY <2>1, <3>1, <3>2
  <2>2. CASE x # id
    <3>1. PICK l \in Used : tasks[l].id = x
      BY <2>2 DEF ActiveIds
    <3>2. ActiveTimers'[x] = TimerAt(l)' /\ ActiveTimers[x] = TimerAt(l)
      BY <1>6, <3>1 DEF Mapped
    <3>3. TimerAt(l)' = TimerAt(l)
      BY <1>1, <1>6, TimerStays
    <3> QED BY <2>2, <3>2, <3>3
  <2> QED BY <2>1, <2>2
<1>9. ActiveTimers' = [x \in ActiveIds \cup {id} |-> ActiveTimers'[x]]
  BY <1>7 DEF Mapped
<1>10. g = [x \in ActiveIds \cup {id} |-> g[x]]
  OBVIOUS
<1>11. ActiveTimers' = g
  <2> HIDE DEF g
  <2> QED BY <1>8, <1>9, <1>10, SameFunction
<1>12. DOMAIN ActiveTimers = ActiveIds
  BY DEF ActiveTimers
<1>13. Running' = Running
  <2>1. CASE inside
    <3>1. inside' /\ i' = i /\ tasks'[i] = tasks[i]
      BY <1>1, <1>2, <1>3, <2>1
    <3> QED BY <2>1, <3>1 DEF Running
  <2>2. CASE ~inside
    <3>1. ~inside'
      BY <1>2, <2>2
    <3> QED BY <2>2, <3>1 DEF Running
  <2> QED BY <2>1, <2>2
<1>14. k \in {"TIMEOUT", "INTERVAL"}
  BY DEF Kind
<1> QED BY <1>2, <1>4, <1>5, <1>11, <1>12, <1>13, <1>14 DEF T!Set, T!Active

(* A slot that is emptied takes away the timer it stood for, and no other.  *)
LEMMA TakesAway ==
  ASSUME Mapped, Mapped', NEW j \in Used, Used' = Used \ {j},
         \A l \in TaskSlots : tasks'[l].id = tasks[l].id,
         \A l \in Used \ {j} : TimerAt(l)' = TimerAt(l)
  PROVE  ActiveTimers' = T!Without(tasks[j].id)
<1> DEFINE id == tasks[j].id
           g == [x \in ActiveIds \ {id} |-> ActiveTimers[x]]
<1>0. \A l \in Used : l \in TaskSlots /\ tasks[l].id # 0
  BY DEF Mapped, Used
<1>1. \A l \in Used \ {j} : tasks[l].id # id
  BY <1>0 DEF Mapped
<1>2. ActiveIds' = ActiveIds \ {id}
  BY <1>0, <1>1 DEF ActiveIds
<1> HIDE DEF id
<1>3. \A x \in ActiveIds \ {id} : ActiveTimers'[x] = g[x]
  <2> SUFFICES ASSUME NEW x \in ActiveIds \ {id}
               PROVE  ActiveTimers'[x] = g[x]
    OBVIOUS
  <2>1. PICK l \in Used : tasks[l].id = x
    BY DEF ActiveIds
  <2>2. l \in Used \ {j} /\ l \in Used' /\ tasks'[l].id = x
    BY <1>0, <2>1 DEF id
  <2>3. ActiveTimers'[x] = TimerAt(l)' /\ ActiveTimers[x] = TimerAt(l)
    BY <2>1, <2>2 DEF Mapped
  <2> QED BY <2>2, <2>3
<1>4. ActiveTimers' = [x \in ActiveIds \ {id} |-> ActiveTimers'[x]]
  BY <1>2 DEF Mapped
<1>5. g = [x \in ActiveIds \ {id} |-> g[x]]
  OBVIOUS
<1>6. ActiveTimers' = g
  <2> HIDE DEF g
  <2> QED BY <1>3, <1>4, <1>5, SameFunction
<1>7. DOMAIN ActiveTimers = ActiveIds
  BY DEF ActiveTimers
<1> QED BY <1>6, <1>7 DEF T!Without, T!Active, id

(* pulsync_clear_task cancels the one timer it is asked to. *)
LEMMA ClearsTimer ==
  ASSUME SlotsInv, Mapped, Mapped', Clear
  PROVE  T!Cancel
<1>1. PICK j \in Used :
        /\ Used' = Used \ {j} /\ \A l \in TaskSlots : tasks'[l].id = tasks[l].id
        /\ \A l \in Used' : tasks'[l] = tasks[l] /\ DueTime(l)' = DueTime(l)
  BY ClearMoves
<1>2. UNCHANGED <<clock, i, inside>>
  BY DEF Clear
<1>3. \A l \in Used \ {j} : TimerAt(l)' = TimerAt(l)
  BY <1>1, TimerStays
<1>4. ActiveTimers' = T!Without(tasks[j].id)
  BY <1>1, <1>3, TakesAway
<1>5. tasks[j].id \in DOMAIN ActiveTimers
  BY DEF Mapped, ActiveTimers
<1>6. Running' = Running
  <2>1. CASE inside
    <3>1. inside' /\ i \in TaskSlots /\ i' = i
      BY <1>2, <2>1 DEF SlotsInv, SlotsFit
    <3>2. tasks'[i].id = tasks[i].id
      BY <1>1, <3>1
    <3> QED BY <2>1, <3>1, <3>2 DEF Running
  <2>2. CASE ~inside
    <3>1. ~inside'
      BY <1>2, <2>2
    <3> QED BY <2>2, <3>1 DEF Running
  <2> QED BY <2>1, <2>2
<1> QED BY <1>2, <1>4, <1>5, <1>6 DEF T!Cancel, T!Active

(* A callback runs for a timer that is due. *)
LEMMA StartsTimer ==
  ASSUME SlotsInv, Mapped, Mapped', CallbackBegins
  PROVE  T!Start
<1>1. i \in Used /\ \A j \in Used : j = i => DueTime(j) <= now /\ DueTime(j) <= clock
  BY BeginsDue
<1>2. UNCHANGED <<tasks, clock, i>> /\ ~inside
  BY DEF CallbackBegins
<1>3. inside'
  BY DEF CallbackBegins
<1>4. Running = 0 /\ Running' = tasks[i].id
  BY <1>2, <1>3 DEF Running
<1>5. tasks[i].id \in DOMAIN ActiveTimers /\ ActiveTimers[tasks[i].id] = TimerAt(i)
  BY <1>1 DEF Mapped, ActiveTimers
<1>6. ActiveTimers[tasks[i].id].due <= clock
  BY <1>1, <1>5 DEF TimerAt
<1>7. Used' = Used
  BY <1>2 DEF Used
<1>8. \A l \in Used : tasks'[l] = tasks[l] /\ DueTime(l)' = DueTime(l)
  BY <1>2, DueStays
<1>9. ActiveTimers' = ActiveTimers
  <2>1. \A l \in Used : tasks'[l].id = tasks[l].id /\ TimerAt(l)' = TimerAt(l)
    BY <1>8, TimerStays
  <2> QED BY <1>7, <2>1, SameTimers
<1> QED BY <1>2, <1>4, <1>5, <1>6, <1>9 DEF T!Start, T!Active

(* What is left of a timer after its callback. *)
LEMMA FinishesTimer ==
  ASSUME SlotsInv, Mapped, Mapped', CallbackEnds
  PROVE  T!Finish
<1>1. inside /\ clock' = clock
  BY DEF CallbackEnds
<1>2. inside' = FALSE
  BY DEF CallbackEnds
<1>3. Running = tasks[i].id /\ Running' = 0
  BY <1>1, <1>2 DEF Running
<1>4. i \in TaskSlots /\ tasks[i].id # 0
  BY <1>1 DEF SlotsInv, SlotsFit
<1>5. /\ \A l \in TaskSlots : tasks'[l].id = tasks[l].id
      /\ \A l \in TaskSlots \ {i} : tasks'[l] = tasks[l]
      /\ \A l \in Used \ {i} : DueTime(l)' = DueTime(l)
  BY EndMoves
<1>6. \A l \in Used \ {i} :
        l \in TaskSlots /\ tasks'[l].id = tasks[l].id /\ TimerAt(l)' = TimerAt(l)
  BY <1>5, TimerStays DEF Used
<1>7. DOMAIN ActiveTimers = ActiveIds
  BY DEF ActiveTimers
<1>8. CASE i \notin Used /\ Used' = Used
  <2>1. tasks[i].id \notin ActiveIds
    BY <1>4, <1>8 DEF Mapped
  <2>2. ActiveTimers' = ActiveTimers
    <3>1. \A l \in Used : tasks'[l].id = tasks[l].id /\ TimerAt(l)' = TimerAt(l)
      BY <1>6, <1>8
    <3> QED BY <1>8, <3>1, SameTimers
  <2>3. Running \notin T!Active /\ Running # 0 /\ Running' = 0
    BY <1>3, <1>4, <1>7, <2>1 DEF T!Active
  <2> QED BY <1>1, <2>2, <2>3, Zenon DEF T!Finish
<1>9. CASE i \in Used /\ tasks[i].type = "TIMEOUT" /\ Used' = Used \ {i}
  <2>1. tasks[i].id \in ActiveIds /\ ActiveTimers[tasks[i].id].type = "TIMEOUT"
    <3>1. tasks[i].id \in ActiveIds /\ ActiveTimers[tasks[i].id] = TimerAt(i)
      BY <1>9 DEF Mapped
    <3>2. TimerAt(i).type = tasks[i].type
      BY DEF TimerAt
    <3> QED BY <1>9, <3>1, <3>2
  <2>2. ActiveTimers' = T!Without(tasks[i].id)
    BY <1>5, <1>6, <1>9, TakesAway
  <2> QED BY <1>1, <1>3, <1>4, <1>7, <2>1, <2>2 DEF T!Finish, T!Active
<1>10. CASE /\ i \in Used /\ tasks[i].type = "INTERVAL" /\ Used' = Used
            /\ \A l \in Used : l = i =>
                 /\ tasks'[l].type = "INTERVAL" /\ tasks'[l].interval = tasks[l].interval
                 /\ DueTime(l)' = now + tasks[l].interval
  <2>1. PICK j \in Used : j = i
    BY <1>10
  <2>2. /\ tasks'[j].type = "INTERVAL" /\ tasks'[j].interval = tasks[j].interval
        /\ DueTime(j)' = now + tasks[j].interval /\ tasks[j].type = "INTERVAL"
        /\ tasks'[j].id = tasks[j].id
    BY <1>5, <1>4, <1>10, <2>1
  <2> DEFINE id == tasks[j].id
             g == [ActiveTimers EXCEPT ![id].due = now + ActiveTimers[id].every]
  <2>3. id \in ActiveIds /\ ActiveTimers[id] = TimerAt(j) /\ ActiveTimers'[id] = TimerAt(j)'
    BY <1>10, <2>2 DEF Mapped
  <2>4. g[id] = TimerAt(j)'
    <3>1. g[id] = [TimerAt(j) EXCEPT !.due = now + TimerAt(j).every]
      BY <1>7, <2>3
    <3>2. [TimerAt(j) EXCEPT !.due = now + TimerAt(j).every]
            = [type |-> tasks[j].type, every |-> tasks[j].interval, due |-> now + tasks[j].interval]
      BY DEF TimerAt
    <3>3. TimerAt(j)' = [type |-> tasks[j].type, every |-> tasks[j].interval,
                         due |-> now + tasks[j].interval]
      BY <2>2 DEF TimerAt
    <3> QED BY <3>1, <3>2, <3>3
  <2>5. ActiveIds' = ActiveIds
    <3>1. \A l \in Used : tasks'[l].id = tasks[l].id
      BY <1>5 DEF Used
    <3> QED BY <1>10, <3>1 DEF ActiveIds
  <2>6. \A x \in ActiveIds : ActiveTimers'[x] = g[x]
    <3> SUFFICES ASSUME NEW x \in ActiveIds
                 PROVE  ActiveTimers'[x] = g[x]
      OBVIOUS
    <3>1. CASE x = id
      BY <2>3, <2>4, <3>1
    <3>2. CASE x # id
      <4>1. PICK l \in Used : tasks[l].id = x
        BY DEF ActiveIds
      <4>2. l \in Used \ {i} /\ l \in Used' /\ tasks'[l].id = x
        BY <1>6, <1>10, <2>1, <3>2, <4>1
      <4>3. ActiveTimers'[x] = TimerAt(l)' /\ ActiveTimers[x] = TimerAt(l)
        BY <4>1, <4>2 DEF Mapped
      <4>4. g[x] = ActiveTimers[x]
        BY <1>7, <3>2
      <4> QED BY <1>6, <4>2, <4>3, <4>4
    <3> QED BY <3>1, <3>2
  <2>7. ActiveTimers' = [x \in ActiveIds |-> ActiveTimers'[x]]
    BY <2>5 DEF Mapped
  <2>8. g = [x \in ActiveIds |-> g[x]]
    BY <1>7
  <2>9. ActiveTimers' = g
    <3> HIDE DEF g
    <3> QED BY <2>6, <2>7, <2>8, SameFunction
  <2>10. now \in ActiveTimers[id].due .. clock
    <3>1. DueTime(j) \in Int
      BY DueHas
    <3>2. DueTime(j) <= now /\ now \in Nat /\ clock \in Nat /\ now <= clock
      BY <1>1, <2>1 DEF SlotsInv, DueFits, SlotsFit
    <3>3. ActiveTimers[id].due = DueTime(j)
      BY <2>3 DEF TimerAt
    <3> QED BY <3>1, <3>2, <3>3
  <2>11. ActiveTimers[id].type = "INTERVAL"
    BY <2>2, <2>3 DEF TimerAt
  <2>12. T!Again(id)
    BY <2>9, <2>10 DEF T!Again
  <2>13. Running = id /\ id # 0
    BY <1>3, <1>4, <2>1
  <2> HIDE DEF id
  <2> QED BY <1>1, <1>3, <1>7, <2>3, <2>11, <2>12, <2>13 DEF T!Finish, T!Active
<1> QED
  <2>1. \/ i \notin Used /\ Used' = Used
        \/ i \in Used /\ tasks[i].type = "TIMEOUT" /\ Used' = Used \ {i}
        \/ /\ i \in Used /\ tasks[i].type = "INTERVAL" /\ Used' = Used
           /\ \A l \in Used : l = i =>
                /\ tasks'[l].type = "INTERVAL" /\ tasks'[l].interval = tasks[l].interval
                /\ DueTime(l)' = now + tasks[l].interval
    BY EndMoves
  <2> QED BY <1>8, <1>9, <1>10, <2>1

(* The slots step as the timers do, or not at all. *)
LEMMA TimersStep ==
  ASSUME SlotsInv, SlotsInv', Mapped, Mapped', ~Rearms, [SchedulerNext]_schedulerVars
  PROVE  [T!TimePasses \/ T!Set \/ T!Cancel \/ T!Start \/ T!Finish]_(T!vars)
<1>1. ASSUME NEW k \in Kind, NEW d \in Delays, Set(k, d)
      PROVE  T!Set
  BY <1>1, SetsTimer
<1>2. CASE Clear
  BY <1>2, ClearsTimer
<1>3. CASE CallbackBegins
  BY <1>3, StartsTimer
<1>4. CASE CallbackEnds
  BY <1>4, FinishesTimer
<1>5. ASSUME UNCHANGED tasks, clock' = clock \/ TimePasses
      PROVE  ActiveTimers' = ActiveTimers
  <2>1. Used' = Used
    BY <1>5 DEF Used
  <2>2. \A l \in Used : tasks'[l] = tasks[l] /\ DueTime(l)' = DueTime(l)
    BY <1>5, DueStays
  <2>3. \A l \in Used : tasks'[l].id = tasks[l].id /\ TimerAt(l)' = TimerAt(l)
    BY <2>2, TimerStays
  <2> QED BY <2>1, <2>3, SameTimers
<1>6. CASE TimePasses
  <2>1. UNCHANGED <<tasks, i, inside>> /\ clock' = clock + 1
    BY <1>6 DEF TimePasses
  <2>2. Running' = Running
    BY <2>1 DEF Running
  <2>3. ActiveTimers' = ActiveTimers
    BY <1>5, <1>6, <2>1
  <2> QED BY <2>1, <2>2, <2>3 DEF T!TimePasses
<1>7. CASE SetRefused \/ UNCHANGED schedulerVars
  <2>1. UNCHANGED <<tasks, clock, i, inside>>
    BY <1>7 DEF SetRefused, schedulerVars
  <2>2. Running' = Running
    BY <2>1 DEF Running
  <2> QED BY <1>5, <2>1, <2>2 DEF T!vars
<1>8. CASE TickBegins \/ Skip
  <2>1. UNCHANGED <<tasks, clock, inside>> /\ ~inside
    <3>1. MaxTasks \notin TaskSlots
      BY SchedulerConstants DEF TaskSlots
    <3> QED BY <1>8, <3>1 DEF TickBegins, Skip, SlotsInv, SlotsFit
  <2>2. Running' = Running
    BY <2>1 DEF Running
  <2> QED BY <1>5, <2>1, <2>2 DEF T!vars
<1> QED
  BY <1>1, <1>2, <1>3, <1>4, <1>6, <1>7, <1>8 DEF SchedulerNext, Tick

(* What a slot holds and how far its time is hold in every state.           *)
THEOREM SlotsHold == ~Rearms => (SchedulerSpec => []SlotsInv)
<1> SUFFICES ASSUME ~Rearms
             PROVE  SchedulerSpec => []SlotsInv
  OBVIOUS
<1>1. SchedulerInit => SlotsInv
  BY SlotsStart, DueStart DEF SlotsInv
<1>2. SlotsInv /\ [SchedulerNext]_schedulerVars => SlotsInv'
  BY SlotsStep, DueStep DEF SlotsInv
<1> QED BY <1>1, <1>2, PTL DEF SchedulerSpec

(* The scheduler implements the timers: whatever the number of slots, the   *)
(* delays and the wraparound, no timer runs early, is lost or is cancelled  *)
(* in the place of another.                                                 *)
THEOREM SlotsKeepTimers == ~Rearms => (SchedulerSpec => KeepsTimers)
<1> SUFFICES ASSUME ~Rearms
             PROVE  SchedulerSpec => KeepsTimers
  OBVIOUS
<1>1. SchedulerSpec => []SlotsInv
  BY SlotsHold
<1>2. SlotsInv => Mapped
  BY TimersMapped DEF SlotsInv
<1>3. SlotsInv /\ SlotsInv' /\ Mapped /\ Mapped' /\ [SchedulerNext]_schedulerVars
        => [T!TimePasses \/ T!Set \/ T!Cancel \/ T!Start \/ T!Finish]_(T!vars)
  BY TimersStep
<1> QED BY <1>1, <1>2, <1>3, TimersStart, PTL DEF SchedulerSpec, KeepsTimers, T!Spec

-----------------------------------------------------------------------------
(* The button. *)

(* What is assumed of the constants of the button. *)
LEMMA ButtonConstants ==
  /\ Hold \in Nat \ {0} /\ Long \in Nat /\ Slow \in Nat \ {0}
  /\ Pause \in Nat /\ MaxFaults \in Nat
BY SketchAssumption DEF Button!ButtonAssumption

(* The smaller of two numbers. *)
LEMMA MinOfTwo ==
  ASSUME NEW a \in Int, NEW b \in Int
  PROVE  Button!Min({a, b}) = IF a <= b THEN a ELSE b
<1> DEFINE S == {a, b}
           m == IF a <= b THEN a ELSE b
<1>1. m \in S /\ \A y \in S : m <= y
  OBVIOUS
<1>2. \A x \in S : (\A y \in S : x <= y) => x = m
  OBVIOUS
<1> HIDE DEF S, m
<1>3. (CHOOSE x \in S : \A y \in S : x <= y) = m
  BY <1>1, <1>2
<1>4. Button!Min(S) = m
  BY <1>3 DEF Button!Min
<1> QED BY <1>4 DEF S, m

(* Between a release and the next press loop() comes around at least once.  *)
PauseIsNoticed == Pause > Slow

(* Types of the button. *)
ButtonFlags ==
  /\ down \in BOOLEAN /\ pressing \in BOOLEAN /\ portal \in BOOLEAN /\ served \in BOOLEAN
  /\ short \in BOOLEAN

(* And of its counters. *)
ButtonTypes ==
  /\ ButtonFlags
  /\ since \in 0 .. Hold /\ gap \in 0 .. Slow /\ held \in Nat /\ up \in 0 .. Pause

(* A release is noticed before the next press, and a hold is counted from   *)
(* the first pass that finds the button down.                               *)
HoldIsCounted ==
  /\ ~down => held = 0
  /\ ~down /\ pressing => up <= gap
  /\ down /\ pressing => since <= held
  /\ ~short

(* Until the portal has been open or has failed to, the passes have seen    *)
(* the hold, and the count is behind by one of them.                        *)
HoldIsSeen ==
  /\ down /\ portal => served
  /\ down /\ ~served /\ ~pressing => held <= gap
  /\ down /\ ~served /\ pressing /\ since < Hold => held <= since + Slow
  /\ down /\ ~served /\ pressing /\ since = Hold => held <= Hold + Slow + gap

(* The strengthening of HoldOpens that every step preserves. *)
HoldInv == ButtonTypes /\ HoldIsCounted /\ HoldIsSeen

(* The button starts released. *)
LEMMA HoldStart == Button!Init => HoldInv
<1> SUFFICES ASSUME Button!Init
             PROVE  HoldInv
  OBVIOUS
<1>0. ButtonFlags
  BY Zenon DEF Button!Init, ButtonFlags
<1>1. ButtonTypes
  BY <1>0, ButtonConstants DEF Button!Init, ButtonTypes
<1>2. HoldIsCounted /\ HoldIsSeen
  BY ButtonConstants DEF Button!Init, HoldIsCounted, HoldIsSeen
<1> QED BY <1>1, <1>2 DEF HoldInv

(* The flags stay flags. *)
LEMMA FlagsStay ==
  ASSUME ButtonFlags, [Button!Next]_(Button!vars)
  PROVE  ButtonFlags'
<1> USE DEF ButtonFlags, Button!loop
<1>1. CASE Button!PassUp
  BY <1>1, Zenon DEF Button!PassUp
<1>2. CASE Button!PassStarts
  BY <1>2, Zenon DEF Button!PassStarts
<1>3. CASE Button!PassOpens
  <2>1. short' = (held < Hold) /\ served' = TRUE /\ down' = down /\ pressing' = FALSE
    BY <1>3 DEF Button!PassOpens
  <2>2. portal' = portal \/ portal' = TRUE
    BY <1>3 DEF Button!PassOpens
  <2>3. short' \in BOOLEAN
    <3>1. CASE held < Hold
      BY <2>1, <3>1
    <3>2. CASE ~(held < Hold)
      BY <2>1, <3>2
    <3> QED BY <3>1, <3>2
  <2> QED BY <2>1, <2>2, <2>3, Zenon
<1>4. CASE Button!PassWaits
  BY <1>4, Zenon DEF Button!PassWaits
<1>5. CASE Button!Press
  BY <1>5, Zenon DEF Button!Press
<1>6. CASE Button!Release
  BY <1>6, Zenon DEF Button!Release
<1>7. CASE Button!OpensItself
  BY <1>7, Zenon DEF Button!OpensItself
<1>8. CASE Button!Closes
  BY <1>8, Zenon DEF Button!Closes
<1>9. CASE Button!ResetByPage
  BY <1>9, Zenon DEF Button!ResetByPage
<1>10. CASE Button!Tick
  BY <1>10, Zenon DEF Button!Tick
<1>11. CASE UNCHANGED Button!vars
  BY <1>11, Zenon DEF Button!vars
<1> QED
  BY <1>1, <1>2, <1>3, <1>4, <1>5, <1>6, <1>7, <1>8, <1>9, <1>10, <1>11
  DEF Button!Next, Button!Pass

(* No step makes the counts of the button disagree. *)
LEMMA HoldStep ==
  ASSUME PauseIsNoticed, HoldInv, [Button!Next]_(Button!vars)
  PROVE  HoldInv'
<1>c. Hold \in Nat \ {0} /\ Slow \in Nat \ {0} /\ Pause \in Nat /\ Pause > Slow
  BY ButtonConstants DEF PauseIsNoticed
<1>t. ButtonTypes
  BY DEF HoldInv
<1>f. ButtonFlags /\ ButtonFlags'
  BY <1>t, FlagsStay DEF ButtonTypes
<1>h. HoldIsCounted /\ HoldIsSeen
  BY DEF HoldInv
<1> USE DEF Button!loop
<1>1. CASE Button!PassUp
  <2>1. ButtonTypes'
    BY <1>c, <1>f, <1>t, <1>1 DEF ButtonTypes, Button!PassUp
  <2>2. HoldIsCounted' /\ HoldIsSeen'
    BY <1>c, <1>f, <1>t, <1>h, <1>1 DEF ButtonTypes, ButtonFlags, HoldIsCounted,
        HoldIsSeen, Button!PassUp
  <2> QED BY <2>1, <2>2 DEF HoldInv
<1>2. CASE Button!PassStarts
  <2>1. ButtonTypes'
    BY <1>c, <1>f, <1>t, <1>2 DEF ButtonTypes, Button!PassStarts
  <2>2. HoldIsCounted' /\ HoldIsSeen'
    BY <1>c, <1>f, <1>t, <1>h, <1>2 DEF ButtonTypes, ButtonFlags, HoldIsCounted,
        HoldIsSeen, Button!PassStarts
  <2> QED BY <2>1, <2>2 DEF HoldInv
<1>3. CASE Button!PassOpens
  <2>0. since = Hold /\ held >= Hold /\ down /\ pressing
    BY <1>c, <1>f, <1>t, <1>h, <1>3 DEF ButtonTypes, ButtonFlags, HoldIsCounted,
        Button!PassOpens, Button!LongPress
  <2>1. ButtonTypes'
    BY <1>c, <1>f, <1>t, <1>3 DEF ButtonTypes, Button!PassOpens
  <2>2. ~short'
    <3>1. short' = (held < Hold)
      BY <1>3 DEF Button!PassOpens
    <3>2. ~(held < Hold)
      BY <1>c, <1>t, <2>0 DEF ButtonTypes
    <3> QED BY <3>1, <3>2, Zenon
  <2>3. HoldIsCounted' /\ HoldIsSeen'
    BY <1>c, <1>f, <1>t, <1>h, <1>3, <2>0, <2>2 DEF ButtonTypes, ButtonFlags,
        HoldIsCounted, HoldIsSeen, Button!PassOpens
  <2> QED BY <2>1, <2>3 DEF HoldInv
<1>4. CASE Button!PassWaits
  <2>1. ButtonTypes'
    BY <1>c, <1>f, <1>t, <1>4 DEF ButtonTypes, Button!PassWaits
  <2>2. HoldIsCounted' /\ HoldIsSeen'
    BY <1>c, <1>f, <1>t, <1>h, <1>4 DEF ButtonTypes, ButtonFlags, HoldIsCounted,
        HoldIsSeen, Button!PassWaits
  <2> QED BY <2>1, <2>2 DEF HoldInv
<1>5. CASE Button!Press
  <2>0. ~pressing
    BY <1>c, <1>f, <1>t, <1>h, <1>5 DEF ButtonTypes, ButtonFlags, HoldIsCounted,
        Button!Press
  <2>1. ButtonTypes'
    BY <1>c, <1>f, <1>t, <1>5 DEF ButtonTypes, Button!Press
  <2>2. HoldIsCounted' /\ HoldIsSeen'
    BY <1>c, <1>f, <1>t, <1>h, <1>5, <2>0 DEF ButtonTypes, ButtonFlags, HoldIsCounted,
        HoldIsSeen, Button!Press
  <2> QED BY <2>1, <2>2 DEF HoldInv
<1>6. CASE Button!Release
  <2>1. ButtonTypes'
    BY <1>c, <1>f, <1>t, <1>6 DEF ButtonTypes, Button!Release
  <2>2. HoldIsCounted' /\ HoldIsSeen'
    BY <1>c, <1>f, <1>t, <1>h, <1>6 DEF ButtonTypes, ButtonFlags, HoldIsCounted,
        HoldIsSeen, Button!Release
  <2> QED BY <2>1, <2>2 DEF HoldInv
<1>7. CASE Button!OpensItself
  <2>1. ButtonTypes'
    BY <1>c, <1>f, <1>t, <1>7 DEF ButtonTypes, Button!OpensItself
  <2>2. HoldIsCounted' /\ HoldIsSeen'
    BY <1>c, <1>f, <1>t, <1>h, <1>7 DEF ButtonTypes, ButtonFlags, HoldIsCounted,
        HoldIsSeen, Button!OpensItself
  <2> QED BY <2>1, <2>2 DEF HoldInv
<1>8. CASE Button!Closes
  <2>1. ButtonTypes'
    BY <1>c, <1>f, <1>t, <1>8 DEF ButtonTypes, Button!Closes
  <2>2. HoldIsCounted' /\ HoldIsSeen'
    BY <1>c, <1>f, <1>t, <1>h, <1>8 DEF ButtonTypes, ButtonFlags, HoldIsCounted,
        HoldIsSeen, Button!Closes
  <2> QED BY <2>1, <2>2 DEF HoldInv
<1>9. CASE Button!ResetByPage
  <2>1. ButtonTypes'
    BY <1>c, <1>f, <1>t, <1>9 DEF ButtonTypes, Button!ResetByPage
  <2>2. HoldIsCounted' /\ HoldIsSeen'
    BY <1>c, <1>f, <1>t, <1>h, <1>9 DEF ButtonTypes, ButtonFlags, HoldIsCounted,
        HoldIsSeen, Button!ResetByPage
  <2> QED BY <2>1, <2>2 DEF HoldInv
<1>10. CASE Button!Tick
  <2>c. Button!Enough \in Nat /\ Hold <= Button!Enough
    BY ButtonConstants DEF Button!Enough
  <2>t. since \in 0 .. Hold /\ gap \in 0 .. Slow /\ held \in Nat /\ up \in 0 .. Pause
    BY <1>t DEF ButtonTypes
  <2>1. PICK s \in 0 .. Hold : s = since' /\ s = IF since + 1 <= Hold THEN since + 1 ELSE Hold
    BY <1>c, <2>t, <1>10, MinOfTwo DEF Button!Tick
  <2>2. PICK u \in 0 .. Pause : u = up' /\ u <= up + 1
    BY <1>c, <2>t, <1>10, MinOfTwo DEF Button!Tick
  <2>3. PICK h \in Nat : h = held' /\ h <= held + 1 /\ (~down => h = 0)
                         /\ (down => h = IF held + 1 <= Button!Enough THEN held + 1
                                                                   ELSE Button!Enough)
    BY <2>c, <2>t, <1>10, MinOfTwo DEF Button!Tick
  <2>4. gap < Slow /\ gap' = gap + 1
        /\ UNCHANGED <<down, pressing, portal, served, short>>
    BY <1>10 DEF Button!Tick
  <2>5. ButtonTypes'
    BY <1>c, <1>f, <1>t, <2>t, <2>1, <2>2, <2>3, <2>4 DEF ButtonTypes
  <2>6. HoldIsCounted'
    <3>1. ~down' => held' = 0
      BY <2>3, <2>4
    <3>2. ~down' /\ pressing' => up' <= gap'
      BY <1>c, <1>f, <1>h, <2>t, <2>2, <2>4 DEF ButtonFlags, HoldIsCounted
    <3>3. ASSUME down', pressing'
          PROVE  since' <= held'
      <4>1. down /\ since <= held
        BY <1>h, <2>4, <3>3 DEF HoldIsCounted
      <4>2. h = IF held + 1 <= Button!Enough THEN held + 1 ELSE Button!Enough
        BY <2>3, <4>1
      <4>3. s <= h
        BY <1>c, <2>c, <2>t, <2>1, <4>1, <4>2
      <4> QED BY <2>1, <2>3, <4>3
    <3>4. ~short'
      BY <1>h, <2>4 DEF HoldIsCounted
    <3> QED BY <3>1, <3>2, <3>3, <3>4 DEF HoldIsCounted
  <2>7. HoldIsSeen'
    BY <1>c, <1>f, <1>t, <1>h, <2>t, <2>1, <2>3, <2>4 DEF ButtonFlags, HoldIsSeen
  <2> QED BY <2>5, <2>6, <2>7 DEF HoldInv
<1>11. CASE UNCHANGED Button!vars
  <2>1. UNCHANGED <<down, pressing, since, portal, gap, held, up, served, short>>
    BY <1>11 DEF Button!vars
  <2> QED BY <1>t, <1>h, <2>1 DEF HoldInv, ButtonTypes, ButtonFlags, HoldIsCounted, HoldIsSeen
<1> QED
  BY <1>1, <1>2, <1>3, <1>4, <1>5, <1>6, <1>7, <1>8, <1>9, <1>10, <1>11
  DEF Button!Next, Button!Pass

(* The counts agree in every state. *)
LEMMA ButtonHolds == PauseIsNoticed => (Button!ButtonSpec => []HoldInv)
<1> SUFFICES ASSUME PauseIsNoticed
             PROVE  Button!ButtonSpec => []HoldInv
  OBVIOUS
<1>1. HoldInv /\ [Button!Next]_(Button!vars) => HoldInv'
  BY HoldStep
<1> QED BY <1>1, HoldStart, PTL DEF Button!ButtonSpec

(* Counts that agree leave no press unserved. *)
LEMMA HoldIsEnough ==
  ASSUME HoldInv
  PROVE  HoldOpens
<1>1. ~short
  BY DEF HoldInv, HoldIsCounted
<1>2. ASSUME ~served
      PROVE  held <= Hold + 2 * Slow
  <2>c. Hold \in Nat \ {0} /\ Slow \in Nat \ {0}
    BY ButtonConstants
  <2>t. /\ since \in 0 .. Hold /\ gap \in 0 .. Slow /\ held \in Nat
        /\ down \in BOOLEAN /\ pressing \in BOOLEAN
    BY DEF HoldInv, ButtonTypes, ButtonFlags
  <2>1. CASE ~down
    BY <2>c, <2>1 DEF HoldInv, HoldIsCounted
  <2>2. CASE down /\ ~pressing
    <3>1. held <= gap
      BY <1>2, <2>2 DEF HoldInv, HoldIsSeen
    <3> QED BY <2>c, <2>t, <3>1
  <2>3. CASE down /\ pressing /\ since < Hold
    <3>1. held <= since + Slow
      BY <1>2, <2>3 DEF HoldInv, HoldIsSeen
    <3> QED BY <2>c, <2>t, <2>3, <3>1
  <2>4. CASE down /\ pressing /\ since = Hold
    <3>1. held <= Hold + Slow + gap
      BY <1>2, <2>4 DEF HoldInv, HoldIsSeen
    <3> QED BY <2>c, <2>t, <3>1
  <2> QED BY <2>c, <2>t, <2>1, <2>2, <2>3, <2>4
<1>3. held \in Nat /\ Hold \in Nat /\ Slow \in Nat
  BY ButtonConstants DEF HoldInv, ButtonTypes
<1> QED BY <1>1, <1>2, <1>3 DEF HoldOpens, Button!HoldIsServed, Button!HeldThroughout

-----------------------------------------------------------------------------
(* The payload builder.                                                     *)

(* What holds of 0 and, with n, of n + 1 holds of every number.  The set    *)
(* stands for the property.                                                 *)
LEMMA NatSet ==
  ASSUME NEW S, 0 \in S, \A n \in Nat : n \in S => n + 1 \in S
  PROVE  Nat \subseteq S
<1> SUFFICES ASSUME ~(Nat \subseteq S) PROVE FALSE
  OBVIOUS
<1> DEFINE R == Nat \ S
<1>1. PICK x \in R : \A y \in R : ~ (<<y, x>> \in OpToRel(<, Nat))
  BY NatLessThanWellFounded, WFMin, Zenon
<1>2. x \in Nat /\ x \notin S /\ \A y \in R : ~(y < x)
  BY <1>1, Zenon DEF OpToRel
<1>3. x # 0 /\ x - 1 \in Nat /\ x - 1 < x
  BY <1>2
<1>4. x - 1 \in S
  BY <1>2, <1>3
<1>5. (x - 1) + 1 \in S
  BY <1>3, <1>4
<1>6. QED BY <1>2, <1>5

(* Sum as the function its definition speaks of, and that there is one.     *)
Sums(s, f, n) == f = [m \in 0 .. n |-> IF m = 0 THEN 0 ELSE f[m - 1] + s[m]]

LEMMA SumsExists ==
  ASSUME NEW s
  PROVE  \A n \in Nat : \E f : Sums(s, f, n)
<1> DEFINE S == {n \in Nat : \E f : Sums(s, f, n)}
<1>1. 0 \in S
  <2>1. Sums(s, [m \in 0 .. 0 |-> 0], 0)
    BY DEF Sums
  <2>2. QED BY <2>1
<1>2. ASSUME NEW n \in Nat, n \in S PROVE n + 1 \in S
  <2>1. PICK f : Sums(s, f, n)
    BY <1>2
  <2> DEFINE g == [m \in 0 .. n + 1 |-> IF m = n + 1 THEN f[n] + s[n + 1] ELSE f[m]]
  <2>2. g = [m \in 0 .. n + 1 |-> IF m = 0 THEN 0 ELSE g[m - 1] + s[m]]
    <3>1. ASSUME NEW m \in 0 .. n + 1
          PROVE  g[m] = IF m = 0 THEN 0 ELSE g[m - 1] + s[m]
      <4>1. CASE m = n + 1
        <5>1. m # 0 /\ m - 1 = n /\ n # n + 1 /\ n \in 0 .. n + 1
          BY <4>1
        <5>2. g[m - 1] = f[n]
          BY <5>1
        <5>3. g[m] = f[n] + s[n + 1]
          BY <4>1
        <5>4. QED BY <4>1, <5>1, <5>2, <5>3
      <4>2. CASE m \in 0 .. n
        BY <4>2, <2>1 DEF Sums
      <4>3. QED BY <4>1, <4>2
    <3>2. g = [m \in 0 .. n + 1 |-> g[m]]
      OBVIOUS
    <3> HIDE DEF g
    <3>3. QED BY <3>1, <3>2
  <2> HIDE DEF g
  <2>3. QED BY <2>2 DEF Sums
<1>3. QED BY <1>1, <1>2, NatSet

(* Sum is the last value of one.                                            *)
LEMMA SumIs ==
  ASSUME NEW s, Len(s) \in Nat
  PROVE  \E f : Sums(s, f, Len(s)) /\ Builder!Sum(s) = f[Len(s)]
<1> DEFINE F == CHOOSE f : Sums(s, f, Len(s))
<1>1. Sums(s, F, Len(s))
  BY SumsExists
<1>2. Builder!Sum(s) = F[Len(s)]
  BY DEF Builder!Sum, Sums
<1>3. QED BY <1>1, <1>2

(* Lengths add up to a length, and one more adds its own.                   *)
LEMMA SumAppend ==
  ASSUME NEW s \in Seq(Nat), NEW x \in Nat
  PROVE  /\ Builder!Sum(s) \in Nat /\ Builder!Sum(<<>>) = 0
         /\ Builder!Sum(Append(s, x)) = Builder!Sum(s) + x
<1> DEFINE t == Append(s, x)
<1>1. Len(s) \in Nat /\ Len(t) = Len(s) + 1
  OBVIOUS
<1>2. /\ \A k \in 1 .. Len(s) : s[k] \in Nat /\ t[k] = s[k]
      /\ t[Len(s) + 1] = x
  OBVIOUS
<1> HIDE DEF t
<1>3. PICK f : Sums(s, f, Len(s)) /\ Builder!Sum(s) = f[Len(s)]
  BY <1>1, SumIs
<1>4. PICK g : Sums(t, g, Len(t)) /\ Builder!Sum(t) = g[Len(t)]
  BY <1>1, SumIs
<1>5. Builder!Sum(<<>>) = 0
  <2>1. PICK h : Sums(<<>>, h, Len(<<>>)) /\ Builder!Sum(<<>>) = h[Len(<<>>)]
    BY SumIs
  <2>2. QED BY <2>1 DEF Sums
<1> DEFINE S == {n \in Nat : n <= Len(s) => f[n] \in Nat /\ g[n] = f[n]}
<1>6. 0 \in S
  BY <1>1, <1>3, <1>4 DEF Sums
<1>7. ASSUME NEW n \in Nat, n \in S PROVE n + 1 \in S
  <2> SUFFICES ASSUME n + 1 <= Len(s) PROVE f[n + 1] \in Nat /\ g[n + 1] = f[n + 1]
    OBVIOUS
  <2>1. f[n] \in Nat /\ g[n] = f[n] /\ s[n + 1] \in Nat /\ t[n + 1] = s[n + 1]
    BY <1>1, <1>2, <1>7
  <2>2. f[n + 1] = f[n] + s[n + 1] /\ g[n + 1] = g[n] + t[n + 1]
    BY <1>1, <1>3, <1>4 DEF Sums
  <2>3. QED BY <2>1, <2>2
<1>8. f[Len(s)] \in Nat /\ g[Len(s)] = f[Len(s)]
  <2>1. Nat \subseteq S
    BY <1>6, <1>7, NatSet
  <2>2. QED BY <1>1, <2>1
<1>9. g[Len(s) + 1] = g[Len(s)] + x
  BY <1>1, <1>2, <1>4 DEF Sums
<1>10. QED BY <1>1, <1>3, <1>4, <1>5, <1>8, <1>9 DEF t

(* A field more: its length, and a comma unless it is the first.            *)
LEMMA WholeAppend ==
  ASSUME NEW s \in Seq(Nat), NEW x \in Nat
  PROVE  /\ Builder!Whole(s) \in Nat /\ Builder!Whole(<<>>) = 2
         /\ Builder!Whole(Append(s, x)) = Builder!Whole(s) + x + (IF s = <<>> THEN 0 ELSE 1)
<1>1. Len(s) \in Nat /\ Append(s, x) # <<>> /\ Len(Append(s, x)) = Len(s) + 1
  OBVIOUS
<1>2. s = <<>> => Len(s) = 0
  OBVIOUS
<1>3. /\ Builder!Sum(s) \in Nat /\ Builder!Sum(<<>>) = 0
      /\ Builder!Sum(Append(s, x)) = Builder!Sum(s) + x
  BY SumAppend
<1>4. Builder!Whole(<<>>) = 2
  BY <1>3 DEF Builder!Whole
<1>5. Builder!Whole(s) = 1 + Builder!Sum(s) + (IF s = <<>> THEN 1 ELSE Len(s))
  BY DEF Builder!Whole
<1>6. Builder!Whole(Append(s, x)) = 1 + Builder!Sum(Append(s, x)) + Len(Append(s, x))
  BY <1>1 DEF Builder!Whole
<1>7. CASE s = <<>>
  <2>1. Builder!Whole(s) = 2 /\ Builder!Sum(s) = 0 /\ Len(s) = 0
    BY <1>2, <1>3, <1>4, <1>7
  <2>2. Builder!Whole(Append(s, x)) = x + 2
    BY <1>1, <1>3, <1>6, <2>1
  <2>3. QED BY <1>4, <1>7, <2>1, <2>2
<1>8. CASE s # <<>>
  <2>1. Builder!Whole(s) = 1 + Builder!Sum(s) + Len(s)
    BY <1>5, <1>8
  <2>2. Builder!Whole(Append(s, x)) = 1 + Builder!Sum(s) + x + Len(s) + 1
    BY <1>1, <1>3, <1>6
  <2>3. QED BY <1>1, <1>3, <1>4, <1>8, <2>1, <2>2
<1>9. QED BY <1>7, <1>8

LEMMA LesserOf ==
  ASSUME NEW a \in Int, NEW b \in Int
  PROVE  Builder!Min({a, b}) = IF a <= b THEN a ELSE b
<1> DEFINE S == {a, b}
           m == IF a <= b THEN a ELSE b
<1>1. m \in S /\ \A y \in S : m <= y
  OBVIOUS
<1>2. \A x \in S : (\A y \in S : x <= y) => x = m
  OBVIOUS
<1> HIDE DEF S, m
<1>3. (CHOOSE x \in S : \A y \in S : x <= y) = m
  BY <1>1, <1>2
<1>4. Builder!Min(S) = m
  BY <1>3 DEF Builder!Min
<1>5. QED BY <1>4 DEF S, m

(* One task at a time has the builder: every callback runs in it.           *)
OneBuilder == \A t, u \in Tasks : t = u

Field == [by : Tasks, length : Lengths]

(* What the sketch has asked for since it began. *)
Asked(t) == [k \in DOMAIN asked[t] |-> [by |-> t, length |-> asked[t][k]]]

BuilderTypes ==
  /\ len \in Nat /\ fields \in Seq(Field)
  /\ asked \in [Tasks -> Seq(Lengths)] /\ building \subseteq Tasks

(* An open payload is as long as its fields make it, less the last brace,   *)
(* those included that did not fit: the length goes on counting, and what   *)
(* has passed the end stays there.                                          *)
LengthIs ==
  active => /\ len + 1 = Builder!Whole(Builder!LengthsOf(fields))
            /\ fields = <<>> \/ len > 1

(* With one task, its payload is open while it builds, and has the fields   *)
(* it asked for, or these do not fit.                                       *)
Own ==
  \A t \in building :
     active /\ (fields = Asked(t) \/ Builder!Whole(asked[t]) >= Room)

BuilderInv == BuilderTypes /\ LengthIs /\ Builder!FittingIsWhole

LEMMA BuilderConstants ==
  /\ Room \in Nat /\ Room > 2 /\ Short \in Nat /\ Slot \in Nat
  /\ Lengths \subseteq Nat \ {0} /\ MaxFields \in Nat
BY SketchAssumption DEF Builder!PayloadAssumption

LEMMA LengthsAreNumbers == ASSUME NEW s \in Seq(Lengths) PROVE s \in Seq(Nat)
<1>1. Len(s) \in Nat /\ s \in [1 .. Len(s) -> Lengths]
  OBVIOUS
<1>2. s \in [1 .. Len(s) -> Nat]
  BY <1>1, BuilderConstants
<1>3. QED BY <1>1, <1>2

LEMMA BuilderStarts == Builder!Init => BuilderInv /\ Own
<1> SUFFICES ASSUME Builder!Init PROVE BuilderInv /\ Own
  OBVIOUS
<1>1. BuilderTypes
  BY DEF Builder!Init, BuilderTypes
<1>2. QED
  BY <1>1 DEF Builder!Init, BuilderInv, LengthIs, Own, Builder!FittingIsWhole

(* The lengths of the fields, one field more, and what was asked of it.     *)
LEMMA LengthsAppend ==
  ASSUME NEW fs \in Seq(Field), NEW f \in Field
  PROVE  /\ Builder!LengthsOf(fs) \in Seq(Nat) /\ f.length \in Nat \ {0}
         /\ Builder!LengthsOf(<<>>) = <<>>
         /\ Builder!LengthsOf(Append(fs, f)) = Append(Builder!LengthsOf(fs), f.length)
         /\ Builder!LengthsOf(fs) = <<>> <=> fs = <<>>
<1>1. Len(fs) \in Nat /\ DOMAIN fs = 1 .. Len(fs) /\ \A k \in 1 .. Len(fs) : fs[k] \in Field
  OBVIOUS
<1>2. \A g \in Field : g.length \in Nat \ {0}
  BY BuilderConstants DEF Field
<1> DEFINE ls == Builder!LengthsOf(fs)
<1>3. ls = [k \in 1 .. Len(fs) |-> fs[k].length]
  BY <1>1 DEF Builder!LengthsOf
<1>4. ls \in [1 .. Len(fs) -> Nat]
  BY <1>1, <1>2, <1>3
<1> HIDE DEF ls
<1>5. ls \in Seq(Nat) /\ Len(ls) = Len(fs)
  BY <1>1, <1>4
<1>6. Builder!LengthsOf(<<>>) = <<>>
  BY DEF Builder!LengthsOf
<1>7. ls = <<>> <=> fs = <<>>
  BY <1>1, <1>5
<1>8. Builder!LengthsOf(Append(fs, f)) = Append(ls, f.length)
  <2> DEFINE one == Builder!LengthsOf(Append(fs, f))
             two == Append(ls, f.length)
  <2>1. /\ DOMAIN Append(fs, f) = 1 .. Len(fs) + 1
        /\ \A k \in 1 .. Len(fs) : Append(fs, f)[k] = fs[k]
        /\ Append(fs, f)[Len(fs) + 1] = f
    BY <1>1
  <2>2. one = [k \in 1 .. Len(fs) + 1 |-> Append(fs, f)[k].length]
    BY <2>1 DEF Builder!LengthsOf
  <2>3. /\ two = [k \in 1 .. Len(fs) + 1 |-> two[k]]
        /\ \A k \in 1 .. Len(fs) : two[k] = ls[k]
        /\ two[Len(fs) + 1] = f.length
    BY <1>1, <1>2, <1>5
  <2>4. \A k \in 1 .. Len(fs) + 1 : Append(fs, f)[k].length = two[k]
    BY <1>1, <1>3, <2>1, <2>3
  <2> HIDE DEF one, two
  <2>5. one = two
    BY <2>2, <2>3, <2>4
  <2>6. QED BY <2>5 DEF one, two
<1>9. QED BY <1>2, <1>5, <1>6, <1>7, <1>8 DEF ls

(* A field is counted, and with it a comma unless it is the first.          *)
LEMMA FieldCounts ==
  ASSUME BuilderInv, active, NEW f \in Field,
         len' = len + Builder!Comma + f.length, fields' = Append(fields, f), active' = active
  PROVE  LengthIs' /\ len' \in Nat /\ fields' \in Seq(Field)
<1> DEFINE ls == Builder!LengthsOf(fields)
<1>1. /\ ls \in Seq(Nat) /\ f.length \in Nat \ {0}
      /\ Builder!LengthsOf(fields') = Append(ls, f.length)
      /\ ls = <<>> <=> fields = <<>>
  BY LengthsAppend DEF BuilderInv, BuilderTypes
<1>2. /\ len \in Nat /\ len + 1 = Builder!Whole(ls) /\ (fields = <<>> \/ len > 1)
      /\ fields' \in Seq(Field)
  BY DEF BuilderInv, BuilderTypes, LengthIs
<1> HIDE DEF ls
<1>3. /\ Builder!Whole(ls) \in Nat /\ Builder!Whole(<<>>) = 2
      /\ Builder!Whole(Append(ls, f.length))
           = Builder!Whole(ls) + f.length + (IF ls = <<>> THEN 0 ELSE 1)
  BY <1>1, WholeAppend
<1>4. Builder!Comma = IF ls = <<>> THEN 0 ELSE 1
  BY <1>1, <1>2, <1>3 DEF Builder!Comma
<1>5. len' \in Nat /\ len' > 1
  BY <1>1, <1>2, <1>3, <1>4
<1>6. len' + 1 = Builder!Whole(Append(ls, f.length))
  BY <1>1, <1>2, <1>3, <1>4
<1>7. QED BY <1>1, <1>2, <1>5, <1>6 DEF LengthIs

(* What publish() is given, when what was written fits its buffer.          *)
LEMMA PublishesWhole ==
  ASSUME NEW fs, NEW bytes \in Int, NEW room \in Nat, Builder!Publish(fs, bytes, room),
         online' = online,
         Builder!Whole(Builder!LengthsOf(fs)) < room => bytes = Builder!Whole(Builder!LengthsOf(fs)),
         Builder!Whole(Builder!LengthsOf(fs)) \in Nat
  PROVE  Builder!FittingIsWhole'
<1>1. Slot \in Nat
  BY BuilderConstants
<1>2. bytes <= room - 1 => Builder!Min({bytes, room - 1}) = bytes
  BY LesserOf
<1>3. bytes <= Slot => Builder!Min({bytes, Slot}) = bytes
  BY <1>1, LesserOf
<1>4. messages' = {[fields |-> fs, bytes |-> bytes, text |-> Builder!Min({bytes, room - 1}),
                    kept |-> Builder!Kept(bytes), room |-> room]}
  BY DEF Builder!Publish
<1>5. ASSUME NEW m \in messages', Builder!Whole(Builder!LengthsOf(m.fields)) < m.room
      PROVE  Builder!Complete(m) /\ (online' \/ m.bytes <= Slot => m.kept = m.bytes)
  <2>1. /\ m.fields = fs /\ m.bytes = bytes /\ m.text = Builder!Min({bytes, room - 1})
        /\ m.kept = Builder!Kept(bytes) /\ m.room = room
    BY <1>4, <1>5
  <2>2. bytes = Builder!Whole(Builder!LengthsOf(fs)) /\ bytes <= room - 1
    BY <1>5, <2>1
  <2>3. Builder!Complete(m)
    BY <1>2, <2>1, <2>2 DEF Builder!Complete
  <2>4. online' \/ m.bytes <= Slot => m.kept = m.bytes
    BY <1>3, <2>1 DEF Builder!Kept
  <2>5. QED BY <2>3, <2>4
<1>6. QED BY <1>5 DEF Builder!FittingIsWhole

(* Whatever the builder does keeps the lengths and the types.               *)
LEMMA BuilderKept == ASSUME BuilderInv, Builder!Next PROVE BuilderInv'
<1> USE DEF BuilderInv
<1>1. /\ len \in Nat /\ fields \in Seq(Field)
      /\ asked \in [Tasks -> Seq(Lengths)] /\ building \subseteq Tasks
  BY DEF BuilderTypes
<1>2. messages' = {} => Builder!FittingIsWhole'
  BY DEF Builder!FittingIsWhole
<1>3. CASE Builder!Enrollment \/ Builder!Link
  BY <1>2, <1>3
  DEF Builder!Enrollment, Builder!Link, BuilderTypes, LengthIs
<1>4. ASSUME NEW t \in Tasks, Builder!Begin(t) PROVE BuilderInv'
  <2>1. BuilderTypes'
    BY <1>1, <1>4 DEF Builder!Begin, BuilderTypes
  <2>2. Builder!LengthsOf(<<>>) = <<>>
    BY DEF Builder!LengthsOf
  <2>3. Builder!Whole(<<>>) = 2
    BY <<>> \in Seq(Nat), 0 \in Nat, WholeAppend
  <2>4. LengthIs'
    BY <1>4, <2>2, <2>3 DEF Builder!Begin, LengthIs
  <2>5. QED BY <1>2, <1>4, <2>1, <2>4 DEF Builder!Begin
<1>5. ASSUME NEW t \in Tasks, Builder!EndIgnored(t) PROVE BuilderInv'
  BY <1>1, <1>2, <1>5 DEF Builder!EndIgnored, BuilderTypes, LengthIs
<1>6. ASSUME NEW t \in Tasks, Builder!EndPublishes(t) PROVE BuilderInv'
  <2>1. /\ active /\ active' = FALSE /\ fields' = fields /\ asked' = asked
        /\ building' = building \ {t} /\ online' = online
        /\ len' = IF Builder!Closed THEN len + 1 ELSE len
        /\ Builder!Publish(fields, len', Room)
    BY <1>6 DEF Builder!EndPublishes
  <2>2. BuilderTypes' /\ LengthIs'
    BY <1>1, <2>1 DEF BuilderTypes, LengthIs
  <2>3. len + 1 = Builder!Whole(Builder!LengthsOf(fields)) /\ Room \in Nat
    BY <2>1, BuilderConstants DEF LengthIs
  <2>4. Builder!Whole(Builder!LengthsOf(fields)) < Room
        => len' = Builder!Whole(Builder!LengthsOf(fields))
    BY <1>1, <2>1, <2>3 DEF Builder!Closed
  <2>5. len' \in Int /\ Builder!Whole(Builder!LengthsOf(fields)) \in Nat
    BY <1>1, <2>1, <2>3
  <2>6. Builder!FittingIsWhole'
    BY <2>1, <2>3, <2>4, <2>5, PublishesWhole
  <2>7. QED BY <2>2, <2>6
<1>7. ASSUME NEW t \in Tasks, NEW n \in Lengths,
             Builder!AddIgnored(t, n) \/ Builder!Add(t, n) \/ Builder!AddBeyond(t, n)
      PROVE  BuilderInv'
  <2> DEFINE f == [by |-> t, length |-> n]
  <2>1. f \in Field /\ f.length = n
    BY DEF Field
  <2>2. /\ building' = building /\ active' = active
        /\ messages' = {}
        /\ asked' \in [Tasks -> Seq(Lengths)]
    <3>1. Append(asked[t], n) \in Seq(Lengths)
      BY <1>1
    <3>2. asked' = asked \/ asked' = [asked EXCEPT ![t] = Append(asked[t], n)]
      BY <1>1, <1>7 DEF Builder!AddIgnored, Builder!Add, Builder!AddBeyond
    <3>3. asked' \in [Tasks -> Seq(Lengths)]
      BY <1>1, <3>1, <3>2
    <3>4. QED BY <1>7, <3>3 DEF Builder!AddIgnored, Builder!Add, Builder!AddBeyond
  <2>3. \/ len' = len /\ fields' = fields
        \/ active /\ len' = len + Builder!Comma + f.length /\ fields' = Append(fields, f)
    BY <1>7 DEF Builder!AddIgnored, Builder!Add, Builder!AddBeyond
  <2> HIDE DEF f
  <2>4. LengthIs' /\ len' \in Nat /\ fields' \in Seq(Field)
    <3>1. CASE len' = len /\ fields' = fields
      BY <1>1, <2>2, <3>1 DEF LengthIs
    <3>2. CASE active /\ len' = len + Builder!Comma + f.length /\ fields' = Append(fields, f)
      BY <2>1, <2>2, <3>2, FieldCounts
    <3>3. QED BY <2>3, <3>1, <3>2
  <2>5. QED BY <1>1, <1>2, <2>2, <2>4 DEF BuilderTypes
<1>8. ASSUME NEW t \in Tasks, NEW n \in Lengths, NEW f \in BOOLEAN, Builder!Send(t, n, f)
      PROVE  BuilderInv'
  <2> DEFINE one == <<[by |-> t, length |-> n]>>
  <2>1. /\ Builder!Publish(one, Builder!Whole(<<n>>), Short)
        /\ UNCHANGED <<online, active, len, fields, building, asked>>
    BY <1>8 DEF Builder!Send
  <2>2. Builder!LengthsOf(one) = <<n>>
    BY DEF Builder!LengthsOf
  <2>3. Builder!Whole(<<n>>) \in Nat /\ Short \in Nat
    <3>1. n \in Nat /\ <<n>> \in Seq(Nat)
      BY BuilderConstants
    <3>2. QED BY <3>1, WholeAppend, BuilderConstants
  <2> HIDE DEF one
  <2>4. Builder!FittingIsWhole'
    BY <2>1, <2>2, <2>3, PublishesWhole
  <2>5. BuilderTypes' /\ LengthIs'
    BY <2>1 DEF BuilderTypes, LengthIs
  <2>6. QED BY <2>4, <2>5
<1>9. QED BY <1>3, <1>4, <1>5, <1>6, <1>7, <1>8 DEF Builder!Next, Builder!TaskStep

(* What the step says of a payload that is ended.                           *)
EndsOwn ==
  \A t \in Tasks :
     t \in building /\ t \notin building' /\ enrolled /\ Builder!Whole(asked[t]) < Room
     => \E m \in messages' : m.fields = Asked(t)

(* One field more for a task that builds alone.                             *)
LEMMA OwnAdds ==
  ASSUME BuilderInv, Own, NEW t \in building, NEW n \in Lengths,
         asked' = [asked EXCEPT ![t] = Append(@, n)],
         \/ len' = len + Builder!Comma + n /\ fields' = Append(fields, [by |-> t, length |-> n])
         \/ len > Room /\ len' = len /\ fields' = fields
  PROVE  fields' = Asked(t)' \/ Builder!Whole(asked'[t]) >= Room
<1>1. /\ active /\ t \in Tasks /\ asked[t] \in Seq(Lengths) /\ asked \in [Tasks -> Seq(Lengths)]
      /\ len \in Nat /\ fields \in Seq(Field)
      /\ Room \in Nat /\ n \in Nat /\ asked[t] \in Seq(Nat)
  <2>1. active /\ t \in Tasks /\ asked \in [Tasks -> Seq(Lengths)] /\ len \in Nat /\ fields \in Seq(Field)
    BY DEF BuilderInv, BuilderTypes, Own
  <2>2. QED BY <2>1, BuilderConstants, LengthsAreNumbers
<1>2. asked'[t] = Append(asked[t], n)
  BY <1>1
<1>3. /\ Builder!Whole(asked[t]) \in Nat
      /\ Builder!Whole(Append(asked[t], n)) = Builder!Whole(asked[t]) + n + (IF asked[t] = <<>> THEN 0 ELSE 1)
  BY <1>1, WholeAppend
<1>4. CASE Builder!Whole(asked[t]) >= Room
  BY <1>1, <1>2, <1>3, <1>4
<1>5. CASE fields = Asked(t) /\ fields' = Append(fields, [by |-> t, length |-> n])
  <2> DEFINE was == asked[t]
             more == Append(asked[t], n)
             f == [by |-> t, length |-> n]
  <2>1. /\ Len(was) \in Nat /\ DOMAIN was = 1 .. Len(was)
        /\ DOMAIN more = 1 .. Len(was) + 1
        /\ \A k \in 1 .. Len(was) : more[k] = was[k]
        /\ more[Len(was) + 1] = n
    BY <1>1
  <2>2. fields = [k \in 1 .. Len(was) |-> [by |-> t, length |-> was[k]]]
    BY <1>5, <2>1 DEF Asked
  <2>3. Len(fields) = Len(was)
    BY <1>1, <2>1, <2>2
  <2>4. /\ fields' = [k \in 1 .. Len(was) + 1 |-> fields'[k]]
        /\ \A k \in 1 .. Len(was) : fields'[k] = fields[k]
        /\ fields'[Len(was) + 1] = f
    BY <1>1, <1>5, <2>1, <2>3
  <2>5. Asked(t)' = [k \in 1 .. Len(was) + 1 |-> [by |-> t, length |-> more[k]]]
    BY <1>2, <2>1 DEF Asked
  <2>6. \A k \in 1 .. Len(was) + 1 : fields'[k] = [by |-> t, length |-> more[k]]
    <3>1. TAKE k \in 1 .. Len(was) + 1
    <3>2. CASE k \in 1 .. Len(was)
      BY <2>1, <2>2, <2>4, <3>2
    <3>3. CASE k = Len(was) + 1
      BY <2>1, <2>4, <3>3
    <3>4. QED BY <2>1, <3>2, <3>3
  <2> HIDE DEF was, more, f
  <2>7. fields' = Asked(t)'
    BY <2>4, <2>5, <2>6
  <2>8. QED BY <2>7
<1>6. CASE fields = Asked(t) /\ len > Room
  <2>1. Builder!LengthsOf(fields) = asked[t]
    BY <1>1, <1>6 DEF Asked, Builder!LengthsOf
  <2>2. len + 1 = Builder!Whole(asked[t])
    BY <1>1, <2>1 DEF BuilderInv, LengthIs
  <2>3. QED BY <1>1, <1>2, <1>3, <1>6, <2>2
<1>7. QED BY <1>4, <1>5, <1>6 DEF Own

(* One task: no other begins or ends its payload in between, so what it     *)
(* ends is what it asked for.                                               *)
LEMMA OwnKept ==
  ASSUME OneBuilder, BuilderInv, Own, Builder!Next
  PROVE  Own' /\ EndsOwn
<1>1. /\ building \subseteq Tasks /\ asked \in [Tasks -> Seq(Lengths)]
      /\ \A t, u \in Tasks : t = u
  BY DEF BuilderInv, BuilderTypes, OneBuilder
<1>2. building' = building => EndsOwn
  BY DEF EndsOwn
<1>3. CASE Builder!Enrollment \/ Builder!Link \/
           \E t \in Tasks, n \in Lengths, f \in BOOLEAN : Builder!Send(t, n, f)
  <2>1. UNCHANGED <<active, fields, building, asked>>
    BY <1>3 DEF Builder!Enrollment, Builder!Link, Builder!Send
  <2>2. QED BY <1>2, <2>1 DEF Own, Asked
<1>4. ASSUME NEW t \in Tasks, Builder!Begin(t) PROVE Own' /\ EndsOwn
  <2>1. active' = TRUE /\ fields' = <<>> /\ asked'[t] = <<>> /\ building' = building \cup {t}
    BY <1>1, <1>4 DEF Builder!Begin
  <2>2. Asked(t)' = <<>>
    BY <2>1 DEF Asked
  <2>3. \A u \in building' : u = t
    BY <1>1, <2>1
  <2>4. Own'
    BY <2>1, <2>2, <2>3 DEF Own
  <2>5. EndsOwn
    BY <2>1 DEF EndsOwn
  <2>6. QED BY <2>4, <2>5
<1>5. ASSUME NEW t \in Tasks, Builder!EndPublishes(t) PROVE Own' /\ EndsOwn
  <2>1. /\ t \in building /\ building' = {}
        /\ messages' = {[fields |-> fields, bytes |-> len', text |-> Builder!Min({len', Room - 1}),
                         kept |-> Builder!Kept(len'), room |-> Room]}
    BY <1>1, <1>5 DEF Builder!EndPublishes, Builder!Publish
  <2>2. ASSUME NEW u \in Tasks, u \in building, Builder!Whole(asked[u]) < Room
        PROVE  \E m \in messages' : m.fields = Asked(u)
    <3>1. Builder!Whole(asked[u]) \in Nat /\ Room \in Nat
      <4>1. asked[u] \in Seq(Nat)
        BY <1>1, <2>2, LengthsAreNumbers
      <4>2. QED BY <4>1, WholeAppend, BuilderConstants
    <3>2. fields = Asked(u)
      BY <2>2, <3>1 DEF Own
    <3>3. QED BY <2>1, <3>2
  <2>3. Own'
    BY <2>1 DEF Own
  <2>4. QED BY <2>2, <2>3 DEF EndsOwn
<1>6. ASSUME NEW t \in Tasks, Builder!EndIgnored(t) PROVE Own' /\ EndsOwn
  <2>1. t \in building /\ ~(active /\ enrolled) /\ building' = {}
    BY <1>1, <1>6 DEF Builder!EndIgnored
  <2>2. ~enrolled
    BY <2>1 DEF Own
  <2>3. QED BY <2>1, <2>2 DEF Own, EndsOwn
<1>7. ASSUME NEW t \in Tasks, NEW n \in Lengths,
             Builder!AddIgnored(t, n) \/ Builder!Add(t, n) \/ Builder!AddBeyond(t, n)
      PROVE  Own' /\ EndsOwn
  <2>1. building' = building /\ active' = active
    BY <1>7 DEF Builder!AddIgnored, Builder!Add, Builder!AddBeyond
  <2>2. CASE t \notin building
    <3>1. building = {}
      BY <1>1, <2>2
    <3>2. QED BY <1>2, <2>1, <3>1 DEF Own
  <2>3. CASE t \in building
    <3>1. active
      BY <2>3 DEF Own
    <3>2. asked' = [asked EXCEPT ![t] = Append(@, n)]
      BY <1>7, <3>1 DEF Builder!AddIgnored, Builder!Add, Builder!AddBeyond
    <3>3. \/ len' = len + Builder!Comma + n /\ fields' = Append(fields, [by |-> t, length |-> n])
          \/ len > Room /\ len' = len /\ fields' = fields
      BY <1>7, <3>1 DEF Builder!AddIgnored, Builder!Add, Builder!AddBeyond
    <3>4. fields' = Asked(t)' \/ Builder!Whole(asked'[t]) >= Room
      BY <2>3, <3>2, <3>3, OwnAdds
    <3>5. \A u \in building' : u = t
      BY <1>1, <2>1, <2>3
    <3>6. Own'
      BY <2>1, <3>1, <3>4, <3>5 DEF Own
    <3>7. QED BY <1>2, <2>1, <3>6
  <2>4. QED BY <2>2, <2>3
<1>8. QED BY <1>3, <1>4, <1>5, <1>6, <1>7 DEF Builder!Next, Builder!TaskStep

(* A step of the whole, as the builder sees it.                             *)
LEMMA BuilderMoves ==
  ASSUME [SketchNext]_SketchVars
  PROVE  Builder!Next \/ UNCHANGED Builder!vars
<1>1. payloadVars' = payloadVars => UNCHANGED Builder!vars
  BY DEF payloadVars, Builder!vars
<1>2. CASE UNCHANGED SketchVars
  <2>1. payloadVars' = payloadVars
    BY <1>2, Zenon DEF SketchVars
  <2>2. QED BY <1>1, <2>1
<1>3. CASE SketchNext
  BY <1>1, <1>3 DEF SketchNext
<1>4. QED BY <1>2, <1>3

LEMMA BuilderStays ==
  ASSUME UNCHANGED Builder!vars
  PROVE  (BuilderInv => BuilderInv') /\ (Own => Own')
BY DEF Builder!vars, BuilderInv, BuilderTypes, LengthIs, Own, Asked, Builder!FittingIsWhole

(* Whatever payload came before it, and whatever other tasks build, one     *)
(* that fits the buffer is handed over complete, and kept complete where    *)
(* MQTT takes it or a slot of the queue holds it.                           *)
THEOREM FittingAreWhole == SketchSpec => []Builder!FittingIsWhole
<1>1. SketchInit => BuilderInv
  BY BuilderStarts DEF SketchInit
<1>2. BuilderInv /\ [SketchNext]_SketchVars => BuilderInv'
  BY BuilderMoves, BuilderKept, BuilderStays
<1>3. BuilderInv => Builder!FittingIsWhole
  BY DEF BuilderInv
<1>4. QED BY <1>1, <1>2, <1>3, PTL DEF SketchSpec

(* PayloadIsComplete: with all callbacks in one task, a payload also has    *)
(* the fields that were asked for since it began, all of them if they fit.  *)
THEOREM PayloadsAreComplete == OneBuilder => (SketchSpec => PayloadIsComplete)
<1> SUFFICES ASSUME OneBuilder PROVE SketchSpec => PayloadIsComplete
  OBVIOUS
<1> DEFINE Good == BuilderInv /\ Own
<1>1. SketchInit => Good
  BY BuilderStarts DEF SketchInit
<1>2. Good /\ [SketchNext]_SketchVars => Good'
  BY BuilderMoves, BuilderKept, OwnKept, BuilderStays
<1>3. Good /\ [SketchNext]_SketchVars => [EndsOwn]_(Builder!vars)
  BY BuilderMoves, OwnKept
<1>4. Good => Builder!FittingIsWhole
  BY DEF BuilderInv
<1>5. [EndsOwn]_(Builder!vars) => [Builder!EndsWithOwn]_(Builder!vars)
  BY DEF EndsOwn, Asked, Builder!EndsWithOwn
<1> HIDE DEF Good, EndsOwn
<1>6. QED BY <1>1, <1>2, <1>3, <1>4, <1>5, PTL DEF SketchSpec, PayloadIsComplete, Builder!OwnFields

-----------------------------------------------------------------------------
(* Each in the behaviours of the whole. *)

(* A step of the whole is a step of each, or none of its own. *)
LEMMA SketchMoves ==
  SketchSpec => QueueSpec /\ SchedulerSpec /\ Button!ButtonSpec
<1>1. SketchInit => QueueInit /\ SchedulerInit /\ Button!Init
  BY DEF SketchInit
<1>2. [SketchNext]_SketchVars
        => [QueueNext]_vars /\ [SchedulerNext]_schedulerVars /\ [Button!Next]_(Button!vars)
  <2> SUFFICES ASSUME [SketchNext]_SketchVars
               PROVE  /\ [QueueNext]_vars /\ [SchedulerNext]_schedulerVars
                      /\ [Button!Next]_(Button!vars)
    OBVIOUS
  <2>1. UNCHANGED buttonVars => UNCHANGED Button!vars
    BY DEF buttonVars, Button!vars, Button!loop
  <2>2. QueueNext \/ UNCHANGED vars
    BY DEF SketchNext, SketchVars
  <2>3. SchedulerNext \/ UNCHANGED schedulerVars
    BY DEF SketchNext, SketchVars
  <2>4. Button!Next \/ UNCHANGED buttonVars
    BY DEF SketchNext, SketchVars
  <2> QED BY <2>1, <2>2, <2>3, <2>4
<1> QED BY <1>1, <1>2, PTL DEF SketchSpec, QueueSpec, SchedulerSpec, Button!ButtonSpec

(* Whoever holds the button for three seconds and two passes of loop() more *)
(* has seen the portal open or fail to, and it opens by the button only     *)
(* when that has been down for three seconds without a break, whatever the  *)
(* portal does by itself, as long as a release lasts longer than a pass.    *)
THEOREM ButtonOpens == PauseIsNoticed => (SketchSpec => []HoldOpens)
<1>1. HoldInv => HoldOpens
  BY HoldIsEnough
<1> QED BY <1>1, SketchMoves, ButtonHolds, PTL

(* The queue and the timers in the behaviours of the whole.                 *)
THEOREM SketchKeeps ==
  ~FlushYields /\ ~Rearms => (SketchSpec => []RingInv /\ KeepsWindow /\ KeepsTimers)
BY SketchMoves, RingIsInOrder, QueueKeepsWindow, SlotsKeepTimers, PTL
=============================================================================
