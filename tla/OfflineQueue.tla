---------------------------- MODULE OfflineQueue ----------------------------
(***************************************************************************)
(* The offline queue of the transport (src/src/core/pulsync_transport.c):   *)
(* a ring of slots that publish() fills, from loop(), while the link is     *)
(* down, there is no device id or the MQTT client refuses a message, and    *)
(* that the MQTT task empties in its handler of MQTT_EVENT_CONNECTED.       *)
(* Nothing of it is locked.                                                 *)
(*                                                                          *)
(* A queued message is its number in the order of queueing.  A slot keeps   *)
(* topic and payload apart, which are written and read one after the other. *)
(***************************************************************************)
EXTENDS Integers

CONSTANTS
  Size,         \* PULSYNC_OFFLINE_QUEUE_SIZE
  FlushYields,  \* loop() may run while the MQTT task is in flush_queue: there
                \* is a second core, or esp_mqtt_client_publish blocks
  MaxMessages   \* bound on the messages queued

ASSUME QueueAssumption ==
  Size \in Nat \ {0} /\ FlushYields \in BOOLEAN /\ MaxMessages \in Nat

VARIABLES
  slots,     \* s_queue
  head,      \* s_queue_head
  used,      \* the slots whose in_use is true
  link,      \* s_state: "up" when PULSYNC_TRANSPORT_CONNECTED, else "down"
  device_id, \* of s_config: "empty" until enrollment, then "known"
  pub,       \* where publish() is
  flush,     \* i of flush_queue; Size: the MQTT task is outside
  flushing,  \* "test" at in_use of slot i, "clear" after its publish
  queued,    \* messages queued so far
  sent       \* <<topic, payload>> handed to the MQTT client out of the queue

vars == <<slots, used, head, link, device_id, pub, flush, flushing, queued, sent>>

Index == 0 .. Size - 1
EmptySlot == [topic |-> 0, payload |-> 0]

Flushing == flush # Size

LoopRuns == Flushing => FlushYields

Busy == pub \in {"payload", "mark", "advance"}

Next1 == IF head + 1 = Size THEN 0 ELSE head + 1

-----------------------------------------------------------------------------
(* Mutants, used by no action. *)

\* the head stays where it is
MutAdvance ==
  /\ pub = "advance" /\ LoopRuns
  /\ pub' = "idle"
  /\ UNCHANGED <<slots, used, head, link, device_id, flush, flushing, queued, sent>>

\* a slot is freed whatever publish answers
MutFlushRefused ==
  /\ Flushing /\ flushing = "test" /\ flush \in used
  /\ used' = used \ {flush}
  /\ flush' = flush + 1
  /\ UNCHANGED <<slots, head, link, device_id, pub, flushing, queued, sent>>

-----------------------------------------------------------------------------
(* pulsync_transport_publish, and queue_message inside it. *)

PublishQueues ==
  /\ pub = "idle" /\ LoopRuns
  /\ link = "down" \/ device_id = "empty"
  /\ pub' = "topic"
  /\ UNCHANGED <<slots, used, head, link, device_id, flush, flushing, queued, sent>>

PublishDirect ==
  /\ pub = "idle" /\ LoopRuns
  /\ link = "up" /\ device_id = "known"
  /\ pub' = "direct"
  /\ UNCHANGED <<slots, used, head, link, device_id, flush, flushing, queued, sent>>

(* The client takes the message, or answers -1 and it is queued. *)
DirectEnds ==
  /\ pub = "direct" /\ LoopRuns
  /\ pub' \in {"idle", "topic"}
  /\ UNCHANGED <<slots, used, head, link, device_id, flush, flushing, queued, sent>>

FillTopic ==
  /\ pub = "topic" /\ LoopRuns /\ queued < MaxMessages
  /\ pub' = "payload"
  /\ queued' = queued + 1
  /\ slots' = [slots EXCEPT ![head].topic = queued + 1]
  /\ UNCHANGED <<used, head, link, device_id, flush, flushing, sent>>

FillPayload ==
  /\ pub = "payload" /\ LoopRuns
  /\ pub' = "mark"
  /\ slots' = [slots EXCEPT ![head].payload = queued]
  /\ UNCHANGED <<used, head, link, device_id, flush, flushing, queued, sent>>

Mark ==
  /\ pub = "mark" /\ LoopRuns
  /\ pub' = "advance"
  /\ used' = used \cup {head}
  /\ UNCHANGED <<slots, head, link, device_id, flush, flushing, queued, sent>>

Advance ==
  /\ pub = "advance" /\ LoopRuns
  /\ pub' = "idle"
  /\ head' = Next1
  /\ UNCHANGED <<slots, used, link, device_id, flush, flushing, queued, sent>>

-----------------------------------------------------------------------------
(* The MQTT task: the handler of MQTT_EVENT_CONNECTED, flush_queue in it.   *)

Connect ==
  /\ link = "down" /\ ~Flushing
  /\ link' = "up"
  /\ flush' = IF device_id = "known" THEN 0 ELSE flush
  /\ UNCHANGED <<slots, used, head, device_id, pub, flushing, queued, sent>>

FlushSkips ==
  /\ Flushing /\ flushing = "test" /\ flush \notin used
  /\ flush' = flush + 1
  /\ UNCHANGED <<slots, used, head, link, device_id, pub, flushing, queued, sent>>

FlushSends ==
  /\ Flushing /\ flushing = "test" /\ flush \in used
  /\ sent' = sent \cup {<<slots[flush].topic, slots[flush].payload>>}
  /\ flushing' = "clear"
  /\ UNCHANGED <<slots, used, head, link, device_id, pub, flush, queued>>

FlushRefused ==
  /\ Flushing /\ flushing = "test" /\ flush \in used
  /\ flush' = flush + 1
  /\ UNCHANGED <<slots, used, head, link, device_id, pub, flushing, queued, sent>>

FlushClears ==
  /\ Flushing /\ flushing = "clear"
  /\ used' = used \ {flush}
  /\ flushing' = "test"
  /\ flush' = flush + 1
  /\ UNCHANGED <<slots, head, link, device_id, pub, queued, sent>>

(* MQTT_EVENT_DISCONNECTED, or transport_stop: both after the handler.      *)
Disconnect ==
  /\ link = "up" /\ ~Flushing
  /\ link' = "down"
  /\ UNCHANGED <<slots, used, head, device_id, pub, flush, flushing, queued, sent>>

(* Enrollment brings the device id. *)
Identify ==
  /\ device_id = "empty"
  /\ device_id' = "known"
  /\ UNCHANGED <<slots, used, head, link, pub, flush, flushing, queued, sent>>

QueueInit ==
  /\ slots = [i \in Index |-> EmptySlot] /\ head = 0
  /\ used = {} /\ link = "down" /\ device_id \in {"empty", "known"}
  /\ pub = "idle" /\ flush = Size /\ flushing = "test"
  /\ queued = 0 /\ sent = {}

Publish ==
  \/ PublishQueues \/ PublishDirect \/ DirectEnds
  \/ FillTopic \/ FillPayload \/ Mark \/ Advance

MqttTask == Connect \/ FlushSkips \/ FlushSends \/ FlushRefused \/ FlushClears \/ Disconnect

QueueNext == Publish \/ MqttTask \/ Identify

QueueSpec == QueueInit /\ [][QueueNext]_vars

-----------------------------------------------------------------------------
(* Types. *)
QueueTypeOK ==
  /\ slots \in [Index -> [topic : Nat, payload : Nat]]
  /\ head \in Index /\ used \subseteq Index
  /\ link \in {"up", "down"} /\ device_id \in {"empty", "known"}
  /\ pub \in {"idle", "direct", "topic", "payload", "mark", "advance"}
  /\ flush \in 0 .. Size /\ flushing \in {"test", "clear"}
  /\ queued \in Nat
  /\ sent \subseteq Nat \X Nat

(* The messages the device still has: in a slot, or in publish()'s hands    *)
(* from its first write to the mark.                                        *)
Held ==
  {slots[i].topic : i \in used}
    \cup (IF pub \in {"payload", "mark"} THEN {queued} ELSE {})

(* The messages that went out as they were queued. *)
WholeOf(S) == {x[1] : x \in {y \in S : y[1] = y[2]}}
Whole == WholeOf(sent)

W == INSTANCE Window WITH newest <- queued, kept <- Held, sent <- Whole

(* The ring keeps what the window promises: a queued message leaves it when *)
(* it has been sent, or when Size newer ones have been queued after it, and *)
(* it is always the oldest that gives way.                                  *)
KeepsWindow == W!Spec

(* Of the last Size messages for which publish() answered true, "sent or    *)
(* queued", none is gone without having been sent.                          *)
NothingLost == \A m \in 1 .. queued : m > queued - Size => m \in Held \cup Whole

(* The inductive form: with n messages queued before the one in hand, the   *)
(* slot at i, if used, holds the youngest number that belongs at i.         *)
Settled == IF Busy THEN queued - 1 ELSE queued

Belongs(i) == Settled - (head - 1 - i) - (IF i < head THEN 0 ELSE Size)

SlotInOrder(i) ==
  IF i = head /\ Busy
  THEN /\ slots[i].topic = queued
       /\ pub \in {"mark", "advance"} => slots[i].payload = queued
  ELSE i \in used => slots[i].topic = Belongs(i) /\ slots[i].payload = Belongs(i)

(* What is about to be freed has been sent; but a message publish() is      *)
(* writing over it keeps itself. *)
FreesSent ==
  flushing = "clear" =>
    /\ flush \in used
    /\ \/ flush = head /\ pub = "payload"
       \/ <<slots[flush].topic, slots[flush].topic>> \in sent

RingInv ==
  /\ QueueTypeOK
  /\ Busy => queued >= 1
  /\ \A i \in Index : SlotInOrder(i)
  /\ FreesSent
=============================================================================
