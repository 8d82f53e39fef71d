------------------------------ MODULE Payload ------------------------------
(***************************************************************************)
(* The payload builder and the single sends of the C++ facade               *)
(* (src/src/PulsyncClass.cpp), down to what publish() hands to the MQTT     *)
(* client or leaves in a slot of the offline queue                          *)
(* (src/src/core/pulsync_transport.c).                                      *)
(*                                                                          *)
(* One builder serves the device: the callbacks of the scheduler use it     *)
(* from loop(), the handlers of commands from the task of the MQTT client.  *)
(* Text is modelled by its length; a field is the task that added it and    *)
(* the length of "key":value.                                               *)
(***************************************************************************)
EXTENDS Integers, Sequences, FiniteSetsExt

CONSTANTS
  Tasks,     \* the tasks whose callbacks build payloads
  Room,      \* sizeof _payload_buf
  Short,     \* sizeof payload of send()
  Slot,      \* characters a slot of the queue keeps: its size less one
  Lengths,   \* lengths of fields
  MaxFields  \* bound on the fields between two calls of beginPayload

PayloadAssumption ==
  /\ Room \in Nat /\ Room > 2 /\ Short \in Nat /\ Slot \in Nat
  /\ Lengths \subseteq Nat \ {0} /\ MaxFields \in Nat

VARIABLES
  enrolled, \* the enrollment is DONE
  online,   \* MQTT is connected
  active,   \* _payload_active
  len,      \* _payload_len
  fields,   \* what has been added to _payload_buf since it was last begun
  building, \* the tasks between their beginPayload() and their endPayload()
  asked,    \* per task the lengths it has added since its beginPayload()
  messages  \* what the last step published or queued: at most one message

vars == <<enrolled, online, active, len, fields, building, asked, messages>>

Sum(lengths) ==
  LET to[n \in 0 .. Len(lengths)] == IF n = 0 THEN 0 ELSE to[n - 1] + lengths[n]
  IN  to[Len(lengths)]

(* A payload of these fields: two braces, and a comma between each two. *)
Whole(lengths) == 1 + Sum(lengths) + (IF lengths = <<>> THEN 1 ELSE Len(lengths))

LengthsOf(fs) == [i \in DOMAIN fs |-> fs[i].length]

-----------------------------------------------------------------------------
(* Mutants, used by no action. *)

\* a comma before every field
MutComma == 1

-----------------------------------------------------------------------------
(* pulsync_transport_publish: the whole text when MQTT takes it, and as     *)
(* much of it as a slot holds when it does not.                             *)

Kept(bytes) == IF online THEN bytes ELSE Min({bytes, Slot})

(* bytes: the length handed over; room: the buffer, whose text ends in a    *)
(* zero.                                                                    *)
Publish(fs, bytes, room) ==
  messages' = {[fields |-> fs, bytes |-> bytes, text |-> Min({bytes, room - 1}),
                kept |-> Kept(bytes), room |-> room]}

-----------------------------------------------------------------------------
(* The builder. *)

Begin(t) ==
  /\ active' = TRUE /\ len' = 1 /\ fields' = <<>>
  /\ building' = building \cup {t} /\ asked' = [asked EXCEPT ![t] = <<>>]
  /\ messages' = {}
  /\ UNCHANGED <<enrolled, online>>

Comma == IF len > 1 THEN 1 ELSE 0

(* add() before beginPayload(), or after the payload has been ended. *)
AddIgnored(t, n) ==
  /\ ~active /\ (t \in building => Len(asked[t]) < MaxFields)
  /\ asked' = [asked EXCEPT ![t] = IF t \in building THEN Append(@, n) ELSE @]
  /\ messages' = {}
  /\ UNCHANGED <<enrolled, online, active, len, fields, building>>

(* snprintf writes what fits and returns the length of it all. *)
Add(t, n) ==
  /\ t \in building /\ Len(asked[t]) < MaxFields /\ active /\ len <= Room
  /\ len' = len + Comma + n
  /\ fields' = Append(fields, [by |-> t, length |-> n])
  /\ asked' = [asked EXCEPT ![t] = Append(@, n)]
  /\ messages' = {}
  /\ UNCHANGED <<enrolled, online, active, building>>

(* Past the end sizeof _payload_buf - _payload_len is a huge size_t:        *)
(* snprintf refuses it (newlib) or writes where it is told to.              *)
AddBeyond(t, n) ==
  /\ t \in building /\ Len(asked[t]) < MaxFields /\ active /\ len > Room
  /\ \/ UNCHANGED <<len, fields>>
     \/ len' = len + Comma + n /\ fields' = Append(fields, [by |-> t, length |-> n])
  /\ asked' = [asked EXCEPT ![t] = Append(@, n)]
  /\ messages' = {}
  /\ UNCHANGED <<enrolled, online, active, building>>

(* There is room for the closing brace. *)
Closed == len < Room - 1

EndPublishes(t) ==
  /\ t \in building /\ active /\ enrolled
  /\ active' = FALSE
  /\ len' = IF Closed THEN len + 1 ELSE len
  /\ Publish(fields, len', Room)
  /\ building' = building \ {t}
  /\ UNCHANGED <<enrolled, online, fields, asked>>

(* No payload, or no enrollment: nothing is sent. *)
EndIgnored(t) ==
  /\ t \in building /\ ~(active /\ enrolled)
  /\ active' = FALSE
  /\ building' = building \ {t}
  /\ messages' = {}
  /\ UNCHANGED <<enrolled, online, len, fields, asked>>

-----------------------------------------------------------------------------
(* send(): one field, in a buffer of its own.  Only the variant for a float *)
(* asks for the enrollment.                                                 *)

Send(t, n, needsEnrollment) ==
  /\ needsEnrollment => enrolled
  /\ Publish(<<[by |-> t, length |-> n]>>, Whole(<<n>>), Short)
  /\ UNCHANGED <<enrolled, online, active, len, fields, building, asked>>

-----------------------------------------------------------------------------
(* The device around it. *)

Enrollment ==
  /\ enrolled' = ~enrolled /\ messages' = {}
  /\ UNCHANGED <<online, active, len, fields, building, asked>>

Link ==
  /\ online' = ~online /\ messages' = {}
  /\ UNCHANGED <<enrolled, active, len, fields, building, asked>>

Init ==
  /\ enrolled = FALSE /\ online = FALSE
  /\ active = FALSE /\ len = 0 /\ fields = <<>>
  /\ building = {} /\ asked = [t \in Tasks |-> <<>>]
  /\ messages = {}

TaskStep(t) ==
  \/ Begin(t) \/ EndPublishes(t) \/ EndIgnored(t)
  \/ \E n \in Lengths : AddIgnored(t, n) \/ Add(t, n) \/ AddBeyond(t, n)
  \/ \E n \in Lengths, f \in BOOLEAN : Send(t, n, f)

Next == Enrollment \/ Link \/ \E t \in Tasks : TaskStep(t)

PayloadSpec == Init /\ [][Next]_vars

-----------------------------------------------------------------------------
(* A payload carries the fields that its own task has added between its     *)
(* beginPayload() and its endPayload(), all of them if the buffer holds     *)
(* them, and it is sent when the device is enrolled (Pulsync.h:147,         *)
(* "Grouped payload (multiple key-values in one message)").                 *)
EndsWithOwn ==
  \A t \in Tasks : t \in building /\ t \notin building' /\ enrolled /\ Whole(asked[t]) < Room =>
     \E m \in messages' : m.fields = [k \in DOMAIN asked[t] |-> [by |-> t, length |-> asked[t][k]]]
OwnFields == [][EndsWithOwn]_vars

Complete(m) == m.bytes = Whole(LengthsOf(m.fields)) /\ m.text = m.bytes

(* Whatever payload came before it, one that fits the buffer it is built in *)
(* is handed over complete, with its two braces and every field             *)
(* (PulsyncClass.cpp:804 leaves room for the brace and the zero), and is    *)
(* kept complete if MQTT takes it or a slot of the queue holds it.          *)
FittingIsWhole ==
  \A m \in messages : Whole(LengthsOf(m.fields)) < m.room =>
     Complete(m) /\ (online \/ m.bytes <= Slot => m.kept = m.bytes)

(* What is handed over is the text that was written, with its two braces    *)
(* and every field, and no memory behind it (Pulsync.h:147, "Grouped        *)
(* payload (multiple key-values in one message)").                          *)
WholeText == \A m \in messages : Complete(m)

(* A message that finds MQTT down is in the queue as it was published       *)
(* (pulsync_transport.h:84, "If disconnected, queues in offline buffer").   *)
QueuedWhole == \A m \in messages : m.kept = m.bytes
=============================================================================
