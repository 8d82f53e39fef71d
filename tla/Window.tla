------------------------------- MODULE Window -------------------------------
(* What the offline queue promises (src/src/core/pulsync_transport.h): of   *)
(* the messages queued so far the last Size are kept until they have been   *)
(* sent; an older one gives way to a newer one.  Messages are numbered in   *)
(* the order in which they were queued.  A message may be sent twice.       *)
EXTENDS Naturals

CONSTANT Size

VARIABLES newest, kept, sent

Init == newest = 0 /\ kept = {} /\ sent = {}

Put ==
  /\ newest' = newest + 1
  /\ kept' = (kept \cup {newest + 1}) \ {newest + 1 - Size}
  /\ sent' = sent

Send ==
  \E m \in kept : sent' = sent \cup {m} /\ UNCHANGED <<newest, kept>>

Forget ==
  \E m \in kept \cap sent : kept' = kept \ {m} /\ UNCHANGED <<newest, sent>>

Spec == Init /\ [][Put \/ Send \/ Forget]_<<newest, kept, sent>>
=============================================================================
