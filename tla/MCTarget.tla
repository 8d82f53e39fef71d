------------------------------ MODULE MCTarget ------------------------------
(* What the servers hand out at first, for the runs of the target. *)
EXTENDS Target, TLC

first == [at |-> "first", tls |-> TRUE]

AllHandOut == [s \in Servers |-> first]
CloudOnly == [s \in Servers |-> IF s = "cloud" THEN first ELSE NoBroker]
=============================================================================
