------------------------------ MODULE MCConfig ------------------------------
(* Keys for the runs of the configuration store.  "temperature_low" and     *)
(* "temperature_high" have their first 11 characters in common.             *)
EXTENDS ConfigStore, TLC

CONSTANTS low, high, flag

TwoKeys == {low, high}
MixedKeys == {low, high, flag}

OwnCell == [k \in Keys |-> k]
OneCell == [k \in Keys |-> "cfg_temperature"]

MixedTypes == low :> "FLOAT" @@ high :> "STRING" @@ flag :> "BOOL"
AllInt == [k \in Keys |-> "INT"]

TwoImages == {1, 2}
MixedDefault == [f \in Firmwares |-> low :> 0 @@ high :> NoValue @@ flag :> 1]
ZeroDefault == [f \in Firmwares |-> [k \in Keys |-> 0]]
NewDefault == [f \in Firmwares |-> [k \in Keys |-> f - 1]]

SomeValues == {0, 1, 2}
=============================================================================
