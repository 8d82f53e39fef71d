---------------------------- MODULE ConfigStore ----------------------------
(***************************************************************************)
(* The remote configuration (src/src/core/pulsync_config.c) behind          *)
(* PulsyncClass::onConfig and config(): a table of registered keys in RAM,  *)
(* one NVS cell for each, and the pushes of the server, key by key.         *)
(* A value is a number whatever its type; a FLOAT counts Fine steps to the  *)
(* thousandth.  Names of keys are shorter than PULSYNC_CONFIG_KEY_MAXLEN.   *)
(***************************************************************************)
EXTENDS Naturals, Sequences

CONSTANTS
  NoValue,   \* has_value is false; an absent key of a push
  Keys,      \* keys a sketch registers
  Cell,      \* Cell[k]: the NVS name of k, "cfg_" and its first 11 characters
  Type,      \* Type[k]: INT, FLOAT, BOOL or STRING
  Firmwares, \* the images a device runs in turn
  Default,   \* Default[f][k]: the default that firmware f registers k with
  Values,    \* values pushed
  Fine,      \* steps of a FLOAT within one thousandth
  Capacity,  \* PULSYNC_CONFIG_MAX_ENTRIES
  Facade,    \* the sketch uses PulsyncClass::onConfig, not the C functions
  NvsFails,  \* a write to flash may fail
  MaxPushes, \* bound on the keys pushed
  MaxBoots   \* bound on the restarts

ASSUME ConfigAssumption ==
  /\ Values \subseteq Nat /\ Fine \in Nat \ {0} /\ Capacity \in Nat
  /\ Type \in [Keys -> {"INT", "FLOAT", "BOOL", "STRING"}] /\ DOMAIN Cell = Keys
  /\ \A f \in Firmwares, k \in Keys :
       Default[f][k] \in IF Type[k] = "STRING" THEN Nat \cup {NoValue} ELSE Nat
  /\ NoValue \notin Nat
  /\ Facade \in BOOLEAN /\ NvsFails \in BOOLEAN /\ MaxPushes \in Nat /\ MaxBoots \in Nat

VARIABLES
  firmware, \* the image that runs
  begun,    \* begin() has initialised NVS and this module
  entries,  \* s_entries; value is NoValue while has_value is false
  nvs,      \* cell -> kind and content, absent ones of kind "none"
  item,     \* the key and value of a push that is being handled
  stage,    \* what remains to be done for item: "none", "find", "save", "tell"
  told,     \* what the sketch knows of a key: as read when it registered the
            \* key, then as its callback was told
  server,   \* the last value of a key that this module took from a push
  unsaved,  \* keys whose last value the flash has not taken
  pushes, boots

configVars == <<firmware, begun, entries, nvs, item, stage, told, server, unsaved, pushes, boots>>

Cells == {Cell[k] : k \in Keys}
NoCell == [kind |-> "none", raw |-> 0]

(* load_from_nvs, save_to_nvs: a float is cut to thousandths, a bool is 1    *)
(* or 0, and a cell of the other kind is not found.                          *)
Kind(k) == IF Type[k] = "STRING" THEN "str" ELSE "i32"
ToFlash(k, v) == IF Type[k] = "FLOAT" THEN v \div Fine ELSE v
FromFlash(k, r) ==
  CASE Type[k] = "FLOAT" -> r * Fine
    [] Type[k] = "BOOL" -> IF r # 0 THEN 1 ELSE 0
    [] OTHER -> r

(* atoi, atof, or the comparison with "true" and "1". *)
Parsed(k, v) == IF Type[k] = "BOOL" THEN (IF v = 1 THEN 1 ELSE 0) ELSE v

(* find_entry: the entries that carry the key, at most one. *)
Found(k) == {i \in DOMAIN entries : entries[i].key = k}
Registered(k) == Found(k) # {}
Entry(k) == entries[CHOOSE i \in Found(k) : TRUE]

-----------------------------------------------------------------------------
(* Mutants, used by no action. *)

\* what a registration loads is taken for the default
MutLoaded(k, v) == v

\* the callback is not called
MutPushTells ==
  /\ stage = "tell"
  /\ stage' = "none"
  /\ UNCHANGED <<firmware, begun, entries, nvs, item, told, server, unsaved, pushes, boots>>

-----------------------------------------------------------------------------
(* pulsync_config_on_int and the like *)

(* The value of an entry after load_from_nvs. *)
Loaded(k, v) ==
  IF begun /\ nvs[Cell[k]].kind = Kind(k) THEN FromFlash(k, nvs[Cell[k]].raw) ELSE v

(* A default that is NULL leaves a string as it was. *)
Started(k, d) == IF d = NoValue /\ Registered(k) THEN Entry(k).value ELSE d

Put(k, v) ==
  IF Registered(k)
  THEN [i \in DOMAIN entries |->
          IF i \in Found(k) THEN [entries[i] EXCEPT !.value = v] ELSE entries[i]]
  ELSE Append(entries, [key |-> k, value |-> v])

(* The sketch reads the value it has just registered.  A full table refuses *)
(* a new key without a word.                                                *)
OnConfig(k) ==
  /\ stage = "none"
  /\ Registered(k) \/ Len(entries) < Capacity
  /\ LET v == Loaded(k, Started(k, Default[firmware][k])) IN
       /\ entries' = Put(k, v)
       /\ told' = [told EXCEPT ![k] = v]
  /\ UNCHANGED <<firmware, begun, nvs, item, stage, server, unsaved, pushes, boots>>

-----------------------------------------------------------------------------
(* parse_config_json, one key of a push *)

PushArrives(k, v) ==
  /\ begun /\ stage = "none" /\ pushes < MaxPushes
  /\ item' = [key |-> k, value |-> v] /\ stage' = "find"
  /\ pushes' = pushes + 1
  /\ UNCHANGED <<firmware, begun, entries, nvs, told, server, unsaved, boots>>

PushIgnored ==
  /\ stage = "find" /\ ~Registered(item.key)
  /\ stage' = "none"
  /\ UNCHANGED <<firmware, begun, entries, nvs, item, told, server, unsaved, pushes, boots>>

(* The value that is there already is neither saved nor told. *)
PushUnchanged ==
  /\ stage = "find" /\ Registered(item.key)
  /\ Entry(item.key).value = Parsed(item.key, item.value)
  /\ stage' = "none"
  /\ server' = [server EXCEPT ![item.key] = Parsed(item.key, item.value)]
  /\ UNCHANGED <<firmware, begun, entries, nvs, item, told, unsaved, pushes, boots>>

PushSets ==
  /\ stage = "find" /\ Registered(item.key)
  /\ Entry(item.key).value # Parsed(item.key, item.value)
  /\ entries' = Put(item.key, Parsed(item.key, item.value))
  /\ stage' = "save"
  /\ server' = [server EXCEPT ![item.key] = Parsed(item.key, item.value)]
  /\ unsaved' = unsaved \cup {item.key}
  /\ UNCHANGED <<firmware, begun, nvs, item, told, pushes, boots>>

(* save_to_nvs: its result is not looked at. *)
PushSaves ==
  /\ stage = "save"
  /\ stage' = "tell"
  /\ \/ /\ nvs' = [nvs EXCEPT ![Cell[item.key]] =
                     [kind |-> Kind(item.key), raw |-> ToFlash(item.key, Entry(item.key).value)]]
        /\ unsaved' = unsaved \ {item.key}
     \/ NvsFails /\ UNCHANGED <<nvs, unsaved>>
  /\ UNCHANGED <<firmware, begun, entries, item, told, server, pushes, boots>>

(* fire_callback: onConfig() of the C++ facade registers no C callback, and *)
(* nothing registers the generic one.                                       *)
PushTells ==
  /\ stage = "tell"
  /\ stage' = "none"
  /\ told' = IF Facade THEN told ELSE [told EXCEPT ![item.key] = Entry(item.key).value]
  /\ UNCHANGED <<firmware, begun, entries, nvs, item, server, unsaved, pushes, boots>>

-----------------------------------------------------------------------------
(* pulsync_config_init, called by begin(): keys registered before are gone. *)
ConfigBegins ==
  /\ ~begun
  /\ begun' = TRUE /\ entries' = <<>>
  /\ UNCHANGED <<firmware, nvs, item, stage, told, server, unsaved, pushes, boots>>

(* A restart, also in the middle of a push, also into another firmware. *)
Restart ==
  /\ boots < MaxBoots /\ boots' = boots + 1
  /\ firmware' \in Firmwares
  /\ begun' = FALSE /\ entries' = <<>> /\ stage' = "none"
  /\ UNCHANGED <<nvs, item, told, server, unsaved, pushes>>

(* A factory reset: NVS is erased and the device restarts. *)
FactoryReset ==
  /\ begun /\ boots < MaxBoots /\ boots' = boots + 1
  /\ nvs' = [c \in Cells |-> NoCell]
  /\ server' = [k \in Keys |-> NoValue] /\ unsaved' = {}
  /\ begun' = FALSE /\ entries' = <<>> /\ stage' = "none"
  /\ UNCHANGED <<firmware, item, told, pushes>>

ConfigInit ==
  /\ firmware \in Firmwares /\ begun = FALSE /\ entries = <<>>
  /\ nvs = [c \in Cells |-> NoCell]
  /\ item = [key |-> NoValue, value |-> 0] /\ stage = "none"
  /\ told = [k \in Keys |-> NoValue] /\ server = [k \in Keys |-> NoValue]
  /\ unsaved = {} /\ pushes = 0 /\ boots = 0

Push == PushIgnored \/ PushUnchanged \/ PushSets \/ PushSaves \/ PushTells

ConfigNext ==
  \/ ConfigBegins \/ Restart \/ FactoryReset
  \/ \E k \in Keys : OnConfig(k) \/ \E v \in Values : PushArrives(k, v)
  \/ Push

ConfigSpec == ConfigInit /\ [][ConfigNext]_configVars

-----------------------------------------------------------------------------
(* The types; the table holds a key once and no more than it has room for. *)
ConfigTypeOK ==
  /\ firmware \in Firmwares /\ begun \in BOOLEAN
  /\ entries \in Seq([key : Keys, value : Nat \cup {NoValue}])
  /\ Len(entries) <= Capacity
  /\ \A i, j \in DOMAIN entries : entries[i].key = entries[j].key => i = j
  /\ nvs \in [Cells -> [kind : {"none", "i32", "str"}, raw : Nat]]
  /\ stage \in {"none", "find", "save", "tell"}
  /\ stage # "none" => item \in [key : Keys, value : Nat]
  /\ told \in [Keys -> Nat \cup {NoValue}] /\ server \in [Keys -> Nat \cup {NoValue}]
  /\ unsaved \subseteq Keys

(* A registered key has the value the server pushed last, now and after any *)
(* number of restarts and registrations, if the flash has taken it: "Values *)
(* are stored in NVS for persistence across reboots".                       *)
ServerValueKept ==
  \A k \in Keys :
    begun /\ Registered(k) /\ server[k] # NoValue /\ k \notin unsaved
      => Entry(k).value = server[k]

(* Outside of a push, the sketch has been told the value of every key it    *)
(* registered: "Callback fires when server pushes a new value".             *)
ToldTheValue ==
  \A k \in Keys : stage = "none" /\ Registered(k) => told[k] = Entry(k).value

(* What the cells need to keep the values apart and whole: no two keys with *)
(* the same first 11 characters, thousandths at most, and one default for a *)
(* key in all firmwares of the device.                                      *)
Representable ==
  /\ \A k, l \in Keys : Cell[k] = Cell[l] => k = l
  /\ Fine = 1
  /\ \A f, g \in Firmwares : Default[f] = Default[g]
=============================================================================
