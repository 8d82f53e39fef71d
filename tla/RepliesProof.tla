--------------------------- MODULE RepliesProof ---------------------------
(* Proofs about what the server's answers bring, for any number of keys,    *)
(* firmwares, restarts, intervals, names and messages.  The configuration:  *)
(* where the cells can represent the values, what the server pushed last is *)
(* kept.  The heartbeat: in a time that the millisecond counter can tell,   *)
(* only a server that was down is given up.  Commands: what on() has        *)
(* registered is called.                                                    *)
EXTENDS MCReplies, WellFoundedInduction, TLAPS

-----------------------------------------------------------------------------
(* Configuration. *)

(* What the next registration of a key would find. *)
Durable(k) ==
  IF nvs[Cell[k]].kind = Kind(k) THEN FromFlash(k, nvs[Cell[k]].raw) ELSE Default[firmware][k]

Entries == [key : Keys, value : Nat \cup {NoValue}]

(* While a key is saved and told, its entry has the value that was pushed.  *)
ItemIsSet ==
  stage \in {"save", "tell"} =>
    /\ server[item.key] = Parsed(item.key, item.value)
    /\ Registered(item.key)
    /\ \A i \in Found(item.key) : entries[i].value = Parsed(item.key, item.value)

(* Unless the flash missed a value, RAM, flash and server agree on a key.   *)
CopiesAgree ==
  \A k \in Keys \ unsaved :
    /\ server[k] # NoValue => server[k] = Durable(k)
    /\ begun => \A i \in Found(k) : entries[i].value = Durable(k)

(* A push is handled after begin() only. *)
BeginsFirst == stage # "none" => begun

(* The strengthening of ServerValueKept that every step preserves. *)
ConfigInv == ConfigTypeOK /\ BeginsFirst /\ ItemIsSet /\ CopiesAgree

(* A value that a push may leave in an entry survives the cell. *)
LEMMA FlashKeeps ==
  ASSUME Representable, NEW k \in Keys, NEW v \in Nat
  PROVE  /\ Parsed(k, v) \in Nat
         /\ ToFlash(k, Parsed(k, v)) \in Nat
         /\ FromFlash(k, ToFlash(k, Parsed(k, v))) = Parsed(k, v)
BY ConfigAssumption DEF ConfigAssumption, Representable, Parsed, ToFlash, FromFlash

LEMMA FlashTypes ==
  ASSUME NEW k \in Keys, NEW r \in Nat
  PROVE  FromFlash(k, r) \in Nat /\ (ToFlash(k, r) \in Nat)
BY ConfigAssumption DEF ConfigAssumption, ToFlash, FromFlash

LEMMA EntryIsFound ==
  ASSUME ConfigTypeOK, NEW k \in Keys, Registered(k)
  PROVE  /\ \E i \in Found(k) : Entry(k) = entries[i]
         /\ Entry(k) \in Entries /\ Entry(k).key = k
<1> DEFINE i == CHOOSE j \in Found(k) : TRUE
<1>1. i \in Found(k)
  BY DEF Registered
<1>2. i \in DOMAIN entries /\ entries[i].key = k
  BY <1>1 DEF Found
<1>3. entries \in Seq(Entries) /\ Entry(k) = entries[i]
  BY DEF Entry, Entries, ConfigTypeOK
<1>4. entries[i] \in Entries
  BY <1>2, <1>3
<1>5. QED BY <1>1, <1>2, <1>3, <1>4

(* Put keeps the table: one entry for a key, with the value; the others as  *)
(* they were.                                                               *)
LEMMA PutKeepsTable ==
  ASSUME ConfigTypeOK, NEW k \in Keys, NEW v \in Nat \cup {NoValue},
         Registered(k) \/ Len(entries) < Capacity, entries' = Put(k, v)
  PROVE  /\ entries' \in Seq(Entries) /\ Len(entries') <= Capacity
         /\ \A i, j \in DOMAIN entries' : entries'[i].key = entries'[j].key => i = j
         /\ Found(k)' # {} /\ \A i \in Found(k)' : entries'[i].value = v
         /\ \A l \in Keys \ {k} : Found(l)' = Found(l) /\ \A i \in Found(l) : entries'[i] = entries[i]
<1> USE DEF Found
<1>0. /\ entries \in Seq(Entries) /\ Len(entries) <= Capacity
      /\ \A i, j \in DOMAIN entries : entries[i].key = entries[j].key => i = j
  BY DEF Entries, ConfigTypeOK
<1>00. Capacity \in Nat
  BY ConfigAssumption DEF ConfigAssumption
<1>1. CASE Registered(k)
  <2>1. entries' = [i \in DOMAIN entries |->
           IF entries[i].key = k THEN [entries[i] EXCEPT !.value = v] ELSE entries[i]]
    BY <1>1 DEF Put, Registered
  <2>2. DOMAIN entries' = DOMAIN entries
    BY <2>1
  <2>3. \A i \in DOMAIN entries : entries[i] \in Entries
    BY <1>0
  <2>4. \A i \in DOMAIN entries : entries'[i] \in Entries /\ entries'[i].key = entries[i].key
    BY <2>1, <2>3 DEF Entries
  <2>5. entries' \in Seq(Entries) /\ Len(entries') = Len(entries)
    BY <1>0, <2>1, <2>2, <2>4
  <2>6. \A i \in DOMAIN entries : entries[i].key = k => entries'[i].value = v
    BY <2>1, <2>3 DEF Entries
  <2>7. \A i \in DOMAIN entries : entries[i].key # k => entries'[i] = entries[i]
    BY <2>1
  <2>8. \A l : Found(l)' = Found(l)
    BY <2>2, <2>4
  <2>9. Len(entries') <= Capacity /\ Found(k)' # {}
    BY <1>0, <1>1, <2>5, <2>8 DEF Registered
  <2>10. \A i, j \in DOMAIN entries' : entries'[i].key = entries'[j].key => i = j
    BY <1>0, <2>2, <2>4
  <2>11. \A i \in Found(k)' : entries'[i].value = v
    BY <2>2, <2>4, <2>6
  <2>12. \A l \in Keys \ {k} : \A i \in Found(l) : entries'[i] = entries[i]
    BY <2>7
  <2>13. QED BY <2>5, <2>8, <2>9, <2>10, <2>11, <2>12
<1>2. CASE ~Registered(k)
  <2> DEFINE e == [key |-> k, value |-> v]
  <2>1. entries' = Append(entries, e) /\ e \in Entries
    BY <1>2 DEF Put, Registered, Entries
  <2>2. /\ entries' \in Seq(Entries) /\ Len(entries') = Len(entries) + 1
        /\ DOMAIN entries' = 1 .. Len(entries) + 1 /\ DOMAIN entries = 1 .. Len(entries)
        /\ entries'[Len(entries) + 1] = e
        /\ \A i \in 1 .. Len(entries) : entries'[i] = entries[i]
    BY <1>0, <2>1
  <2>3. Len(entries) \in Nat /\ Len(entries) + 1 <= Capacity
    BY <1>0, <1>00, <1>2
  <2>4. \A i \in DOMAIN entries : entries[i].key # k
    BY <1>2 DEF Registered
  <2>5. Len(entries') <= Capacity
    BY <1>00, <2>2, <2>3
  <2>6. Found(k)' = {Len(entries) + 1}
    <3>1. entries'[Len(entries) + 1].key = k
      BY <2>2
    <3>2. \A i \in DOMAIN entries' : i # Len(entries) + 1 => entries'[i].key # k
      BY <2>2, <2>3, <2>4
    <3>3. QED BY <2>2, <2>3, <3>1, <3>2
  <2>7. \A l \in Keys \ {k} : Found(l)' = Found(l) /\ \A i \in Found(l) : entries'[i] = entries[i]
    <3> TAKE l \in Keys \ {k}
    <3>1. e.key # l
      OBVIOUS
    <3>2. QED BY <2>2, <2>3, <3>1
  <2>8. \A i, j \in DOMAIN entries' : entries'[i].key = entries'[j].key => i = j
    BY <1>0, <2>2, <2>3, <2>4
  <2>9. Found(k)' # {} /\ \A i \in Found(k)' : entries'[i].value = v
    BY <2>2, <2>6
  <2>10. QED BY <2>2, <2>5, <2>7, <2>8, <2>9
<1>3. QED BY <1>1, <1>2

(* The value a registration arrives at has the type of one, and it is the   *)
(* one that flash or firmware has for the key.                              *)
LEMMA RegistrationLoads ==
  ASSUME ConfigTypeOK, NEW k \in Keys
  PROVE  LET v == Loaded(k, Started(k, Default[firmware][k])) IN
         /\ v \in Nat \cup {NoValue}
         /\ begun /\ (\A i \in Found(k) : entries[i].value = Durable(k)) => v = Durable(k)
<1>1. Default[firmware][k] \in Nat \cup {NoValue}
  BY ConfigAssumption DEF ConfigAssumption, ConfigTypeOK
<1>2. nvs[Cell[k]].raw \in Nat
  BY DEF ConfigTypeOK, Cells
<1>3. FromFlash(k, nvs[Cell[k]].raw) \in Nat
  BY <1>2, FlashTypes
<1>4. Started(k, Default[firmware][k]) \in Nat \cup {NoValue}
  BY <1>1, EntryIsFound DEF Started, Entries
<1>5. ASSUME begun, \A i \in Found(k) : entries[i].value = Durable(k)
      PROVE  Loaded(k, Started(k, Default[firmware][k])) = Durable(k)
  <2>1. CASE nvs[Cell[k]].kind = Kind(k)
    BY <1>5, <2>1 DEF Loaded, Durable
  <2>2. CASE nvs[Cell[k]].kind # Kind(k)
    <3>1. Registered(k) => Entry(k).value = Durable(k)
      BY <1>5, EntryIsFound
    <3>2. Durable(k) = Default[firmware][k]
      BY <2>2 DEF Durable
    <3>3. QED BY <2>2, <3>1, <3>2 DEF Loaded, Started
  <2>3. QED BY <2>1, <2>2
<1>6. QED BY <1>3, <1>4, <1>5 DEF Loaded

LEMMA ConfigInitially == ConfigInit => ConfigInv
<1> SUFFICES ASSUME ConfigInit PROVE ConfigInv
  OBVIOUS
<1> USE DEF ConfigInit
<1>1. /\ entries \in Seq([key : Keys, value : Nat \cup {NoValue}])
      /\ DOMAIN entries = {} /\ Len(entries) = 0 /\ Len(entries) <= Capacity
  BY ConfigAssumption DEF ConfigAssumption
<1>11. nvs \in [Cells -> [kind : {"none", "i32", "str"}, raw : Nat]]
  BY DEF NoCell
<1>12. told \in [Keys -> Nat \cup {NoValue}] /\ server \in [Keys -> Nat \cup {NoValue}]
  OBVIOUS
<1>2. ConfigTypeOK
  BY <1>1, <1>11, <1>12 DEF ConfigTypeOK
<1>3. ItemIsSet /\ BeginsFirst
  BY DEF ItemIsSet, BeginsFirst
<1>4. CopiesAgree
  BY DEF CopiesAgree
<1>5. QED BY <1>2, <1>3, <1>4 DEF ConfigInv

LEMMA OnConfigKeeps ==
  ASSUME ConfigInv, NEW k \in Keys, OnConfig(k)
  PROVE  ConfigInv'
<1> DEFINE v == Loaded(k, Started(k, Default[firmware][k]))
<1>0. ConfigTypeOK /\ CopiesAgree
  BY DEF ConfigInv
<1>1. /\ entries' = Put(k, v) /\ told' = [told EXCEPT ![k] = v]
      /\ Registered(k) \/ Len(entries) < Capacity
      /\ stage = "none" /\ UNCHANGED <<firmware, begun, nvs, item, stage, server, unsaved>>
  BY DEF OnConfig
<1>2. v \in Nat \cup {NoValue}
  BY <1>0, RegistrationLoads
<1>3. /\ entries' \in Seq(Entries) /\ Len(entries') <= Capacity
      /\ \A i, j \in DOMAIN entries' : entries'[i].key = entries'[j].key => i = j
      /\ Found(k)' # {} /\ \A i \in Found(k)' : entries'[i].value = v
      /\ \A l \in Keys \ {k} : Found(l)' = Found(l) /\ \A i \in Found(l) : entries'[i] = entries[i]
  BY <1>0, <1>1, <1>2, PutKeepsTable
<1>4. ConfigTypeOK'
  BY <1>0, <1>1, <1>2, <1>3 DEF ConfigTypeOK, Entries
<1>5. ItemIsSet' /\ BeginsFirst'
  BY <1>1 DEF ItemIsSet, BeginsFirst
<1>6. CopiesAgree'
  <2> SUFFICES ASSUME NEW l \in Keys \ unsaved
               PROVE  /\ server[l] # NoValue => server[l] = Durable(l)
                      /\ begun => \A i \in Found(l)' : entries'[i].value = Durable(l)
    BY <1>1 DEF CopiesAgree, Durable
  <2>1. CASE l = k
    BY <1>0, <1>3, <2>1, RegistrationLoads DEF CopiesAgree
  <2>2. CASE l # k
    BY <1>0, <1>3, <2>2 DEF CopiesAgree
  <2>3. QED BY <2>1, <2>2
<1>7. QED BY <1>4, <1>5, <1>6 DEF ConfigInv

LEMMA PushSetsKeeps ==
  ASSUME ConfigInv, PushSets
  PROVE  ConfigInv'
<1> DEFINE k == item.key  v == Parsed(item.key, item.value)
<1>0. ConfigTypeOK /\ CopiesAgree
  BY DEF ConfigInv
<1>1. k \in Keys /\ item.value \in Nat
  BY <1>0 DEF PushSets, ConfigTypeOK
<1>2. v \in Nat
  BY <1>1 DEF Parsed
<1>3. /\ entries' = Put(k, v) /\ Registered(k) /\ stage' = "save"
      /\ server' = [server EXCEPT ![k] = v] /\ unsaved' = unsaved \cup {k}
      /\ UNCHANGED <<firmware, begun, nvs, item, told>>
  BY DEF PushSets
<1>4. /\ entries' \in Seq(Entries) /\ Len(entries') <= Capacity
      /\ \A i, j \in DOMAIN entries' : entries'[i].key = entries'[j].key => i = j
      /\ Found(k)' # {} /\ \A i \in Found(k)' : entries'[i].value = v
      /\ \A l \in Keys \ {k} : Found(l)' = Found(l) /\ \A i \in Found(l) : entries'[i] = entries[i]
  BY <1>0, <1>1, <1>2, <1>3, PutKeepsTable
<1>5. ConfigTypeOK'
  <2>1. server' \in [Keys -> Nat \cup {NoValue}] /\ unsaved' \subseteq Keys
    BY <1>0, <1>1, <1>2, <1>3 DEF ConfigTypeOK
  <2>2. stage # "none"
    BY DEF PushSets
  <2>3. QED BY <1>0, <1>3, <1>4, <2>1, <2>2 DEF ConfigTypeOK, Entries
<1>6. ItemIsSet' /\ BeginsFirst'
  <2>1. server'[k] = v
    BY <1>0, <1>1, <1>3 DEF ConfigTypeOK
  <2>2. Parsed(item.key, item.value)' = v
    BY <1>3 DEF Parsed
  <2>3. begun
    BY DEF PushSets, ConfigInv, BeginsFirst
  <2>4. QED BY <1>3, <1>4, <2>1, <2>2, <2>3 DEF ItemIsSet, Registered, BeginsFirst
<1>7. CopiesAgree'
  <2> SUFFICES ASSUME NEW l \in Keys \ unsaved, l # k
               PROVE  /\ server'[l] # NoValue => server'[l] = Durable(l)
                      /\ begun => \A i \in Found(l)' : entries'[i].value = Durable(l)
    BY <1>3 DEF CopiesAgree, Durable
  <2>1. server'[l] = server[l]
    BY <1>0, <1>3 DEF ConfigTypeOK
  <2>2. QED BY <1>0, <1>4, <2>1 DEF CopiesAgree
<1>8. QED BY <1>5, <1>6, <1>7 DEF ConfigInv

LEMMA PushSavesKeeps ==
  ASSUME Representable, ConfigInv, PushSaves
  PROVE  ConfigInv'
<1> DEFINE k == item.key  v == Parsed(item.key, item.value)
           cell == [kind |-> Kind(k), raw |-> ToFlash(k, v)]
<1>0. ConfigTypeOK /\ ItemIsSet /\ CopiesAgree
  BY DEF ConfigInv
<1>1. k \in Keys /\ item.value \in Nat /\ Cell[k] \in Cells
  BY <1>0 DEF PushSaves, ConfigTypeOK, Cells
<1>2. /\ server[k] = v /\ \A i \in Found(k) : entries[i].value = v
      /\ Entry(k).value = v
  BY <1>0, <1>1, EntryIsFound DEF PushSaves, ItemIsSet
<1>3. cell \in [kind : {"none", "i32", "str"}, raw : Nat]
  BY <1>1, FlashKeeps DEF Kind
<1>4. UNCHANGED <<firmware, begun, entries, item, told, server>> /\ stage = "save" /\ stage' = "tell"
  BY DEF PushSaves
<1>5. \/ nvs' = [nvs EXCEPT ![Cell[k]] = cell] /\ unsaved' = unsaved \ {k}
      \/ UNCHANGED <<nvs, unsaved>>
  BY <1>2 DEF PushSaves
<1>6. ConfigTypeOK'
  BY <1>0, <1>3, <1>4, <1>5 DEF ConfigTypeOK
<1>7. ItemIsSet' /\ BeginsFirst'
  BY <1>0, <1>4 DEF ItemIsSet, Parsed, Found, Registered, BeginsFirst, ConfigInv
<1>8. CopiesAgree'
  <2>1. CASE UNCHANGED <<nvs, unsaved>>
    BY <1>0, <1>4, <2>1 DEF CopiesAgree, Durable, Found
  <2>2. CASE nvs' = [nvs EXCEPT ![Cell[k]] = cell] /\ unsaved' = unsaved \ {k}
    <3> SUFFICES ASSUME NEW l \in Keys, l \notin unsaved \/ l = k
                 PROVE  /\ server[l] # NoValue => server[l] = Durable(l)'
                        /\ begun => \A i \in Found(l) : entries[i].value = Durable(l)'
      BY <1>4, <2>2 DEF CopiesAgree, Found
    <3>1. CASE l = k
      <4>1. nvs'[Cell[l]] = [kind |-> Kind(l), raw |-> ToFlash(l, Parsed(l, item.value))]
        BY <1>0, <1>1, <2>2, <3>1 DEF ConfigTypeOK
      <4>2. nvs'[Cell[l]].kind = Kind(l) /\ nvs'[Cell[l]].raw = ToFlash(l, Parsed(l, item.value))
        BY <4>1
      <4>3. Durable(l)' = FromFlash(l, ToFlash(l, Parsed(l, item.value)))
        BY <4>2 DEF Durable
      <4>4. Durable(l)' = Parsed(l, item.value)
        BY <1>1, <4>3, FlashKeeps
      <4>5. QED BY <1>2, <3>1, <4>4
    <3>2. CASE l # k
      <4>1. Cell[l] # Cell[k] /\ Cell[l] \in Cells
        BY <1>1, <3>2 DEF Representable, Cells
      <4>2. nvs'[Cell[l]] = nvs[Cell[l]]
        BY <1>0, <2>2, <4>1 DEF ConfigTypeOK
      <4>3. Durable(l)' = Durable(l)
        BY <1>4, <4>2 DEF Durable
      <4>4. QED BY <1>0, <3>2, <4>3 DEF CopiesAgree
    <3>3. QED BY <3>1, <3>2
  <2>3. QED BY <1>5, <2>1, <2>2
<1>9. QED BY <1>6, <1>7, <1>8 DEF ConfigInv

(* Handling a key the table lacks, or a value it has already. *)
LEMMA PushUnchangedKeeps ==
  ASSUME ConfigInv, PushUnchanged
  PROVE  ConfigInv'
<1> DEFINE k == item.key  v == Parsed(item.key, item.value)
<1>0. ConfigTypeOK /\ CopiesAgree
  BY DEF ConfigInv
<1>1. k \in Keys /\ item.value \in Nat /\ v \in Nat
  BY <1>0 DEF PushUnchanged, ConfigTypeOK, Parsed
<1>2. /\ Registered(k) /\ Entry(k).value = v /\ stage' = "none"
      /\ server' = [server EXCEPT ![k] = v]
      /\ UNCHANGED <<firmware, begun, entries, nvs, item, told, unsaved>>
  BY DEF PushUnchanged
<1>3. ConfigTypeOK'
  BY <1>0, <1>1, <1>2 DEF ConfigTypeOK
<1>4. ItemIsSet' /\ BeginsFirst'
  BY <1>2 DEF ItemIsSet, BeginsFirst
<1>5. CopiesAgree'
  <2> SUFFICES ASSUME NEW l \in Keys \ unsaved
               PROVE  /\ server'[l] # NoValue => server'[l] = Durable(l)
                      /\ begun => \A i \in Found(l) : entries[i].value = Durable(l)
    BY <1>2 DEF CopiesAgree, Durable, Found
  <2>1. CASE l = k
    <3>1. begun => Entry(l).value = Durable(l)
      BY <1>0, <1>2, <2>1, EntryIsFound DEF CopiesAgree
    <3>2. begun
      BY <1>0, <1>2, <3>1 DEF ConfigInv, PushUnchanged, BeginsFirst
    <3>3. server'[l] = v
      BY <1>0, <1>1, <1>2, <2>1 DEF ConfigTypeOK
    <3>4. QED BY <1>0, <1>2, <2>1, <3>1, <3>2, <3>3 DEF CopiesAgree
  <2>2. CASE l # k
    BY <1>0, <1>2, <2>2 DEF CopiesAgree, ConfigTypeOK
  <2>3. QED BY <2>1, <2>2
<1>6. QED BY <1>3, <1>4, <1>5 DEF ConfigInv

(* The other steps of a push leave RAM, flash and server as they are. *)
LEMMA PushOtherKeeps ==
  ASSUME ConfigInv,
         PushIgnored \/ PushTells \/ \E k \in Keys, v \in Values : PushArrives(k, v)
  PROVE  ConfigInv'
<1>0. ConfigTypeOK /\ CopiesAgree
  BY DEF ConfigInv
<1>1. /\ UNCHANGED <<firmware, begun, entries, nvs, server, unsaved>>
      /\ stage' \in {"none", "find"}
      /\ stage' # "none" => begun /\ item' \in [key : Keys, value : Nat]
  <2>1. CASE PushIgnored \/ PushTells
    BY <2>1 DEF PushIgnored, PushTells
  <2>2. ASSUME NEW k \in Keys, NEW v \in Values, PushArrives(k, v)
        PROVE  /\ UNCHANGED <<firmware, begun, entries, nvs, server, unsaved>> /\ stage' = "find"
               /\ begun /\ item' \in [key : Keys, value : Nat]
    <3>1. v \in Nat
      BY ConfigAssumption DEF ConfigAssumption
    <3>2. QED BY <2>2, <3>1 DEF PushArrives
  <2>3. QED BY <2>1, <2>2
<1>2. told' \in [Keys -> Nat \cup {NoValue}]
  <2>1. CASE PushTells
    <3>1. item.key \in Keys /\ Registered(item.key)
      BY <2>1 DEF ConfigInv, ConfigTypeOK, ItemIsSet, PushTells
    <3>2. Entry(item.key).value \in Nat \cup {NoValue}
      BY <1>0, <3>1, EntryIsFound DEF Entries
    <3>3. QED BY <1>0, <2>1, <3>1, <3>2 DEF ConfigTypeOK, PushTells
  <2>2. CASE ~PushTells
    BY <1>0, <2>2 DEF ConfigTypeOK, PushIgnored, PushArrives
  <2>3. QED BY <2>1, <2>2
<1>3. ConfigTypeOK'
  BY <1>0, <1>1, <1>2 DEF ConfigTypeOK
<1>4. ItemIsSet' /\ BeginsFirst'
  BY <1>1 DEF ItemIsSet, BeginsFirst
<1>5. CopiesAgree'
  BY <1>0, <1>1 DEF CopiesAgree, Durable, Found
<1>6. QED BY <1>3, <1>4, <1>5 DEF ConfigInv

(* ConfigBegins and the restarts empty the table. *)
LEMMA EmptiedKeeps ==
  ASSUME Representable, ConfigInv, ConfigBegins \/ Restart \/ FactoryReset
  PROVE  ConfigInv'
<1>0. ConfigTypeOK /\ CopiesAgree
  BY DEF ConfigInv
<1>1. entries' = <<>> /\ stage' = "none" /\ firmware' \in Firmwares
  BY <1>0 DEF ConfigBegins, Restart, FactoryReset, ConfigInv, BeginsFirst, ConfigTypeOK
<1>2. /\ entries' \in Seq([key : Keys, value : Nat \cup {NoValue}])
      /\ DOMAIN entries' = {} /\ Len(entries') = 0 /\ Len(entries') <= Capacity
  BY <1>1, ConfigAssumption DEF ConfigAssumption
<1>3. \/ UNCHANGED <<nvs, server, unsaved, told, item>>
      \/ /\ nvs' = [c \in Cells |-> NoCell]
         /\ server' = [k \in Keys |-> NoValue] /\ unsaved' = {} /\ UNCHANGED <<told, item>>
  BY DEF ConfigBegins, Restart, FactoryReset
<1>4. ConfigTypeOK'
  <2>1. begun' \in BOOLEAN
    BY DEF ConfigBegins, Restart, FactoryReset
  <2>2. nvs' \in [Cells -> [kind : {"none", "i32", "str"}, raw : Nat]]
    BY <1>0, <1>3 DEF ConfigTypeOK, NoCell
  <2>3. server' \in [Keys -> Nat \cup {NoValue}] /\ unsaved' \subseteq Keys
    BY <1>0, <1>3 DEF ConfigTypeOK
  <2>4. told' \in [Keys -> Nat \cup {NoValue}]
    BY <1>0, <1>3 DEF ConfigTypeOK
  <2>5. QED BY <1>1, <1>2, <2>1, <2>2, <2>3, <2>4 DEF ConfigTypeOK
<1>5. ItemIsSet' /\ BeginsFirst'
  BY <1>1 DEF ItemIsSet, BeginsFirst
<1>6. CopiesAgree'
  <2> SUFFICES ASSUME NEW l \in Keys, l \notin unsaved', server'[l] # NoValue
               PROVE  server'[l] = Durable(l)'
    BY <1>2 DEF CopiesAgree, Found
  <2>1. UNCHANGED <<nvs, server, unsaved>>
    BY <1>3
  <2>2. Default[firmware'][l] = Default[firmware][l]
    BY <1>0, <1>1 DEF Representable, ConfigTypeOK
  <2>3. QED BY <1>0, <2>1, <2>2 DEF CopiesAgree, Durable
<1>7. QED BY <1>4, <1>5, <1>6 DEF ConfigInv

LEMMA ConfigStep == ASSUME Representable, ConfigInv, [ConfigNext]_configVars PROVE ConfigInv'
<1>1. CASE ConfigBegins \/ Restart \/ FactoryReset
  BY <1>1, EmptiedKeeps
<1>2. CASE \E k \in Keys : OnConfig(k)
  BY <1>2, OnConfigKeeps
<1>3. CASE PushIgnored \/ PushTells \/ \E k \in Keys, v \in Values : PushArrives(k, v)
  BY <1>3, PushOtherKeeps
<1>4. CASE PushUnchanged
  BY <1>4, PushUnchangedKeeps
<1>5. CASE PushSets
  BY <1>5, PushSetsKeeps
<1>6. CASE PushSaves
  BY <1>6, PushSavesKeeps
<1>7. CASE UNCHANGED configVars
  BY <1>7 DEF configVars, ConfigInv, ConfigTypeOK, BeginsFirst, ItemIsSet, CopiesAgree,
              Durable, Found, Registered, Parsed
<1>8. QED BY <1>1, <1>2, <1>3, <1>4, <1>5, <1>6, <1>7 DEF ConfigNext, Push

(* For any keys and values that the cells can represent: the table keeps    *)
(* its types and holds a key once, however often it is registered.          *)
THEOREM ConfigTypesHold == ASSUME Representable PROVE ConfigSpec => []ConfigTypeOK
<1>1. ConfigInv => ConfigTypeOK
  BY DEF ConfigInv
<1>2. ConfigInv /\ [ConfigNext]_configVars => ConfigInv'
  BY ConfigStep
<1>3. QED BY <1>1, <1>2, ConfigInitially, PTL DEF ConfigSpec

(* For any keys and values that the cells can represent: a registered key   *)
(* has the value the server pushed last, through restarts, failed writes    *)
(* and registrations in any order, if the flash has taken it.               *)
THEOREM ServerValuesAreKept == ASSUME Representable PROVE ConfigSpec => []ServerValueKept
<1>1. ConfigInv => ServerValueKept
  <2> SUFFICES ASSUME ConfigInv, NEW k \in Keys,
                      begun, Registered(k), server[k] # NoValue, k \notin unsaved
               PROVE  Entry(k).value = server[k]
    BY DEF ServerValueKept
  <2>1. PICK i \in Found(k) : Entry(k) = entries[i]
    BY EntryIsFound DEF ConfigInv
  <2>2. entries[i].value = Durable(k) /\ server[k] = Durable(k)
    BY DEF ConfigInv, CopiesAgree
  <2>3. QED BY <2>1, <2>2
<1>2. ConfigInv /\ [ConfigNext]_configVars => ConfigInv'
  BY ConfigStep
<1>3. QED BY <1>1, <1>2, ConfigInitially, PTL DEF ConfigSpec

-----------------------------------------------------------------------------
(* What the sketch has been told: every value but the one in hand. *)
ToldInv ==
  \A k \in Keys : \A i \in Found(k) :
    (stage \in {"save", "tell"} /\ k = item.key) \/ entries[i].value = told[k]

LEMMA ToldStep ==
  ASSUME ~Facade, ConfigInv, ToldInv, [ConfigNext]_configVars
  PROVE  ToldInv'
<1>0. ConfigTypeOK
  BY DEF ConfigInv
<1>1. CASE ConfigBegins \/ Restart \/ FactoryReset
  <2>1. entries' = <<>>
    BY <1>1 DEF ConfigBegins, Restart, FactoryReset, ConfigInv, BeginsFirst
  <2>2. QED BY <2>1 DEF ToldInv, Found
<1>2. ASSUME NEW k \in Keys, OnConfig(k) PROVE ToldInv'
  <2> DEFINE v == Loaded(k, Started(k, Default[firmware][k]))
  <2>1. /\ entries' = Put(k, v) /\ told' = [told EXCEPT ![k] = v]
        /\ Registered(k) \/ Len(entries) < Capacity
        /\ stage = "none"
    BY <1>2 DEF OnConfig
  <2>2. v \in Nat \cup {NoValue}
    BY <1>0, RegistrationLoads
  <2>3. /\ \A i \in Found(k)' : entries'[i].value = v
        /\ \A l \in Keys \ {k} : Found(l)' = Found(l) /\ \A i \in Found(l) : entries'[i] = entries[i]
    BY <1>0, <2>1, <2>2, PutKeepsTable
  <2>4. \A l \in Keys : told'[l] = IF l = k THEN v ELSE told[l]
    BY <1>0, <2>1 DEF ConfigTypeOK
  <2>5. QED BY <2>1, <2>3, <2>4 DEF ToldInv
<1>3. CASE PushSets
  <2> DEFINE k == item.key  v == Parsed(item.key, item.value)
  <2>1. k \in Keys /\ v \in Nat
    BY <1>0, <1>3 DEF PushSets, ConfigTypeOK, Parsed
  <2>2. /\ entries' = Put(k, v) /\ Registered(k) /\ stage = "find" /\ stage' = "save"
        /\ UNCHANGED <<item, told>>
    BY <1>3 DEF PushSets
  <2>3. \A l \in Keys \ {k} : Found(l)' = Found(l) /\ \A i \in Found(l) : entries'[i] = entries[i]
    BY <1>0, <2>1, <2>2, PutKeepsTable
  <2>4. QED BY <2>2, <2>3 DEF ToldInv
<1>4. CASE PushTells
  <2> DEFINE k == item.key
  <2>1. k \in Keys /\ Registered(k) /\ \A i, j \in Found(k) : entries[i].value = entries[j].value
    BY <1>4 DEF ConfigInv, ConfigTypeOK, ItemIsSet, PushTells
  <2>2. \A i \in Found(k) : entries[i].value = Entry(k).value
    BY <1>0, <2>1, EntryIsFound
  <2>3. told' = [told EXCEPT ![k] = Entry(k).value] /\ UNCHANGED entries
    BY <1>4 DEF PushTells
  <2>4. \A l \in Keys : told'[l] = IF l = k THEN Entry(k).value ELSE told[l]
    BY <1>0, <2>3 DEF ConfigTypeOK
  <2>5. QED BY <2>2, <2>3, <2>4 DEF ToldInv, Found
<1>5. CASE PushIgnored \/ PushUnchanged \/ PushSaves \/ \E k \in Keys, v \in Values : PushArrives(k, v)
  <2>1. /\ UNCHANGED <<entries, told>>
        /\ stage \notin {"save", "tell"} \/ (stage' \in {"save", "tell"} /\ item' = item)
    BY <1>5 DEF PushIgnored, PushUnchanged, PushSaves, PushArrives
  <2>2. QED BY <2>1 DEF ToldInv, Found
<1>6. CASE UNCHANGED configVars
  BY <1>6 DEF configVars, ToldInv, Found
<1>7. QED BY <1>1, <1>2, <1>3, <1>4, <1>5, <1>6 DEF ConfigNext, Push

(* With the callbacks of the C functions, for any keys that the cells can   *)
(* represent: a sketch that read a key when it registered it has been told  *)
(* every value since, outside of a push.                                    *)
THEOREM SketchIsTold == ASSUME Representable, ~Facade PROVE ConfigSpec => []ToldTheValue
<1>1. ConfigInit => ToldInv
  BY DEF ConfigInit, ToldInv, Found
<1>2. ConfigInv /\ ToldInv => ToldTheValue
  <2> SUFFICES ASSUME ConfigInv, ToldInv, NEW k \in Keys, stage = "none", Registered(k)
               PROVE  told[k] = Entry(k).value
    BY DEF ToldTheValue
  <2>1. PICK i \in Found(k) : Entry(k) = entries[i]
    BY EntryIsFound DEF ConfigInv
  <2>2. QED BY <2>1 DEF ToldInv
<1>3. ConfigInv /\ [ConfigNext]_configVars => ConfigInv'
  BY ConfigStep
<1>4. ConfigInv /\ ToldInv /\ [ConfigNext]_configVars => ToldInv'
  BY ToldStep
<1>5. QED BY <1>1, <1>2, <1>3, <1>4, ConfigInitially, PTL DEF ConfigSpec

(* A difference modulo W of two numbers below W. *)
LEMMA ModDiff ==
  ASSUME NEW W \in Nat \ {0}, NEW x \in 0 .. W - 1, NEW y \in 0 .. W - 1
  PROVE  (x - y) % W = IF x >= y THEN x - y ELSE x - y + W
OBVIOUS

-----------------------------------------------------------------------------
(* Heartbeat: what the passes of loop() do in time.                          *)

(* The constants of the heartbeat are as its module assumes. *)
LEMMA HeartbeatConstants ==
  /\ Wrap \in Nat \ {0} /\ Wrap % 2 = 0
  /\ MinMs \in Nat /\ Intervals \subseteq Nat
  /\ Stale \in Nat /\ Retry \in Nat
  /\ MaxAnswer \in Nat /\ MaxOutage \in Nat /\ MaxClock \in Nat \ {0}
BY RepliesAssumption DEF HeartbeatAssumption

(* The types of the heartbeat, variable by variable. *)
TypesApart ==
  /\ interval \in Nat /\ interval >= MinMs /\ phase \in {"search", "enroll", "done"}
  /\ last_sent \in 0 .. Wrap - 1 /\ last_success \in 0 .. Wrap - 1
  /\ https_hb_at \in 0 .. Wrap - 1
  /\ running \in BOOLEAN /\ pending \in BOOLEAN /\ token_ok \in BOOLEAN
  /\ hb_started \in BOOLEAN /\ wifi \in BOOLEAN /\ connected \in BOOLEAN
  /\ alive \in BOOLEAN /\ owed \in BOOLEAN /\ armed \in BOOLEAN /\ failed \in BOOLEAN
  /\ clock \in Nat /\ unprobed \in Nat /\ unsent \in Nat /\ waited \in Nat
  /\ offline \in Nat /\ quiet \in Nat

LEMMA HeartbeatTypes == HeartbeatTypeOK <=> TypesApart
<1> DEFINE T == {last_sent, last_success, https_hb_at} \subseteq 0 .. Wrap - 1
           B == {running, pending, token_ok, hb_started, wifi, connected, alive, owed, armed, failed}
                  \subseteq BOOLEAN
           N == {clock, unprobed, unsent, waited, offline, quiet} \subseteq Nat
<1>1. T <=> /\ last_sent \in 0 .. Wrap - 1 /\ last_success \in 0 .. Wrap - 1
            /\ https_hb_at \in 0 .. Wrap - 1
  OBVIOUS
<1>2. B <=> /\ running \in BOOLEAN /\ pending \in BOOLEAN /\ token_ok \in BOOLEAN
            /\ hb_started \in BOOLEAN /\ wifi \in BOOLEAN /\ connected \in BOOLEAN
            /\ alive \in BOOLEAN /\ owed \in BOOLEAN /\ armed \in BOOLEAN /\ failed \in BOOLEAN
  OBVIOUS
<1>3. N <=> /\ clock \in Nat /\ unprobed \in Nat /\ unsent \in Nat /\ waited \in Nat
            /\ offline \in Nat /\ quiet \in Nat
  OBVIOUS
<1>4. HeartbeatTypeOK <=>
        /\ interval \in Nat /\ interval >= MinMs /\ phase \in {"search", "enroll", "done"}
        /\ T /\ B /\ N
  BY DEF HeartbeatTypeOK
<1> HIDE DEF T, B, N
<1> QED BY <1>1, <1>2, <1>3, <1>4 DEF TypesApart

LEMMA TurnIsRange == ASSUME NEW n \in Nat PROVE n % Wrap \in 0 .. Wrap - 1
BY HeartbeatConstants

LEMMA HeartbeatTypesStart == HeartbeatInit => TypesApart
<1>1. 0 \in 0 .. Wrap - 1 /\ MinMs \in Nat /\ MinMs >= MinMs
  BY HeartbeatConstants
<1> SUFFICES ASSUME HeartbeatInit PROVE TypesApart
  OBVIOUS
<1>2. /\ interval \in Nat /\ interval >= MinMs /\ phase \in {"search", "enroll", "done"}
      /\ last_sent \in 0 .. Wrap - 1 /\ last_success \in 0 .. Wrap - 1
      /\ https_hb_at \in 0 .. Wrap - 1
  BY <1>1 DEF HeartbeatInit
<1>3. /\ running \in BOOLEAN /\ pending \in BOOLEAN /\ token_ok \in BOOLEAN
      /\ hb_started \in BOOLEAN /\ wifi \in BOOLEAN /\ connected \in BOOLEAN
      /\ alive \in BOOLEAN /\ owed \in BOOLEAN /\ armed \in BOOLEAN /\ failed \in BOOLEAN
  BY Zenon DEF HeartbeatInit
<1>4. /\ clock \in Nat /\ unprobed \in Nat /\ unsent \in Nat /\ waited \in Nat
      /\ offline \in Nat /\ quiet \in Nat
  BY DEF HeartbeatInit
<1> QED BY <1>2, <1>3, <1>4 DEF TypesApart

(* What a unit of time adds to the counts. *)
LEMMA CountsGrow ==
  ASSUME TypesApart, TimePasses
  PROVE  /\ clock < MaxClock /\ clock' = clock + 1 /\ UNCHANGED <<code, net, owed, armed, failed>>
         /\ unprobed' \in Nat /\ unprobed' <= unprobed + 1
         /\ unsent' \in Nat /\ unsent' <= unsent + 1
         /\ running /\ connected /\ unsent <= interval => unsent' = unsent + 1
         /\ ~connected => unsent' = unsent
         /\ waited' \in Nat /\ waited' <= waited + 1 /\ (waited <= MaxAnswer => waited' <= MaxAnswer)
         /\ waited' >= waited /\ (connected /\ owed /\ waited < MaxAnswer => waited' = waited + 1)
         /\ offline' \in Nat /\ offline' <= offline + 1
         /\ (offline <= MaxOutage => offline' <= MaxOutage)
         /\ offline' >= offline /\ (~connected /\ offline < MaxOutage => offline' = offline + 1)
         /\ quiet' = IF quiet <= Stale THEN quiet + 1 ELSE quiet
<1> USE HeartbeatConstants
<1>t. /\ clock \in Nat /\ unprobed \in Nat /\ unsent \in Nat /\ waited \in Nat
      /\ offline \in Nat /\ quiet \in Nat /\ interval \in Nat
      /\ connected \in BOOLEAN /\ owed \in BOOLEAN /\ running \in BOOLEAN
  BY DEF TypesApart
<1>1. clock < MaxClock /\ clock' = clock + 1 /\ UNCHANGED <<code, net, owed, armed, failed>>
  BY DEF TimePasses
<1>2. unprobed' \in Nat /\ unprobed' <= unprobed + 1
  <2>1. unprobed' \in {0, unprobed, unprobed + 1}
    BY DEF TimePasses, Count
  <2> QED BY <1>t, <2>1
<1>3. /\ unsent' = unsent \/ unsent' = unsent + 1
      /\ running /\ connected /\ unsent <= interval => unsent' = unsent + 1
      /\ ~connected => unsent' = unsent
  <2>1. unsent' = IF (running /\ connected) /\ unsent < interval + 1 THEN unsent + 1 ELSE unsent
    BY DEF TimePasses, Count
  <2> QED BY <1>t, <2>1
<1>4. /\ waited' = waited \/ (waited < MaxAnswer /\ waited' = waited + 1)
      /\ connected /\ owed /\ waited < MaxAnswer => waited' = waited + 1
  <2>1. waited' = IF (connected /\ owed) /\ waited < MaxAnswer THEN waited + 1 ELSE waited
    BY DEF TimePasses, Count
  <2> QED BY <1>t, <2>1
<1>5. /\ offline' = offline \/ (offline < MaxOutage /\ offline' = offline + 1)
      /\ ~connected /\ offline < MaxOutage => offline' = offline + 1
  <2>1. offline' = IF ~connected /\ offline < MaxOutage THEN offline + 1 ELSE offline
    BY DEF TimePasses, Count
  <2> QED BY <1>t, <2>1
<1>6. quiet' = IF quiet <= Stale THEN quiet + 1 ELSE quiet
  <2>1. quiet' = IF quiet < Stale + 1 THEN quiet + 1 ELSE quiet
    BY DEF TimePasses, Count
  <2> QED BY <1>t, <2>1
<1>7. unsent' \in Nat /\ unsent' <= unsent + 1
  BY <1>t, <1>3
<1>8. waited' \in Nat /\ waited' <= waited + 1 /\ (waited <= MaxAnswer => waited' <= MaxAnswer)
      /\ waited' >= waited
  BY <1>t, <1>4
<1>9. offline' \in Nat /\ offline' <= offline + 1 /\ (offline <= MaxOutage => offline' <= MaxOutage)
      /\ offline' >= offline
  BY <1>t, <1>5
<1> QED BY <1>1, <1>2, <1>3, <1>4, <1>5, <1>6, <1>7, <1>8, <1>9

LEMMA HeartbeatTypesStep ==
  ASSUME TypesApart, [HeartbeatNext]_vars
  PROVE  TypesApart'
<1> USE HeartbeatConstants
<1>t. TypesApart
  OBVIOUS
<1>n. now \in 0 .. Wrap - 1 /\ (clock + Retry) % Wrap \in 0 .. Wrap - 1
  <2>1. clock \in Nat /\ clock + Retry \in Nat
    BY <1>t DEF TypesApart
  <2> QED BY <2>1, TurnIsRange DEF now
<1> USE DEF code, net, seen, Heard, TypesApart
<1>1. CASE Answer BY <1>t, <1>n, <1>1 DEF Answer
<1>2. CASE ProbeAccepted BY <1>t, <1>n, <1>2 DEF ProbeAccepted
<1>3. CASE ProbeFails BY <1>t, <1>n, <1>3 DEF ProbeFails
<1>4. CASE Recover BY <1>t, <1>n, <1>4 DEF Recover
<1>5. CASE Connect BY <1>t, <1>n, <1>5 DEF Connect
<1>6. CASE Start BY <1>t, <1>n, <1>6 DEF Start
<1>7. CASE Send BY <1>t, <1>n, <1>7 DEF Send
<1>8. CASE Rediscover BY <1>t, <1>n, <1>8 DEF Rediscover
<1>9. CASE Enrolled BY <1>t, <1>n, <1>9 DEF Enrolled
<1>10. CASE SendNow BY <1>t, <1>n, <1>10 DEF SendNow
<1>11. ASSUME NEW ms \in Intervals, SetInterval(ms)
       PROVE  interval' \in Nat /\ interval' >= MinMs
  BY <1>t, <1>11 DEF SetInterval
<1>12. CASE \E ms \in Intervals : SetInterval(ms)
  BY <1>t, <1>n, <1>11, <1>12 DEF SetInterval
<1>13. CASE WifiLost BY ZenonT(40), <1>t, <1>n, <1>13 DEF WifiLost
<1>14. CASE WifiBack BY <1>t, <1>n, <1>14 DEF WifiBack
<1>15. CASE LinkLost BY ZenonT(40), <1>t, <1>n, <1>15 DEF LinkLost
<1>16. CASE ServerDies BY ZenonT(40), <1>t, <1>n, <1>16 DEF ServerDies
<1>17. CASE ServerBack BY <1>t, <1>n, <1>17 DEF ServerBack
<1>18. CASE TimePasses
  <2>1. quiet' \in Nat
    BY <1>t, <1>18, CountsGrow
  <2>2. clock' \in Nat /\ UNCHANGED <<code, net, owed, armed, failed>>
    BY <1>t, <1>18, CountsGrow
  <2>3. unprobed' \in Nat /\ unsent' \in Nat /\ waited' \in Nat /\ offline' \in Nat
    BY <1>18, CountsGrow
  <2> QED BY <1>t, <2>1, <2>2, <2>3
<1>19. CASE UNCHANGED vars BY <1>t, <1>n, <1>19 DEF vars
<1> QED
  BY <1>1, <1>2, <1>3, <1>4, <1>5, <1>6, <1>7, <1>8, <1>9, <1>10, <1>12, <1>13, <1>14,
     <1>15, <1>16, <1>17, <1>18, <1>19 DEF HeartbeatNext

(* The types hold for any constants and any time. *)
THEOREM HeartbeatTypesHold == HeartbeatSpec => []HeartbeatTypeOK
<1>1. HeartbeatInit => TypesApart
  BY HeartbeatTypesStart
<1>2. TypesApart /\ [HeartbeatNext]_vars => TypesApart'
  BY HeartbeatTypesStep
<1>3. TypesApart => HeartbeatTypeOK
  BY HeartbeatTypes
<1> QED BY <1>1, <1>2, <1>3, PTL DEF HeartbeatSpec

-----------------------------------------------------------------------------
(* The device is up for less than half a turn of the millisecond counter.   *)
ClockIsShort == MaxClock + Retry < Wrap \div 2

(* The window leaves time for an interval, an answer and an outage.         *)
WindowIsWide ==
  /\ MinMs + MaxAnswer + MaxOutage <= Stale
  /\ \A ms \in Intervals : ms + MaxAnswer + MaxOutage <= Stale

(* A heartbeat runs with a confirmed token, and MQTT is connected with one. *)
FlagsAgree ==
  /\ running <=> hb_started
  /\ hb_started => token_ok
  /\ connected => wifi /\ token_ok
  /\ token_ok => phase = "done"

(* The times are past ones, but that of the next probe, and what is counted *)
(* fits them.                                                               *)
TimesAgree ==
  /\ clock \in 1 .. MaxClock
  /\ last_sent <= clock /\ last_success <= clock
  /\ running => unsent <= clock - last_sent
  /\ unprobed <= Retry
  /\ https_hb_at > clock => unprobed + (https_hb_at - clock) <= Retry

(* quiet is the age of the last answer, up to the end of the window.        *)
QuietIsAge ==
  /\ token_ok => last_success # 0
  /\ last_success # 0 =>
       quiet = IF clock - last_success <= Stale THEN clock - last_success ELSE Stale + 1

(* What HeartbeatsInTime and the window rest on. *)
HeartbeatInv == TypesApart /\ FlagsAgree /\ TimesAgree /\ QuietIsAge

(* The time since the last answer of a server that was never down is spent  *)
(* without link, or waiting for an answer, or before the heartbeat is due.  *)
QuietIsSpent ==
  /\ ~failed => alive
  /\ waited <= MaxAnswer /\ offline <= MaxOutage
  /\ interval + MaxAnswer + MaxOutage <= Stale
  /\ running => unsent + MaxAnswer + MaxOutage <= Stale
  /\ token_ok /\ ~hb_started /\ ~failed => quiet <= offline + waited
  /\ hb_started /\ ~failed /\ ~owed => quiet <= offline + waited + unsent
  /\ hb_started /\ ~failed => quiet + MaxAnswer + MaxOutage <= offline + waited + Stale

(* In a time that short the 32-bit differences are those of the times.      *)
LEMMA ShortTimes ==
  ASSUME ClockIsShort, clock \in 1 .. MaxClock, NEW t \in 0 .. clock + Retry
  PROVE  /\ now = clock /\ clock + Retry < Wrap /\ (clock + Retry) % Wrap = clock + Retry
         /\ \A d \in Nat : Passed(t, d) <=> t + d <= clock
         /\ t <= clock => (now - t) % Wrap = clock - t
<1> USE HeartbeatConstants
<1>1. clock + Retry < Wrap \div 2 /\ Wrap \div 2 \in Nat /\ Wrap \div 2 < Wrap
  BY DEF ClockIsShort
<1>2. clock \in 0 .. Wrap - 1 /\ clock + Retry \in 0 .. Wrap - 1 /\ t \in 0 .. Wrap - 1
  BY <1>1
<1>3. now = clock /\ (clock + Retry) % Wrap = clock + Retry
  BY <1>2, ModDiff DEF now
<1>4. (now - t) % Wrap = IF clock >= t THEN clock - t ELSE clock - t + Wrap
  BY <1>2, <1>3, ModDiff
<1>5. ASSUME clock < t
      PROVE  clock - t + Wrap >= Wrap \div 2
  <2>1. 2 * (Wrap \div 2) <= Wrap
    OBVIOUS
  <2> QED BY <1>1, <1>5, <2>1
<1>6. ASSUME NEW d \in Nat
      PROVE  Passed(t, d) <=> t + d <= clock
  BY <1>1, <1>2, <1>4, <1>5 DEF Passed
<1> QED BY <1>1, <1>3, <1>4, <1>6

LEMMA FlagsStart == HeartbeatInit => FlagsAgree
BY DEF HeartbeatInit, FlagsAgree

LEMMA FlagsStep ==
  ASSUME TypesApart, FlagsAgree, [HeartbeatNext]_vars
  PROVE  FlagsAgree'
<1> USE DEF code, net, seen, Heard, FlagsAgree, ProbeDue, StartDue
<1>1. CASE Answer BY FlagsAgree, <1>1 DEF Answer
<1>2. CASE ProbeAccepted BY FlagsAgree, <1>2 DEF ProbeAccepted
<1>3. CASE ProbeFails BY FlagsAgree, <1>3 DEF ProbeFails
<1>4. CASE Recover BY FlagsAgree, <1>4 DEF Recover
<1>5. CASE Connect BY FlagsAgree, <1>5 DEF Connect
<1>6. CASE Start BY FlagsAgree, <1>6 DEF Start
<1>7. CASE Send BY FlagsAgree, <1>7 DEF Send
<1>8. CASE Rediscover BY FlagsAgree, <1>8 DEF Rediscover
<1>9. CASE Enrolled BY FlagsAgree, <1>9 DEF Enrolled
<1>10. CASE SendNow BY FlagsAgree, <1>10 DEF SendNow
<1>11. CASE \E ms \in Intervals : SetInterval(ms) BY FlagsAgree, <1>11 DEF SetInterval
<1>12. CASE WifiLost BY FlagsAgree, <1>12 DEF WifiLost
<1>13. CASE WifiBack BY FlagsAgree, <1>13 DEF WifiBack
<1>14. CASE LinkLost BY FlagsAgree, <1>14 DEF LinkLost
<1>15. CASE ServerDies
  <2>1. connected' = connected \/ connected' = FALSE
    BY <1>15 DEF ServerDies
  <2>2. UNCHANGED <<running, hb_started, token_ok, wifi, phase>>
    BY <1>15 DEF ServerDies
  <2>3. connected' => connected
    BY <2>1
  <2> QED BY <2>2, <2>3
<1>16. CASE ServerBack BY FlagsAgree, <1>16 DEF ServerBack
<1>17. CASE TimePasses BY FlagsAgree, <1>17 DEF TimePasses
<1>18. CASE UNCHANGED vars BY FlagsAgree, <1>18 DEF vars
<1> QED
  BY <1>1, <1>2, <1>3, <1>4, <1>5, <1>6, <1>7, <1>8, <1>9, <1>10, <1>11, <1>12, <1>13,
     <1>14, <1>15, <1>16, <1>17, <1>18 DEF HeartbeatNext

LEMMA TimesStart ==
  HeartbeatInit => TimesAgree
BY HeartbeatConstants DEF HeartbeatInit, TimesAgree

LEMMA TimesStep ==
  ASSUME ClockIsShort, TypesApart, TimesAgree, [HeartbeatNext]_vars
  PROVE  TimesAgree'
<1> USE HeartbeatConstants
<1>t. /\ clock \in 1 .. MaxClock /\ unprobed \in Nat /\ unsent \in Nat /\ interval \in Nat
      /\ last_sent \in Nat /\ last_success \in Nat /\ https_hb_at \in Nat
      /\ running \in BOOLEAN /\ connected \in BOOLEAN
  BY DEF TypesApart, TimesAgree
<1>n. now = clock /\ (clock + Retry) % Wrap = clock + Retry
  <2>1. clock \in 0 .. clock + Retry
    BY <1>t
  <2> QED BY <1>t, <2>1, ShortTimes
<1>h. https_hb_at \in 0 .. clock + Retry
  BY <1>t DEF TimesAgree
<1> USE DEF code, net, seen, Heard, TimesAgree
<1>1. CASE Answer BY <1>t, <1>n, <1>1 DEF Answer
<1>2. CASE ProbeAccepted BY <1>t, <1>n, <1>2 DEF ProbeAccepted
<1>3. CASE ProbeFails
  <2>1. https_hb_at' = clock + Retry /\ unprobed' = 0
    BY <1>n, <1>3 DEF ProbeFails
  <2> QED BY <1>t, <1>3, <2>1 DEF ProbeFails
<1>4. CASE Recover BY <1>t, <1>n, <1>4 DEF Recover
<1>5. CASE Connect BY <1>t, <1>n, <1>5 DEF Connect
<1>6. CASE Start
  BY <1>t, <1>n, <1>6 DEF Start
<1>7. CASE Send BY <1>t, <1>n, <1>7 DEF Send
<1>8. CASE Rediscover BY <1>t, <1>n, <1>8 DEF Rediscover
<1>9. CASE Enrolled BY <1>t, <1>n, <1>9 DEF Enrolled
<1>10. CASE SendNow BY <1>t, <1>n, <1>10 DEF SendNow
<1>11. CASE \E ms \in Intervals : SetInterval(ms) BY <1>t, <1>n, <1>11 DEF SetInterval
<1>12. CASE WifiLost BY <1>t, <1>n, <1>12 DEF WifiLost
<1>13. CASE WifiBack BY <1>t, <1>n, <1>13 DEF WifiBack
<1>14. CASE LinkLost BY <1>t, <1>n, <1>14 DEF LinkLost
<1>15. CASE ServerDies BY <1>t, <1>n, <1>15 DEF ServerDies
<1>16. CASE ServerBack BY <1>t, <1>n, <1>16 DEF ServerBack
<1>17. CASE TimePasses
  <2>1. clock < MaxClock /\ clock' = clock + 1 /\ UNCHANGED code
    BY <1>17, CountsGrow
  <2>2. running => unsent' <= clock' - last_sent
    <3>1. unsent' \in Nat /\ unsent' <= unsent + 1
      BY <1>17, CountsGrow
    <3>2. running => unsent <= clock - last_sent
      OBVIOUS
    <3> QED BY <1>t, <2>1, <3>1, <3>2
  <2>3. unprobed' \in Nat /\ unprobed' <= unprobed + 1
    BY <1>17, CountsGrow
  <2>4. CASE wifi /\ phase = "done" /\ ~token_ok
    <3>1. ~Passed(https_hb_at, 0)
      BY <1>17, <2>4 DEF TimePasses, ProbeDue
    <3>2. https_hb_at > clock
      BY <1>t, <1>h, <3>1, ShortTimes
    <3>3. unprobed + (https_hb_at - clock) <= Retry
      BY <3>2
    <3>4. unprobed' <= Retry
      BY <1>t, <2>3, <3>2, <3>3
    <3>5. https_hb_at' > clock' => unprobed' + (https_hb_at' - clock') <= Retry
      <4>1. https_hb_at' = https_hb_at /\ clock' = clock + 1
        BY <2>1
      <4>2. ASSUME NEW n \in Nat, n <= unprobed + 1
            PROVE  n + (https_hb_at - (clock + 1)) <= Retry
        BY <1>t, <3>3, <4>2
      <4> QED BY <2>3, <4>1, <4>2
    <3> QED BY <1>t, <2>1, <2>2, <3>4, <3>5
  <2>5. CASE ~(wifi /\ phase = "done" /\ ~token_ok)
    <3>1. unprobed' = 0
      BY <1>17, <2>5 DEF TimePasses
    <3> QED BY <1>t, <2>1, <2>2, <3>1
  <2> QED BY <2>4, <2>5
<1>18. CASE UNCHANGED vars BY <1>t, <1>n, <1>18 DEF vars
<1> QED
  BY <1>1, <1>2, <1>3, <1>4, <1>5, <1>6, <1>7, <1>8, <1>9, <1>10, <1>11, <1>12, <1>13,
     <1>14, <1>15, <1>16, <1>17, <1>18 DEF HeartbeatNext

LEMMA AgeStart == HeartbeatInit => QuietIsAge
BY DEF HeartbeatInit, QuietIsAge

LEMMA AgeStep ==
  ASSUME ClockIsShort, TypesApart, TimesAgree, QuietIsAge, [HeartbeatNext]_vars
  PROVE  QuietIsAge'
<1>c. Stale \in Nat /\ Retry \in Nat
  BY HeartbeatConstants
<1>t. /\ clock \in 1 .. MaxClock /\ quiet \in Nat
      /\ last_success \in Nat /\ last_success <= clock /\ token_ok \in BOOLEAN
  BY DEF TypesApart, TimesAgree
<1>n. now = clock
  <2>1. clock \in 0 .. clock + Retry
    BY <1>c, <1>t
  <2> QED BY <1>t, <2>1, ShortTimes
<1> USE DEF code, net, seen, Heard, QuietIsAge
<1>1. CASE Answer BY <1>c, <1>t, <1>n, <1>1 DEF Answer
<1>2. CASE ProbeAccepted BY <1>c, <1>t, <1>n, <1>2 DEF ProbeAccepted
<1>3. CASE ProbeFails BY <1>t, <1>n, <1>3 DEF ProbeFails
<1>4. CASE Recover BY <1>t, <1>n, <1>4 DEF Recover
<1>5. CASE Connect BY <1>t, <1>n, <1>5 DEF Connect
<1>6. CASE Start BY <1>t, <1>n, <1>6 DEF Start
<1>7. CASE Send BY <1>t, <1>n, <1>7 DEF Send
<1>8. CASE Rediscover BY <1>t, <1>n, <1>8 DEF Rediscover
<1>9. CASE Enrolled BY <1>t, <1>n, <1>9 DEF Enrolled
<1>10. CASE SendNow BY <1>t, <1>n, <1>10 DEF SendNow
<1>11. CASE \E ms \in Intervals : SetInterval(ms) BY <1>t, <1>n, <1>11 DEF SetInterval
<1>12. CASE WifiLost BY <1>t, <1>n, <1>12 DEF WifiLost
<1>13. CASE WifiBack BY <1>t, <1>n, <1>13 DEF WifiBack
<1>14. CASE LinkLost BY <1>t, <1>n, <1>14 DEF LinkLost
<1>15. CASE ServerDies BY <1>t, <1>n, <1>15 DEF ServerDies
<1>16. CASE ServerBack BY <1>t, <1>n, <1>16 DEF ServerBack
<1>17. CASE TimePasses
  <2>1. clock' = clock + 1 /\ UNCHANGED code
    BY <1>17, CountsGrow
  <2>2. quiet' = IF quiet <= Stale THEN quiet + 1 ELSE quiet
    BY <1>17, CountsGrow
  <2>3. ASSUME last_success # 0
        PROVE  quiet' = IF clock + 1 - last_success <= Stale THEN clock + 1 - last_success
                                                             ELSE Stale + 1
    BY <1>c, <1>t, <2>2, <2>3
  <2>4. last_success' = last_success /\ token_ok' = token_ok /\ (token_ok => last_success # 0)
    BY <2>1
  <2>5. clock' - last_success' = clock + 1 - last_success
    BY <1>t, <2>1, <2>4
  <2>6. token_ok' => last_success' # 0
    BY <2>4
  <2>7. last_success' # 0 =>
          quiet' = IF clock' - last_success' <= Stale THEN clock' - last_success' ELSE Stale + 1
    BY <2>3, <2>4, <2>5
  <2> HIDE DEF QuietIsAge
  <2> QED BY <2>6, <2>7 DEF QuietIsAge
<1>18. CASE UNCHANGED vars BY <1>t, <1>n, <1>18 DEF vars
<1> QED
  BY <1>1, <1>2, <1>3, <1>4, <1>5, <1>6, <1>7, <1>8, <1>9, <1>10, <1>11, <1>12, <1>13,
     <1>14, <1>15, <1>16, <1>17, <1>18 DEF HeartbeatNext

LEMMA SpentStart == WindowIsWide /\ HeartbeatInit => QuietIsSpent
BY HeartbeatConstants DEF HeartbeatInit, WindowIsWide, QuietIsSpent

LEMMA SpentStep ==
  ASSUME ClockIsShort, WindowIsWide, HeartbeatInv, QuietIsSpent, [HeartbeatNext]_vars
  PROVE  QuietIsSpent'
<1>c. /\ Stale \in Nat /\ MaxAnswer \in Nat /\ MaxOutage \in Nat /\ MinMs \in Nat
      /\ Retry \in Nat /\ Intervals \subseteq Nat
  BY HeartbeatConstants
<1>t. /\ clock \in 1 .. MaxClock /\ quiet \in Nat /\ unsent \in Nat /\ waited \in Nat
      /\ offline \in Nat /\ interval \in Nat /\ last_sent \in Nat /\ last_sent <= clock
      /\ running \in BOOLEAN /\ connected \in BOOLEAN /\ owed \in BOOLEAN /\ failed \in BOOLEAN
      /\ alive \in BOOLEAN /\ token_ok \in BOOLEAN /\ hb_started \in BOOLEAN /\ wifi \in BOOLEAN
  BY DEF HeartbeatInv, TypesApart, TimesAgree
<1>f. FlagsAgree /\ TypesApart
  BY DEF HeartbeatInv
<1> USE DEF code, net, seen, Heard
<1>1. CASE Answer BY <1>c, <1>t, <1>f, <1>1 DEF FlagsAgree, QuietIsSpent, Answer
<1>2. CASE ProbeAccepted
  BY <1>c, <1>t, <1>f, <1>2 DEF FlagsAgree, QuietIsSpent, ProbeAccepted, ProbeDue
<1>3. CASE ProbeFails BY <1>c, <1>t, <1>f, <1>3 DEF FlagsAgree, QuietIsSpent, ProbeFails
<1>4. CASE Recover BY <1>c, <1>t, <1>f, <1>4 DEF FlagsAgree, QuietIsSpent, Recover
<1>5. CASE Connect BY <1>c, <1>t, <1>f, <1>5 DEF FlagsAgree, QuietIsSpent, Connect
<1>6. CASE Start
  BY <1>c, <1>t, <1>f, <1>6 DEF FlagsAgree, QuietIsSpent, Start, StartDue
<1>7. CASE Send BY <1>c, <1>t, <1>f, <1>7 DEF FlagsAgree, QuietIsSpent, Send
<1>8. CASE Rediscover BY <1>c, <1>t, <1>f, <1>8 DEF FlagsAgree, QuietIsSpent, Rediscover
<1>9. CASE Enrolled BY <1>c, <1>t, <1>f, <1>9 DEF FlagsAgree, QuietIsSpent, Enrolled
<1>10. CASE SendNow BY <1>c, <1>t, <1>f, <1>10 DEF FlagsAgree, QuietIsSpent, SendNow
<1>11. CASE \E ms \in Intervals : SetInterval(ms)
  <2>1. PICK ms \in Intervals : SetInterval(ms)
    BY <1>11
  <2>2. interval' = IF ms < MinMs THEN MinMs ELSE ms
    BY <2>1 DEF SetInterval
  <2>3. interval' + MaxAnswer + MaxOutage <= Stale
    BY <1>c, <2>2 DEF WindowIsWide
  <2> QED BY <1>c, <1>t, <1>f, <2>1, <2>3 DEF SetInterval, QuietIsSpent, FlagsAgree, QuietIsSpent
<1>12. CASE WifiLost BY <1>c, <1>t, <1>f, <1>12 DEF FlagsAgree, QuietIsSpent, WifiLost
<1>13. CASE WifiBack BY <1>c, <1>t, <1>f, <1>13 DEF FlagsAgree, QuietIsSpent, WifiBack
<1>14. CASE LinkLost BY <1>c, <1>t, <1>f, <1>14 DEF FlagsAgree, QuietIsSpent, LinkLost
<1>15. CASE ServerDies BY <1>c, <1>t, <1>f, <1>15 DEF FlagsAgree, QuietIsSpent, ServerDies
<1>16. CASE ServerBack BY <1>c, <1>t, <1>f, <1>16 DEF FlagsAgree, QuietIsSpent, ServerBack
<1>17. CASE TimePasses
  <2>1. UNCHANGED <<code, net, owed, failed>>
    BY <1>f, <1>17, CountsGrow
  <2>f. (running <=> hb_started) /\ (hb_started => token_ok) /\ (connected => wifi /\ token_ok)
        /\ (token_ok => phase = "done") /\ (~failed => alive)
    BY <1>f DEF FlagsAgree, QuietIsSpent
  <2>q. PICK q \in Nat : q = quiet'
    <3>1. quiet' = IF quiet <= Stale THEN quiet + 1 ELSE quiet
      BY <1>f, <1>17, CountsGrow
    <3> QED BY <1>t, <3>1
  <2>u. PICK u \in Nat : u = unsent'
    BY <1>f, <1>17, CountsGrow
  <2>w. PICK w \in Nat : w = waited'
    BY <1>f, <1>17, CountsGrow
  <2>o. PICK o \in Nat : o = offline'
    BY <1>f, <1>17, CountsGrow
  <2>g. q <= quiet + 1 /\ u <= unsent + 1 /\ w >= waited /\ o >= offline
    <3>1. quiet' = IF quiet <= Stale THEN quiet + 1 ELSE quiet
      BY <1>f, <1>17, CountsGrow
    <3>2. q <= quiet + 1
      BY <1>c, <1>t, <2>q, <3>1
    <3>3. unsent' <= unsent + 1 /\ waited' >= waited /\ offline' >= offline
      BY <1>f, <1>17, CountsGrow
    <3> QED BY <2>u, <2>w, <2>o, <3>2, <3>3
  <2>2. w <= MaxAnswer /\ o <= MaxOutage
    BY <1>f, <1>17, <2>w, <2>o, CountsGrow DEF QuietIsSpent
  <2>3. ASSUME running, connected
        PROVE  unsent + 1 + MaxAnswer + MaxOutage <= Stale /\ u = unsent + 1
    <3>1. ~SendDue /\ wifi /\ phase = "done" /\ token_ok
      BY <2>f, <1>17, <2>3 DEF TimePasses
    <3>2. ~Passed(last_sent, interval)
      BY <2>3, <3>1 DEF SendDue
    <3>3. last_sent \in 0 .. clock + Retry
      BY <1>c, <1>t
    <3>4. clock < last_sent + interval
      BY <1>c, <1>t, <3>2, <3>3, ShortTimes
    <3>5. unsent <= clock - last_sent
      BY <2>3 DEF HeartbeatInv, TimesAgree
    <3>6. unsent < interval
      BY <1>c, <1>t, <3>4, <3>5
    <3>7. u = unsent + 1
      BY <1>c, <1>t, <1>f, <1>17, <2>u, <2>3, <3>6, CountsGrow
    <3>8. interval + MaxAnswer + MaxOutage <= Stale
      BY DEF QuietIsSpent
    <3> QED BY <1>c, <1>t, <3>6, <3>7, <3>8
  <2>4. ASSUME running
        PROVE  u + MaxAnswer + MaxOutage <= Stale
    <3>1. CASE connected
      BY <1>c, <1>t, <2>3, <2>4, <3>1
    <3>2. CASE ~connected
      <4>1. u = unsent
        BY <1>f, <1>17, <2>u, <3>2, CountsGrow
      <4> QED BY <2>4, <4>1 DEF QuietIsSpent
    <3> QED BY <3>1, <3>2
  <2>5. ASSUME ~failed, token_ok, ~connected
        PROVE  o = offline + 1
    <3>1. offline < MaxOutage
      BY <2>f, <1>17, <2>5 DEF TimePasses
    <3> QED BY <1>f, <1>17, <2>o, <2>5, <3>1, CountsGrow
  <2>6. ASSUME ~failed, connected, owed
        PROVE  w = waited + 1
    <3>1. waited < MaxAnswer
      BY <2>f, <1>17, <2>6 DEF TimePasses
    <3> QED BY <1>f, <1>17, <2>w, <2>6, <3>1, CountsGrow
  <2>7. ASSUME token_ok, ~hb_started, ~failed
        PROVE  q <= o + w
    <3>1. ~connected
      BY <2>f, <1>17, <2>7 DEF TimePasses, StartDue
    <3>2. quiet <= offline + waited
      BY <2>7 DEF QuietIsSpent
    <3>3. o = offline + 1
      BY <2>5, <2>7, <3>1
    <3> QED BY <1>c, <1>t, <2>g, <3>2, <3>3
  <2>8. ASSUME hb_started, ~failed, ~owed
        PROVE  q <= o + w + u
    <3>1. quiet <= offline + waited + unsent
      BY <2>8 DEF QuietIsSpent
    <3>2. CASE connected
      <4>1. u = unsent + 1
        BY <2>f, <2>3, <2>8, <3>2
      <4> QED BY <1>c, <1>t, <2>g, <3>1, <4>1
    <3>3. CASE ~connected
      <4>1. o = offline + 1
        BY <2>f, <2>5, <2>8, <3>3
      <4>2. u = unsent
        BY <1>f, <1>17, <2>u, <3>3, CountsGrow
      <4> QED BY <1>c, <1>t, <2>g, <3>1, <4>1, <4>2
    <3> QED BY <3>2, <3>3
  <2>9. ASSUME hb_started, ~failed
        PROVE  q + MaxAnswer + MaxOutage <= o + w + Stale
    <3>1. quiet + MaxAnswer + MaxOutage <= offline + waited + Stale
      BY <2>9 DEF QuietIsSpent
    <3>2. CASE ~owed
      <4>1. q <= o + w + u
        BY <2>8, <2>9, <3>2
      <4>2. u + MaxAnswer + MaxOutage <= Stale
        BY <2>f, <2>4, <2>9
      <4> QED BY <1>c, <1>t, <4>1, <4>2
    <3>3. CASE owed /\ connected
      <4>1. w = waited + 1
        BY <2>6, <2>9, <3>3
      <4> QED BY <1>c, <1>t, <2>g, <3>1, <4>1
    <3>4. CASE ~connected
      <4>1. o = offline + 1
        BY <2>f, <2>5, <2>9, <3>4
      <4> QED BY <1>c, <1>t, <2>g, <3>1, <4>1
    <3> QED BY <1>t, <3>2, <3>3, <3>4
  <2>10. interval' = interval /\ alive' = alive /\ failed' = failed /\ running' = running
         /\ token_ok' = token_ok /\ hb_started' = hb_started /\ owed' = owed
    BY <2>1
  <2>11. interval + MaxAnswer + MaxOutage <= Stale
    BY DEF QuietIsSpent
  <2> QED
    BY <2>f, <2>q, <2>u, <2>w, <2>o, <2>2, <2>4, <2>7, <2>8, <2>9, <2>10, <2>11
    DEF QuietIsSpent
<1>18. CASE UNCHANGED vars BY <1>c, <1>t, <1>f, <1>18 DEF FlagsAgree, QuietIsSpent, vars
<1> QED
  BY <1>1, <1>2, <1>3, <1>4, <1>5, <1>6, <1>7, <1>8, <1>9, <1>10, <1>11, <1>12, <1>13,
     <1>14, <1>15, <1>16, <1>17, <1>18 DEF FlagsAgree, QuietIsSpent, HeartbeatNext

(* Within half a turn of the counter, what the passes of loop() know of the *)
(* server is what is true of it.                                            *)
THEOREM HeartbeatInvariant ==
  ASSUME ClockIsShort
  PROVE  HeartbeatSpec => []HeartbeatInv
<1>1. HeartbeatInit => HeartbeatInv
  BY HeartbeatTypesStart, FlagsStart, TimesStart, AgeStart DEF HeartbeatInv
<1>2. HeartbeatInv /\ [HeartbeatNext]_vars => HeartbeatInv'
  BY HeartbeatTypesStep, FlagsStep, TimesStep, AgeStep DEF HeartbeatInv
<1> QED BY <1>1, <1>2, PTL DEF HeartbeatSpec

(* The pause after a failed probe and the interval of the heartbeats are    *)
(* kept.                                                                    *)
THEOREM HeartbeatsComeInTime ==
  ASSUME ClockIsShort
  PROVE  HeartbeatSpec => []HeartbeatsInTime
<1>1. ASSUME HeartbeatInv
      PROVE  ProbedInTime
  BY <1>1 DEF HeartbeatInv, TimesAgree, ProbedInTime
<1>2. ASSUME HeartbeatInv, hb_started, connected, ~(unsent <= interval)
      PROVE  SendDue
  <2>c. Retry \in Nat
    BY HeartbeatConstants
  <2>t. /\ clock \in 1 .. MaxClock /\ unsent \in Nat /\ interval \in Nat
        /\ last_sent \in Nat /\ last_sent <= clock
    BY <1>2 DEF HeartbeatInv, TypesApart, TimesAgree
  <2>1. wifi /\ phase = "done" /\ token_ok /\ running
    BY <1>2 DEF HeartbeatInv, FlagsAgree
  <2>2. unsent <= clock - last_sent
    BY <1>2, <2>1 DEF HeartbeatInv, TimesAgree
  <2>3. last_sent + interval <= clock
    BY <1>2, <2>t, <2>2
  <2>4. last_sent \in 0 .. clock + Retry
    BY <2>c, <2>t
  <2>5. Passed(last_sent, interval)
    BY <2>t, <2>3, <2>4, ShortTimes
  <2> QED BY <1>2, <2>1, <2>5 DEF SendDue
<1>3. HeartbeatInv => HeartbeatsInTime
  BY <1>1, <1>2 DEF HeartbeatsInTime, SentEveryInterval
<1> QED BY <1>3, HeartbeatInvariant, PTL

(* The window is over when the last answer is older than it.               *)
LEMMA SilenceIsAge ==
  ASSUME ClockIsShort, HeartbeatInv
  PROVE  Silent <=> last_success # 0 /\ clock - last_success > Stale
<1>c. Retry \in Nat /\ Stale \in Nat
  BY HeartbeatConstants
<1>1. clock \in 1 .. MaxClock /\ last_success \in 0 .. clock + Retry /\ last_success <= clock
  BY <1>c DEF HeartbeatInv, TypesApart, TimesAgree
<1>2. (now - last_success) % Wrap = clock - last_success
  BY <1>1, ShortTimes
<1> QED BY <1>2 DEF Silent

(* No server that is silent is kept: once the window is over the next pass  *)
(* gives it up.                                                             *)
LEMMA SilentIsGivenUp ==
  ASSUME ClockIsShort
  PROVE  HeartbeatSpec => SilentServerGivenUp
<1>1. ASSUME HeartbeatInv, [HeartbeatNext]_vars, clock' # clock
      PROVE  TimePasses
  BY <1>1 DEF HeartbeatNext, vars, code, net, seen, Answer, ProbeAccepted, ProbeFails,
              Recover, Connect, Start, Send, Rediscover, Enrolled, SendNow, SetInterval,
              WifiLost, WifiBack, LinkLost, ServerDies, ServerBack
<1>2. ASSUME HeartbeatInv, TimePasses, wifi, hb_started
      PROVE  quiet <= Stale
  <2>1. token_ok /\ phase = "done" /\ last_success # 0
    BY <1>2 DEF HeartbeatInv, FlagsAgree, QuietIsAge
  <2>2. ~Silent
    BY <1>2, <2>1 DEF TimePasses, StaleDue
  <2>3. Stale \in Nat /\ clock \in Nat /\ last_success \in Nat
    BY <1>2, HeartbeatConstants DEF HeartbeatInv, TypesApart
  <2>4. clock - last_success <= Stale
    BY <1>2, <2>1, <2>2, <2>3, SilenceIsAge
  <2>5. quiet = clock - last_success
    BY <1>2, <2>1, <2>4 DEF HeartbeatInv, QuietIsAge
  <2> QED BY <2>4, <2>5
<1>3. HeartbeatInv /\ [HeartbeatNext]_vars => [clock' # clock /\ wifi /\ hb_started => quiet <= Stale]_vars
  BY <1>1, <1>2
<1> QED BY <1>3, HeartbeatInvariant, PTL DEF HeartbeatSpec, SilentServerGivenUp

(* No server that answers is given up: when the window is over, the server  *)
(* was down at some time since its last answer.                             *)
LEMMA AnsweringIsKept ==
  ASSUME ClockIsShort, WindowIsWide
  PROVE  HeartbeatSpec => AnsweringServerKept
<1>1. HeartbeatInit => HeartbeatInv /\ QuietIsSpent
  BY HeartbeatTypesStart, FlagsStart, TimesStart, AgeStart, SpentStart DEF HeartbeatInv
<1>2. HeartbeatInv /\ QuietIsSpent /\ [HeartbeatNext]_vars => HeartbeatInv' /\ QuietIsSpent'
  BY HeartbeatTypesStep, FlagsStep, TimesStep, AgeStep, SpentStep DEF HeartbeatInv
<1>3. ASSUME HeartbeatInv, QuietIsSpent, Rediscover
      PROVE  failed
  <2>1. hb_started /\ last_success # 0 /\ clock - last_success > Stale
    BY <1>3, SilenceIsAge DEF Rediscover, StaleDue, Silent
  <2>c. Stale \in Nat /\ MaxAnswer \in Nat /\ MaxOutage \in Nat
    BY HeartbeatConstants
  <2>t. clock \in Nat /\ last_success \in Nat /\ quiet \in Nat /\ offline \in Nat /\ waited \in Nat
        /\ failed \in BOOLEAN
    BY <1>3 DEF HeartbeatInv, TypesApart
  <2>2. quiet = Stale + 1
    BY <1>3, <2>1, <2>c, <2>t DEF HeartbeatInv, QuietIsAge
  <2>3. ASSUME ~failed
        PROVE  FALSE
    <3>1. quiet + MaxAnswer + MaxOutage <= offline + waited + Stale
      BY <1>3, <2>1, <2>3 DEF QuietIsSpent
    <3>2. waited <= MaxAnswer /\ offline <= MaxOutage
      BY <1>3 DEF QuietIsSpent
    <3> QED BY <2>c, <2>t, <2>2, <3>1, <3>2
  <2> QED BY <2>3
<1>4. HeartbeatInv /\ QuietIsSpent /\ [HeartbeatNext]_vars => [Rediscover => failed]_vars
  BY <1>3
<1> QED BY <1>1, <1>2, <1>4, PTL DEF HeartbeatSpec, AnsweringServerKept

-----------------------------------------------------------------------------
(* Commands: the table that on() fills while messages are dispatched.        *)

LEMMA CommandConstants ==
  /\ Dispatcher!NoName \notin Names /\ MaxHandlers \in Nat /\ MaxMessages \in Nat
  /\ Delay \in Nat \ {0} /\ Slow \in Nat /\ Turn \in Nat \ {0}
BY RepliesAssumption DEF Dispatcher!CommandsAssumption

(* The smallest number of a set that has one. *)
LEMMA MinIsLeast ==
  ASSUME NEW S \in SUBSET Nat, NEW n \in S
  PROVE  Dispatcher!Min(S) \in S /\ \A i \in S : Dispatcher!Min(S) <= i
<1>1. PICK x \in S : \A y \in S : ~ (<<y, x>> \in OpToRel(<, Nat))
  BY NatLessThanWellFounded, WFMin, Zenon
<1>2. x \in Nat /\ \A y \in S : ~(y < x)
  BY <1>1, Zenon DEF OpToRel
<1>3. \A y \in S : x <= y
  BY <1>2
<1> QED BY <1>3 DEF Dispatcher!Min

(* What a sequence is after one of its elements changed. *)
LEMMA EntryChanged ==
  ASSUME NEW S, NEW s \in Seq(S), NEW i \in 1 .. Len(s), NEW e \in S,
         NEW t, t = [s EXCEPT ![i] = e]
  PROVE  /\ t \in Seq(S) /\ Len(t) = Len(s) /\ DOMAIN t = DOMAIN s /\ t[i] = e
         /\ \A j \in 1 .. Len(s) : j # i => t[j] = s[j]
OBVIOUS

LEMMA EntryFields ==
  ASSUME NEW N, NEW r \in [name : N, ready : BOOLEAN], NEW n \in N
  PROVE  /\ [r EXCEPT !.name = n] \in [name : N, ready : BOOLEAN]
         /\ [r EXCEPT !.name = n].ready = r.ready
         /\ [r EXCEPT !.ready = TRUE] \in [name : N, ready : BOOLEAN]
         /\ [r EXCEPT !.ready = TRUE].ready
OBVIOUS

(* An entry of the table. *)
TableEntry == [name : Names \cup {Dispatcher!NoName}, ready : BOOLEAN]

(* on() adds an entry at the end, and leaves no other unready.              *)
TableGrows ==
  /\ adding \in Names \cup {Dispatcher!NoName}
  /\ table \in Seq(TableEntry) /\ Len(table) <= MaxHandlers
  /\ \A i \in 1 .. Len(table) : i < Len(table) \/ adding = Dispatcher!NoName => table[i].ready
  /\ adding # Dispatcher!NoName => Len(table) > 0 /\ ~table[Len(table)].ready

(* What a message was received with stays true of it.                       *)
MessageFits ==
  /\ at \in {"idle", "match", "handler", "builtin"}
  /\ at # "idle" => message \in Messages
  /\ known \subseteq Dispatcher!Ready
  /\ at \in {"handler", "builtin"} /\ Dispatcher!Command \in known => calls # <<>>

(* millis() stays below its modulus.                                        *)
TimesFit == reboot_at \in 0 .. Turn - 1 /\ ticks \in 0 .. Turn - 1 /\ since \in 0 .. Delay

(* The strengthening of RegisteredIsCalled that every step preserves.       *)
CommandInv == TableGrows /\ MessageFits /\ TimesFit

LEMMA CommandStart == Dispatcher!Init => CommandInv
<1> SUFFICES ASSUME Dispatcher!Init
             PROVE  CommandInv
  OBVIOUS
<1>1. TableGrows
  BY CommandConstants DEF Dispatcher!Init, TableGrows
<1>2. MessageFits
  BY DEF Dispatcher!Init, MessageFits
<1>3. TimesFit
  BY CommandConstants DEF Dispatcher!Init, TimesFit
<1> QED BY <1>1, <1>2, <1>3 DEF CommandInv

(* A name that is ready is ready after every step.                          *)
LEMMA TableStep ==
  ASSUME TableGrows, [Dispatcher!Next]_(Dispatcher!vars)
  PROVE  TableGrows' /\ Dispatcher!Ready \subseteq Dispatcher!Ready'
<1> USE DEF TableGrows
<1>1. ASSUME UNCHANGED <<table, adding>>
      PROVE  TableGrows' /\ Dispatcher!Ready \subseteq Dispatcher!Ready'
  BY <1>1 DEF Dispatcher!Ready
<1>2. ASSUME NEW n \in Names, Dispatcher!On(n)
      PROVE  TableGrows' /\ Dispatcher!Ready \subseteq Dispatcher!Ready'
  <2> DEFINE e == [name |-> Dispatcher!NoName, ready |-> FALSE]
  <2>1. /\ adding = Dispatcher!NoName /\ adding' = n /\ n # Dispatcher!NoName
        /\ Len(table) < MaxHandlers /\ table' = Append(table, e)
    BY <1>2, CommandConstants DEF Dispatcher!On
  <2>2. e \in TableEntry /\ ~e.ready
    BY DEF TableEntry
  <2> HIDE DEF e
  <2>3. /\ table' \in Seq(TableEntry)
        /\ Len(table') = Len(table) + 1 /\ table'[Len(table) + 1] = e
        /\ \A i \in 1 .. Len(table) : table'[i] = table[i]
    BY <2>1, <2>2
  <2>4. Len(table) \in Nat /\ MaxHandlers \in Nat
    BY CommandConstants
  <2>5. \A i \in 1 .. Len(table) : table[i].ready
    BY <2>1
  <2>6. \A i \in 1 .. Len(table') : i < Len(table') \/ adding' = Dispatcher!NoName => table'[i].ready
    BY <2>1, <2>3, <2>4, <2>5
  <2>7. TableGrows'
    BY <2>1, <2>2, <2>3, <2>4, <2>6
  <2>8. DOMAIN table = 1 .. Len(table) /\ DOMAIN table' = 1 .. (Len(table) + 1)
    BY <2>3
  <2>9. Dispatcher!Ready \subseteq Dispatcher!Ready'
    <3>1. ASSUME NEW i \in DOMAIN table, table[i].ready
          PROVE  table[i].name \in Dispatcher!Ready'
      <4>1. i \in DOMAIN table' /\ table'[i] = table[i]
        BY <2>3, <2>4, <2>8
      <4> QED BY <3>1, <4>1 DEF Dispatcher!Ready
    <3> QED BY <3>1 DEF Dispatcher!Ready
  <2> QED BY <2>7, <2>9
<1>3. ASSUME Dispatcher!OnNames
      PROVE  TableGrows' /\ Dispatcher!Ready \subseteq Dispatcher!Ready'
  <2> DEFINE last == Len(table)
  <2>1. /\ adding # Dispatcher!NoName /\ adding' = adding
        /\ table' = [table EXCEPT ![last].name = adding]
    BY <1>3 DEF Dispatcher!OnNames
  <2>2. last \in 1 .. Len(table) /\ DOMAIN table = 1 .. Len(table) /\ ~table[last].ready
    BY <2>1
  <2>3. table[last] \in TableEntry
    BY <2>2
  <2>4. [table[last] EXCEPT !.name = adding] \in TableEntry
        /\ [table[last] EXCEPT !.name = adding].ready = table[last].ready
    <3> HIDE DEF last
    <3>1. adding \in Names \cup {Dispatcher!NoName}
      OBVIOUS
    <3> QED BY <2>3, <3>1, EntryFields, Zenon DEF TableEntry
  <2>5. /\ table' \in Seq(TableEntry)
        /\ Len(table') = Len(table) /\ DOMAIN table' = DOMAIN table
        /\ \A i \in 1 .. Len(table) : i # last => table'[i] = table[i]
        /\ table'[last].ready = table[last].ready
    <3> DEFINE e == [table[last] EXCEPT !.name = adding]
    <3>1. e \in TableEntry /\ e.ready = table[last].ready
      BY <2>4
    <3>2. table' = [table EXCEPT ![last] = e]
      BY <2>1
    <3>3. table \in Seq(TableEntry) /\ last \in 1 .. Len(table) /\ e \in TableEntry
      BY <2>2, <3>1
    <3> HIDE DEF e, last
    <3> QED BY <3>1, <3>2, <3>3, EntryChanged
  <2>6. TableGrows'
    BY <2>1, <2>2, <2>5 DEF TableEntry
  <2>7. Dispatcher!Ready \subseteq Dispatcher!Ready'
    <3>1. ASSUME NEW i \in DOMAIN table, table[i].ready
          PROVE  table[i].name \in Dispatcher!Ready'
      <4>1. i \in DOMAIN table' /\ table'[i] = table[i]
        BY <2>2, <2>5, <3>1
      <4> QED BY <3>1, <4>1 DEF Dispatcher!Ready
    <3> QED BY <3>1 DEF Dispatcher!Ready
  <2> QED BY <2>6, <2>7
<1>4. ASSUME Dispatcher!OnReturns
      PROVE  TableGrows' /\ Dispatcher!Ready \subseteq Dispatcher!Ready'
  <2> DEFINE last == Len(table)
  <2>1. /\ adding # Dispatcher!NoName /\ adding' = Dispatcher!NoName
        /\ table' = [table EXCEPT ![last].ready = TRUE]
    BY <1>4 DEF Dispatcher!OnReturns
  <2>2. last \in 1 .. Len(table) /\ DOMAIN table = 1 .. Len(table) /\ ~table[last].ready
    BY <2>1
  <2>3. table[last] \in TableEntry
    BY <2>2
  <2>4. [table[last] EXCEPT !.ready = TRUE] \in TableEntry
        /\ [table[last] EXCEPT !.ready = TRUE].ready
    <3> HIDE DEF last
    <3>1. adding \in Names \cup {Dispatcher!NoName}
      OBVIOUS
    <3> QED BY <2>3, <3>1, EntryFields, Zenon DEF TableEntry
  <2>5. /\ table' \in Seq(TableEntry)
        /\ Len(table') = Len(table) /\ DOMAIN table' = DOMAIN table
        /\ \A i \in 1 .. Len(table) : i # last => table'[i] = table[i]
        /\ table'[last].ready
    <3> DEFINE e == [table[last] EXCEPT !.ready = TRUE]
    <3>1. e \in TableEntry /\ e.ready
      BY <2>4
    <3>2. table' = [table EXCEPT ![last] = e]
      BY <2>1
    <3>3. table \in Seq(TableEntry) /\ last \in 1 .. Len(table) /\ e \in TableEntry
      BY <2>2, <3>1
    <3> HIDE DEF e, last
    <3> QED BY <3>1, <3>2, <3>3, EntryChanged
  <2>6. TableGrows'
    BY <2>1, <2>2, <2>5 DEF TableEntry
  <2>7. Dispatcher!Ready \subseteq Dispatcher!Ready'
    <3>1. ASSUME NEW i \in DOMAIN table, table[i].ready
          PROVE  table[i].name \in Dispatcher!Ready'
      <4>1. i \in DOMAIN table' /\ table'[i] = table[i]
        BY <2>2, <2>5, <3>1
      <4> QED BY <3>1, <4>1 DEF Dispatcher!Ready
    <3> QED BY <3>1 DEF Dispatcher!Ready
  <2> QED BY <2>6, <2>7
<1> QED
  BY <1>1, <1>2, <1>3, <1>4 DEF Dispatcher!Next, Dispatcher!vars, Dispatcher!Sketch,
                                Dispatcher!Dispatch, Dispatcher!Receive,
                                Dispatcher!Match, Dispatcher!HandlerReturns,
                                Dispatcher!Builtin, Dispatcher!Restart, Dispatcher!Tick

(* The first entry of a name that is ready is ready itself: those before it *)
(* were there before it.                                                    *)
LEMMA ReadyIsCallable ==
  ASSUME TableGrows, Dispatcher!Command \in Dispatcher!Ready
  PROVE  Dispatcher!Callable
<1> DEFINE M == Dispatcher!Matches
           first == Dispatcher!Min(M)
<1>d. DOMAIN table = 1 .. Len(table) /\ Len(table) \in Nat
  BY DEF TableGrows
<1>1. PICK i \in DOMAIN table : table[i].ready /\ table[i].name = Dispatcher!Command
  BY DEF Dispatcher!Ready
<1>2. i \in M /\ M \in SUBSET Nat /\ M \subseteq 1 .. Len(table)
  BY <1>d, <1>1 DEF Dispatcher!Matches
<1> HIDE DEF M
<1>3. first \in M /\ first <= i
  BY <1>2, MinIsLeast
<1> HIDE DEF first
<1>4. table[first].ready
  <2>1. CASE first = i
    BY <1>1, <2>1
  <2>2. CASE first # i
    <3>1. first \in 1 .. Len(table) /\ first < Len(table)
      BY <1>d, <1>1, <1>2, <1>3, <2>2
    <3> QED BY <3>1 DEF TableGrows
  <2> QED BY <2>1, <2>2
<1> QED BY <1>2, <1>4 DEF M, first, Dispatcher!Callable

LEMMA MessageStep ==
  ASSUME TableGrows, MessageFits, [Dispatcher!Next]_(Dispatcher!vars)
  PROVE  MessageFits'
<1>r. Dispatcher!Ready \subseteq Dispatcher!Ready'
  BY TableStep
<1> USE DEF MessageFits
<1>1. ASSUME UNCHANGED <<at, message, known, calls>>
      PROVE  MessageFits'
  <2>1. known' \subseteq Dispatcher!Ready'
    BY <1>r, <1>1
  <2>2. Dispatcher!Command' = Dispatcher!Command
    BY <1>1 DEF Dispatcher!Command
  <2> QED BY <1>1, <2>1, <2>2
<1>2. ASSUME NEW m \in Messages, Dispatcher!Receive(m)
      PROVE  MessageFits'
  <2>1. at' = "match" /\ message' = m /\ known' = Dispatcher!Ready
    BY <1>2 DEF Dispatcher!Receive
  <2> QED BY <1>r, <2>1
<1>3. ASSUME Dispatcher!Match
      PROVE  MessageFits'
  <2>1. /\ at = "match" /\ at' = IF Dispatcher!Callable THEN "handler" ELSE "builtin"
        /\ message' = message /\ known' = known
        /\ Dispatcher!Callable => calls' = <<[name |-> Dispatcher!Command, value |-> Dispatcher!Extracted]>>
    BY <1>3 DEF Dispatcher!Match
  <2>2. Dispatcher!Command' = Dispatcher!Command
    BY <2>1 DEF Dispatcher!Command
  <2>3. Dispatcher!Command' \in known' => calls' # <<>>
    <3>1. Dispatcher!Command \in known => Dispatcher!Callable
      BY ReadyIsCallable
    <3> QED BY <2>1, <2>2, <3>1
  <2> QED BY <1>r, <2>1, <2>3
<1>4. ASSUME Dispatcher!HandlerReturns
      PROVE  MessageFits'
  <2>1. at = "handler" /\ at' = "builtin" /\ message' = message /\ known' = known /\ calls' = calls
    BY <1>4 DEF Dispatcher!HandlerReturns
  <2>2. Dispatcher!Command' = Dispatcher!Command
    BY <2>1 DEF Dispatcher!Command
  <2> QED BY <1>r, <2>1, <2>2
<1>5. ASSUME Dispatcher!Builtin
      PROVE  MessageFits'
  BY <1>r, <1>5 DEF Dispatcher!Builtin
<1> QED
  BY <1>1, <1>2, <1>3, <1>4, <1>5 DEF Dispatcher!Next, Dispatcher!vars, Dispatcher!rx,
                                      Dispatcher!Sketch, Dispatcher!Dispatch,
                                      Dispatcher!On, Dispatcher!OnNames,
                                      Dispatcher!OnReturns, Dispatcher!Restart,
                                      Dispatcher!Tick

LEMMA TimesFitStep ==
  ASSUME TimesFit, [Dispatcher!Next]_(Dispatcher!vars)
  PROVE  TimesFit'
<1>c. Delay \in Nat \ {0} /\ Turn \in Nat \ {0}
  BY CommandConstants
<1>t. reboot_at \in 0 .. Turn - 1 /\ ticks \in 0 .. Turn - 1 /\ since \in 0 .. Delay
  BY DEF TimesFit
<1>1. ASSUME UNCHANGED <<reboot_at, ticks, since>>
      PROVE  TimesFit'
  BY <1>t, <1>1 DEF TimesFit
<1>2. ASSUME Dispatcher!HandlerReturns
      PROVE  TimesFit'
  <2>1. reboot_at' = reboot_at /\ ticks' = ticks /\ since' \in {0, since}
    BY <1>2 DEF Dispatcher!HandlerReturns
  <2> QED BY <1>c, <1>t, <2>1 DEF TimesFit
<1>3. ASSUME Dispatcher!Builtin
      PROVE  TimesFit'
  <2>1. Dispatcher!RebootTime \in 0 .. Turn - 1
    BY <1>c, <1>t DEF Dispatcher!RebootTime
  <2>2. reboot_at' \in {reboot_at, Dispatcher!RebootTime} /\ ticks' = ticks /\ since' = since
    BY <1>3 DEF Dispatcher!Builtin
  <2> QED BY <1>t, <2>1, <2>2 DEF TimesFit
<1>4. ASSUME Dispatcher!Tick
      PROVE  TimesFit'
  <2> DEFINE both == {since + 1, Delay}
  <2>1. ticks' = (ticks + 1) % Turn /\ since' = Dispatcher!Min(both) /\ reboot_at' = reboot_at
    BY <1>4 DEF Dispatcher!Tick
  <2>2. since + 1 \in both /\ Delay \in both /\ both \in SUBSET Nat
    BY <1>c, <1>t
  <2>3. since' \in Nat /\ since' <= Delay
    <3> HIDE DEF both
    <3>1. Dispatcher!Min(both) \in both /\ Dispatcher!Min(both) <= Delay
      BY <2>2, MinIsLeast
    <3> QED BY <2>1, <2>2, <3>1
  <2>4. ticks' \in 0 .. Turn - 1
    <3> HIDE DEF both
    <3>1. (ticks + 1) % Turn \in 0 .. Turn - 1
      BY <1>c, <1>t
    <3> QED BY <2>1, <3>1
  <2> HIDE DEF both
  <2> QED BY <1>c, <1>t, <2>1, <2>3, <2>4 DEF TimesFit
<1> QED
  BY <1>1, <1>2, <1>3, <1>4 DEF Dispatcher!Next, Dispatcher!vars, Dispatcher!time,
                                Dispatcher!Sketch, Dispatcher!Dispatch, Dispatcher!On,
                                Dispatcher!OnNames, Dispatcher!OnReturns,
                                Dispatcher!Receive, Dispatcher!Match, Dispatcher!Restart

(* The commands on their own.                                               *)
LEMMA CommandsHold == Dispatcher!CommandsSpec => []CommandInv
<1>1. CommandInv /\ [Dispatcher!Next]_(Dispatcher!vars) => CommandInv'
  BY TableStep, MessageStep, TimesFitStep DEF CommandInv
<1> QED BY <1>1, CommandStart, PTL DEF Dispatcher!CommandsSpec

-----------------------------------------------------------------------------
(* The three together. *)

(* A behaviour moves one part, and what the others do is no step of theirs. *)
LEMMA RepliesAreAll == RepliesSpec => ConfigSpec /\ HeartbeatSpec /\ Dispatcher!CommandsSpec
<1>1. RepliesInit => ConfigInit /\ HeartbeatInit /\ Dispatcher!Init
  BY DEF RepliesInit
<1>2. ASSUME [RepliesNext]_RepliesVars
      PROVE  [ConfigNext]_configVars /\ [HeartbeatNext]_vars /\ [Dispatcher!Next]_(Dispatcher!vars)
  <2>1. UNCHANGED commandVars => UNCHANGED Dispatcher!vars
    BY DEF commandVars, Dispatcher!vars, Dispatcher!rx, Dispatcher!time
  <2> QED BY <1>2, <2>1 DEF RepliesNext, RepliesVars
<1> QED BY <1>1, <1>2, PTL DEF RepliesSpec, ConfigSpec, HeartbeatSpec, Dispatcher!CommandsSpec

(* Within half a turn of the counter, and with a window that has room for   *)
(* an interval, an answer and an outage, a server is given up when it is    *)
(* silent, and only then.                                                   *)
THEOREM ServerIsGivenUp ==
  ASSUME ClockIsShort, WindowIsWide
  PROVE  RepliesSpec => SilentGivenUp
BY RepliesAreAll, SilentIsGivenUp, AnsweringIsKept, PTL DEF SilentGivenUp

(* A handler that on() had registered when the command arrived is called,   *)
(* while on() registers others, for any messages and any size of the table. *)
THEOREM RegisteredAreCalled == RepliesSpec => []RegisteredIsCalled
<1>1. CommandInv => RegisteredIsCalled
  BY DEF CommandInv, MessageFits, RegisteredIsCalled, Dispatcher!RegisteredIsCalled
<1> QED BY <1>1, RepliesAreAll, CommandsHold, PTL

(* The types of the three parts. *)
THEOREM RepliesTypesHold == ASSUME Representable PROVE RepliesSpec => []RepliesTypeOK
<1>1. CommandInv => Dispatcher!CommandsTypeOK
  BY DEF CommandInv, TableGrows, MessageFits, TimesFit, Dispatcher!CommandsTypeOK
<1>2. ConfigTypeOK /\ HeartbeatTypeOK /\ CommandInv => RepliesTypeOK
  BY <1>1 DEF RepliesTypeOK
<1> QED BY <1>2, RepliesAreAll, ConfigTypesHold, HeartbeatTypesHold, CommandsHold, PTL
=============================================================================
