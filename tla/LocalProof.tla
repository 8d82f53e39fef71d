----------------------------- MODULE LocalProof -----------------------------
(* What the device promises where it stands, for any networks, lists,       *)
(* number of slots, retries, attempts and faults.                           *)
(*                                                                          *)
(* First the WiFi manager: it reports CONNECTED only with a link.  Then the *)
(* stored list, whose save() may be cut short at any write: the invariant   *)
(* says how far a save has come, who may be saving, and that no slot names  *)
(* a network that was left out.  Then the portal, while calls of start()    *)
(* and stop() do not overlap, and the session of the browser in it.  Last,  *)
(* the scenarios of MCLocal inherit it all.                                 *)
EXTENDS MCLocal, WellFoundedInduction, TLAPS

-----------------------------------------------------------------------------
(* The manager.                                                             *)

(* An event "ip" on its way means a link: without it the handler could      *)
(* report a connection that has gone.                                       *)
LinkInv == ConnectedIsLinked /\ (event = "ip" => radio = "linked")

(* A connect leaves CONNECTED, or, without a profile, everything as it was. *)
LEMMA ConnectKeeps ==
  ASSUME NEW i, LinkInv, Calm, TryConnect(i)
  PROVE  LinkInv'
BY DEF TryConnect, LinkInv, ConnectedIsLinked, Calm

(* A start tries the first profile, or opens the portal.                    *)
LEMMA StartKeeps ==
  ASSUME LinkInv, Start
  PROVE  LinkInv'
BY DEF Start, LinkInv, ConnectedIsLinked, Calm, driver

(* The handler leaves CONNECTED with the link, and enters it with one.      *)
LEMMA HandlesKeeps ==
  ASSUME LinkInv, Handles
  PROVE  LinkInv'
<1> USE DEF LinkInv, ConnectedIsLinked, Calm
<1>1. CASE LosesLink
  BY <1>1 DEF LosesLink
<1>2. CASE Retries
  BY <1>2 DEF Retries
<1>3. CASE TriesNext
  <2>1. state # "CONNECTED"
    BY <1>3 DEF TriesNext
  <2>2. QED BY <1>3, <2>1 DEF TriesNext, TryConnect
<1>4. CASE Exhausted
  BY <1>4 DEF Exhausted
<1>5. CASE GetsIp
  BY <1>5 DEF GetsIp
<1>6. QED BY <1>1, <1>2, <1>3, <1>4, <1>5 DEF Handles

(* A restart forgets the state and the link.                                *)
LEMMA ResetKeeps == ASSUME Reset PROVE LinkInv'
BY DEF Reset, LinkInv, ConnectedIsLinked

(* The driver's steps and those of disconnect() announce what they change.  *)
LEMMA DriverKeeps ==
  ASSUME LinkInv, Links \/ AttemptFails \/ LinkLost \/ Disconnects \/ Marks
  PROVE  LinkInv'
<1> USE DEF LinkInv, ConnectedIsLinked, Calm, manager, driver
<1>1. CASE Links
  BY <1>1 DEF Links
<1>2. CASE AttemptFails
  BY <1>2 DEF AttemptFails
<1>3. CASE LinkLost
  BY <1>3 DEF LinkLost
<1>4. CASE Disconnects
  BY <1>4 DEF Disconnects
<1>5. CASE Marks
  BY <1>5 DEF Marks
<1>6. QED BY <1>1, <1>2, <1>3, <1>4, <1>5

(* What neither the driver nor the state takes part in.                     *)
LEMMA OthersKeep ==
  ASSUME LinkInv, UNCHANGED <<state, driver>>
  PROVE  LinkInv'
BY DEF LinkInv, ConnectedIsLinked, Calm, driver

(* A device that reports CONNECTED has a link, or the event that says       *)
(* otherwise is on its way.                                                 *)
THEOREM ReportsAreTrue == WifiSpec => []ConnectedIsLinked
<1>1. WifiInit => LinkInv
  BY DEF WifiInit, LinkInv, ConnectedIsLinked
<1>2. ASSUME LinkInv, [WifiNext]_vars PROVE LinkInv'
  <2>1. CASE UNCHANGED vars
    BY <1>2, <2>1, OthersKeep DEF vars, manager
  <2>2. CASE Handles
    BY <1>2, <2>2, HandlesKeeps
  <2>3. CASE Links \/ AttemptFails \/ LinkLost
    BY <1>2, <2>3, DriverKeeps
  <2>4. CASE Tick
    BY <1>2, <2>4, ConnectKeeps DEF Tick
  <2>5. CASE Begin
    <3>1. CASE BeginStarts
      BY <1>2, <3>1, StartKeeps DEF BeginStarts
    <3>2. CASE Boot \/ BeginLoads \/ BeginSeeds \/ BeginReloads \/ StoreGoesOn
      BY <1>2, <3>2, OthersKeep
         DEF Boot, BeginLoads, BeginSeeds, BeginReloads, StoreGoesOn, manager
    <3>3. QED BY <2>5, <3>1, <3>2 DEF Begin
  <2>6. CASE HandlerGoesOn
    <3>1. CASE ListSaved \/ FormSaved \/ PortalStops
      BY <1>2, <3>1, OthersKeep DEF ListSaved, FormSaved, PortalStops, Apply, manager
    <3>2. CASE Disconnects \/ Marks
      BY <1>2, <3>2, DriverKeeps
    <3>3. CASE Restarts
      BY <1>2, <3>3, StartKeeps DEF Restarts
    <3>4. QED BY <2>6, <3>1, <3>2, <3>3 DEF HandlerGoesOn
  <2>7. CASE Button \/ SaveList \/ Exit \/ SubmitForm
    BY <1>2, <2>7, OthersKeep DEF Button, SaveList, Exit, SubmitForm, manager
  <2>8. CASE FactoryReset \/ PowerCut
    BY <2>8, ResetKeeps DEF FactoryReset, PowerCut
  <2>9. QED
    BY <1>2, <2>1, <2>2, <2>3, <2>4, <2>5, <2>6, <2>7, <2>8 DEF WifiNext, User
<1>3. LinkInv => ConnectedIsLinked
  BY DEF LinkInv
<1>4. QED BY <1>1, <1>2, <1>3, PTL DEF WifiSpec

-----------------------------------------------------------------------------
(* The stored list.                                                         *)

(* What holds of 0 and, with n, of n + 1 holds of every number.  The set    *)
(* stands for the property.                                                 *)
LEMMA NatSet ==
  ASSUME NEW S, 0 \in S, \A n \in Nat : n \in S => n + 1 \in S
  PROVE  Nat \subseteq S
<1> SUFFICES ASSUME ~(Nat \subseteq S) PROVE FALSE
  OBVIOUS
<1> DEFINE T == Nat \ S
<1>1. PICK x \in T : \A y \in T : ~ (<<y, x>> \in OpToRel(<, Nat))
  BY NatLessThanWellFounded, WFMin, Zenon
<1>2. x \in Nat /\ x \notin S /\ \A y \in T : ~(y < x)
  BY <1>1, Zenon DEF OpToRel
<1>3. x # 0 /\ x - 1 \in Nat /\ x - 1 < x
  BY <1>2
<1>4. x - 1 \in S
  BY <1>2, <1>3
<1>5. (x - 1) + 1 \in S
  BY <1>3, <1>4
<1>6. QED BY <1>2, <1>5

(* AddAll as the function its definition speaks of, and that there is one.  *)
Adds(list, more, f, n) ==
  f = [m \in 0 .. n |-> IF m = 0 THEN list ELSE MemAdd(f[m - 1], more[m])]

(* There is such a function for every n.                                    *)
LEMMA AddsExists ==
  ASSUME NEW list, NEW more
  PROVE  \A n \in Nat : \E f : Adds(list, more, f, n)
<1> DEFINE S == {n \in Nat : \E f : Adds(list, more, f, n)}
<1>1. 0 \in S
  <2>1. Adds(list, more, [m \in 0 .. 0 |-> list], 0)
    BY DEF Adds
  <2>2. QED BY <2>1
<1>2. ASSUME NEW n \in Nat, n \in S PROVE n + 1 \in S
  <2>1. PICK f : Adds(list, more, f, n)
    BY <1>2
  <2> DEFINE g == [m \in 0 .. n + 1 |-> IF m = n + 1 THEN MemAdd(f[n], more[n + 1]) ELSE f[m]]
  <2>2. g = [m \in 0 .. n + 1 |-> IF m = 0 THEN list ELSE MemAdd(g[m - 1], more[m])]
    <3>1. ASSUME NEW m \in 0 .. n + 1
          PROVE  g[m] = IF m = 0 THEN list ELSE MemAdd(g[m - 1], more[m])
      <4>1. CASE m = n + 1
        <5>1. m # 0 /\ m - 1 = n /\ n # n + 1 /\ n \in 0 .. n + 1
          BY <4>1
        <5>2. g[m - 1] = f[n]
          BY <5>1
        <5>3. g[m] = MemAdd(f[n], more[n + 1])
          BY <4>1
        <5>4. QED BY <4>1, <5>1, <5>2, <5>3
      <4>2. CASE m \in 0 .. n
        BY <4>2, <2>1 DEF Adds
      <4>3. QED BY <4>1, <4>2
    <3>2. g = [m \in 0 .. n + 1 |-> g[m]]
      OBVIOUS
    <3> HIDE DEF g
    <3>3. QED BY <3>1, <3>2
  <2> HIDE DEF g
  <2>3. QED BY <2>2 DEF Adds
<1>3. QED BY <1>1, <1>2, NatSet

(* AddAll is the last value of one.                                         *)
LEMMA AddAllIs ==
  ASSUME NEW list, NEW more, Len(more) \in Nat
  PROVE  \E f : Adds(list, more, f, Len(more)) /\ AddAll(list, more) = f[Len(more)]
<1> DEFINE F == CHOOSE f : Adds(list, more, f, Len(more))
<1>1. Adds(list, more, F, Len(more))
  BY AddsExists
<1>2. AddAll(list, more) = F[Len(more)]
  BY DEF AddAll, Adds
<1>3. QED BY <1>1, <1>2

(* Entries as load() reads them, where a name may be missing, and lists as  *)
(* the store keeps them: full at most, and every network once.              *)
AnyCred == [ssid : Ssids \cup {NoSsid}, pw : Pws]
Distinct(list) == \A i, j \in 1 .. Len(list) : list[i].ssid = list[j].ssid => i = j
IsList(list) == list \in Seq(Cred) /\ Len(list) <= MaxCreds /\ Distinct(list)

(* What one mem_add does to a list.                                         *)
Grows(list, new, c) ==
  /\ IsList(new) /\ Len(new) \in Len(list) .. Len(list) + 1
  /\ \A i \in 1 .. Len(list) : new[i].ssid = list[i].ssid
  /\ SsidsOf(new) \subseteq SsidsOf(list) \cup {c.ssid}
  /\ c.ssid # NoSsid /\ Len(list) < MaxCreds => \E p \in 1 .. Len(new) : new[p].ssid = c.ssid

(* And it does that, whatever the entry.                                    *)
LEMMA MemAddGrows ==
  ASSUME NEW list, IsList(list), NEW c \in AnyCred
  PROVE  Grows(list, MemAdd(list, c), c)
<1> DEFINE new == MemAdd(list, c)
<1>1. list \in Seq(Cred) /\ Len(list) \in Nat /\ \A i \in 1 .. Len(list) : list[i] \in Cred
  BY DEF IsList
<1>2. CASE c.ssid = NoSsid
  <2>1. NoSsid \notin SsidsOf(list)
    BY <1>1, StoreAssumption DEF SsidsOf, Cred, StoreAssumption
  <2>2. new = list
    BY <1>2, <2>1 DEF MemAdd
  <2>3. QED BY <1>1, <1>2, <2>2 DEF Grows, SsidsOf, IsList
<1>3. CASE c.ssid # NoSsid /\ c.ssid \in SsidsOf(list)
  <2>1. new = [i \in 1 .. Len(list) |-> IF list[i].ssid = c.ssid /\ c.pw # NoPw THEN c ELSE list[i]]
    BY <1>3 DEF MemAdd
  <2>2. c \in Cred
    BY <1>3 DEF AnyCred, Cred
  <2> HIDE DEF new
  <2>3. new \in [1 .. Len(list) -> Cred]
    BY <1>1, <2>1, <2>2
  <2>4. new \in Seq(Cred) /\ Len(new) = Len(list)
    BY <1>1, <2>3
  <2>5. \A i \in 1 .. Len(list) : new[i].ssid = list[i].ssid
    BY <2>1
  <2>6. IsList(new)
    BY <2>4, <2>5 DEF IsList, Distinct
  <2>7. SsidsOf(new) = SsidsOf(list)
    BY <2>4, <2>5 DEF SsidsOf
  <2>8. \E p \in 1 .. Len(new) : new[p].ssid = c.ssid
    BY <1>3, <2>7 DEF SsidsOf
  <2>9. QED BY <1>1, <2>4, <2>5, <2>6, <2>7, <2>8 DEF Grows, new
<1>4. CASE c.ssid # NoSsid /\ c.ssid \notin SsidsOf(list) /\ Len(list) < MaxCreds
  <2>1. new = Append(list, c)
    BY <1>4 DEF MemAdd
  <2>2. c \in Cred
    BY <1>4 DEF AnyCred, Cred
  <2> HIDE DEF new
  <2>3. /\ new \in Seq(Cred) /\ Len(new) = Len(list) + 1
        /\ \A i \in 1 .. Len(list) : new[i] = list[i]
        /\ new[Len(list) + 1] = c
    BY <1>1, <2>1, <2>2
  <2>4. IsList(new)
    BY <1>1, <1>4, <2>3, StoreAssumption DEF IsList, Distinct, SsidsOf, StoreAssumption
  <2>5. SsidsOf(new) \subseteq SsidsOf(list) \cup {c.ssid}
    BY <1>1, <2>3 DEF SsidsOf
  <2>6. \E p \in 1 .. Len(new) : new[p].ssid = c.ssid
    BY <1>1, <2>3
  <2>7. QED BY <1>1, <2>3, <2>4, <2>5, <2>6 DEF Grows, new
<1>5. CASE c.ssid # NoSsid /\ c.ssid \notin SsidsOf(list) /\ ~(Len(list) < MaxCreds)
  <2>1. new = list
    BY <1>5 DEF MemAdd
  <2>2. QED BY <1>1, <1>5, <2>1 DEF Grows, SsidsOf, IsList
<1>6. QED BY <1>2, <1>3, <1>4, <1>5

(* What AddAll makes of the first n of the networks. *)
Grown(list, more, new, n) ==
  /\ IsList(new) /\ Len(new) \in Len(list) .. Len(list) + n
  /\ \A i \in 1 .. Len(list) : new[i].ssid = list[i].ssid
  /\ SsidsOf(new) \subseteq SsidsOf(list) \cup SsidsOf(more)
  /\ \A i \in 1 .. n : more[i].ssid # NoSsid /\ Len(list) + i <= MaxCreds =>
       \E p \in 1 .. Len(list) + i : p <= Len(new) /\ new[p].ssid = more[i].ssid

(* The loops of load(), set_all() and begin() keep a list a list, invent no *)
(* name, and put every network in that there is room for.                   *)
LEMMA AddAllGrows ==
  ASSUME NEW list, IsList(list), NEW more \in Seq(AnyCred)
  PROVE  Grown(list, more, AddAll(list, more), Len(more))
<1>1. PICK f : Adds(list, more, f, Len(more)) /\ AddAll(list, more) = f[Len(more)]
  BY AddAllIs
<1> DEFINE S == {n \in Nat : n <= Len(more) => Grown(list, more, f[n], n)}
<1>2. Len(list) \in Nat /\ Len(more) \in Nat /\ MaxCreds \in Nat
  BY StoreAssumption DEF IsList, StoreAssumption
<1>3. 0 \in S
  <2>1. f[0] = list
    BY <1>1, <1>2 DEF Adds
  <2>2. QED BY <1>2, <2>1 DEF Grown
<1>4. ASSUME NEW n \in Nat, n \in S PROVE n + 1 \in S
  <2> SUFFICES ASSUME n + 1 <= Len(more) PROVE Grown(list, more, f[n + 1], n + 1)
    OBVIOUS
  <2> DEFINE was == f[n]
             new == f[n + 1]
             c == more[n + 1]
  <2>1. Grown(list, more, was, n)
    BY <1>2, <1>4
  <2>2. new = MemAdd(was, c) /\ c \in AnyCred
    BY <1>1, <1>2 DEF Adds
  <2>3. Grows(was, new, c)
    BY <2>1, <2>2, MemAddGrows DEF Grown
  <2> HIDE DEF was, new
  <2>4. Len(was) \in Nat /\ Len(new) \in Nat /\ c.ssid \in SsidsOf(more)
    BY <1>2, <2>1, <2>3 DEF Grown, Grows, IsList, SsidsOf
  <2>5. IsList(new) /\ Len(new) \in Len(list) .. Len(list) + n + 1
    BY <1>2, <2>1, <2>3, <2>4 DEF Grown, Grows
  <2>6. \A i \in 1 .. Len(list) : new[i].ssid = list[i].ssid
    BY <1>2, <2>1, <2>3, <2>4 DEF Grown, Grows
  <2>7. SsidsOf(new) \subseteq SsidsOf(list) \cup SsidsOf(more)
    BY <2>1, <2>3, <2>4 DEF Grown, Grows
  <2>8. ASSUME NEW i \in 1 .. n + 1, more[i].ssid # NoSsid, Len(list) + i <= MaxCreds
        PROVE  \E p \in 1 .. Len(list) + i : p <= Len(new) /\ new[p].ssid = more[i].ssid
    <3>1. CASE i \in 1 .. n
      <4>1. PICK p \in 1 .. Len(list) + i : p <= Len(was) /\ was[p].ssid = more[i].ssid
        BY <2>1, <2>8, <3>1 DEF Grown
      <4>2. p <= Len(new) /\ new[p].ssid = was[p].ssid
        BY <1>2, <2>3, <2>4, <4>1 DEF Grows
      <4>3. QED BY <4>1, <4>2
    <3>2. CASE i = n + 1
      <4>1. Len(was) < MaxCreds
        BY <1>2, <2>1, <2>4, <2>8, <3>2 DEF Grown
      <4>2. PICK p \in 1 .. Len(new) : new[p].ssid = more[i].ssid
        BY <2>3, <2>8, <3>2, <4>1 DEF Grows
      <4>3. p \in 1 .. Len(list) + i
        BY <1>2, <2>4, <2>5, <3>2, <4>2
      <4>4. QED BY <4>2, <4>3
    <3>3. QED BY <3>1, <3>2
  <2>9. QED BY <2>5, <2>6, <2>7, <2>8 DEF Grown, new
<1>5. Len(more) \in S
  BY <1>2, <1>3, <1>4, NatSet
<1>6. QED BY <1>1, <1>2, <1>5

(* A list of distinct networks is what AddAll makes of it. *)
LEMMA AddAllCopies ==
  ASSUME NEW list, IsList(list)
  PROVE  AddAll(<<>>, list) = list
<1>1. list \in Seq(Cred) /\ Len(list) \in Nat /\ MaxCreds \in Nat /\ Len(list) <= MaxCreds
  BY StoreAssumption DEF IsList, StoreAssumption
<1>2. PICK f : Adds(<<>>, list, f, Len(list)) /\ AddAll(<<>>, list) = f[Len(list)]
  BY <1>1, AddAllIs
<1> DEFINE Copy(n) == f[n] \in Seq(Cred) /\ Len(f[n]) = n /\ \A i \in 1 .. n : f[n][i] = list[i]
           S == {n \in Nat : n <= Len(list) => Copy(n)}
<1>3. 0 \in S
  <2>1. f[0] = <<>>
    BY <1>1, <1>2 DEF Adds
  <2>2. <<>> \in Seq(Cred) /\ Len(<<>>) = 0
    OBVIOUS
  <2>3. Copy(0)
    BY <2>1, <2>2
  <2>4. QED BY <2>3
<1>4. ASSUME NEW n \in Nat, n \in S PROVE n + 1 \in S
  <2> SUFFICES ASSUME n + 1 <= Len(list) PROVE Copy(n + 1)
    OBVIOUS
  <2> DEFINE was == f[n]
             new == f[n + 1]
             c == list[n + 1]
  <2>1. was \in Seq(Cred) /\ Len(was) = n /\ \A i \in 1 .. n : was[i] = list[i]
    BY <1>1, <1>4
  <2>2. new = MemAdd(was, c) /\ c \in Cred
    BY <1>1, <1>2 DEF Adds
  <2>3. c.ssid # NoSsid /\ c.ssid \notin SsidsOf(was) /\ Len(was) < MaxCreds
    <3>1. c.ssid # NoSsid
      BY <2>2, StoreAssumption DEF Cred, StoreAssumption
    <3>2. ASSUME NEW i \in 1 .. n PROVE was[i].ssid # c.ssid
      <4>1. was[i] = list[i] /\ i # n + 1 /\ i \in 1 .. Len(list) /\ n + 1 \in 1 .. Len(list)
        BY <1>1, <2>1
      <4>2. QED BY <1>1, <4>1 DEF IsList, Distinct
    <3>3. c.ssid \notin SsidsOf(was)
      BY <2>1, <3>2 DEF SsidsOf
    <3>4. QED BY <1>1, <2>1, <3>1, <3>3
  <2>4. new = Append(was, c)
    BY <2>2, <2>3 DEF MemAdd
  <2> HIDE DEF was, new
  <2>5. new \in Seq(Cred) /\ Len(new) = n + 1 /\ \A i \in 1 .. n + 1 : new[i] = list[i]
    BY <2>1, <2>2, <2>4
  <2>6. QED BY <2>5 DEF new
<1>5. Len(list) \in S
  BY <1>1, <1>3, <1>4, NatSet
<1>6. Copy(Len(list))
  BY <1>1, <1>5
<1>7. f[Len(list)] = list
  BY <1>1, <1>6
<1>8. QED BY <1>2, <1>7

(* The types of the store.                                                  *)
Steps == {"none", "migrate", "seed", "menu", "form"}
Phases == {"off", "load", "seed", "reload", "start", "up"}
NvsType ==
  [ssid : [Slots -> Ssids \cup {NoSsid}], pw : [Slots -> Pws], count : 0 .. MaxCreds,
   seeded : BOOLEAN, legacy : Cred \cup {NoLegacy}]

(* The i-th entry as save() writes it: erased past the end.                 *)
Entry(i) == IF i <= Len(creds) THEN creds[i] ELSE NoLegacy

(* What the variables hold.                                                 *)
StoreTypes ==
  /\ IsList(creds) /\ profiles \in Seq(Cred) /\ Len(profiles) <= MaxCreds
  /\ nvs \in NvsType
  /\ saver \in [who : Steps, next : 1 .. 2 * MaxCreds + 3]
  /\ dropped \subseteq Ssids /\ phase \in Phases

(* The writes of save() up to the next one are done.                        *)
WritesDone ==
  Saving => /\ \A i \in Slots : /\ 2 * i - 1 < saver.next => nvs.ssid[i] = Entry(i).ssid
                                /\ 2 * i < saver.next => nvs.pw[i] = Entry(i).pw
            /\ 2 * MaxCreds + 1 < saver.next => nvs.count = Len(creds)

(* Who may be saving, and when: begin() before the device is up, the portal *)
(* after.                                                                   *)
WhoSaves ==
  /\ phase = "up" => saver.who \in {"none", "menu", "form"}
  /\ phase # "up" => saver.who \in {"none", "migrate", "seed"}
  /\ phase \in {"off", "load"} => ~Saving

(* While nothing is being saved, RAM, NVS and the manager agree.            *)
InUse ==
  /\ ~Saving /\ phase \notin {"off", "load"} => creds = Stored
  /\ ~Saving /\ phase = "up" => profiles = creds

StoreInv == StoreTypes /\ WritesDone /\ WhoSaves /\ InUse

(* What the assumptions on the constants say.                               *)
LEMMA LocalConstants ==
  /\ MaxCreds \in Nat \ {0} /\ NoSsid \notin Ssids
  /\ Staged \in Seq(Cred) /\ Legacy \subseteq Cred
  /\ Lists \subseteq Seq(Cred) /\ Forms \subseteq Cred
BY StoreAssumption, WifiAssumption DEF StoreAssumption, WifiAssumption

(* A network is an entry.                                                   *)
LEMMA CredSeq ==
  ASSUME NEW list \in Seq(Cred)
  PROVE  list \in Seq(AnyCred)
<1>1. ASSUME NEW i \in 1 .. Len(list) PROVE list[i] \in AnyCred
  <2>1. list[i] \in Cred
    OBVIOUS
  <2>2. QED BY <2>1 DEF Cred, AnyCred
<1>2. list = [i \in 1 .. Len(list) |-> list[i]] /\ Len(list) \in Nat
  OBVIOUS
<1>3. QED BY <1>1, <1>2

(* The list a device starts with.                                           *)
LEMMA EmptyIsList == IsList(<<>>) /\ SsidsOf(<<>>) = {}
BY LocalConstants DEF IsList, Distinct, SsidsOf

(* Names and entries of a list.                                             *)
LEMMA ListSsids ==
  ASSUME NEW list \in Seq(Cred)
  PROVE  SsidsOf(list) \subseteq Ssids
<1>1. \A i \in 1 .. Len(list) : list[i] \in Cred
  OBVIOUS
<1>2. QED BY <1>1 DEF SsidsOf, Cred

(* What load() finds is a list of networks that slots name.                 *)
LEMMA StoredIsList ==
  ASSUME nvs \in NvsType
  PROVE  /\ IsList(Stored) /\ Len(Stored) <= nvs.count
         /\ SsidsOf(Stored) \subseteq {nvs.ssid[i] : i \in Slots} \cap Ssids
         /\ \A i \in 1 .. nvs.count : nvs.ssid[i] # NoSsid =>
              \E p \in 1 .. i : p <= Len(Stored) /\ Stored[p].ssid = nvs.ssid[i]
<1> DEFINE more == [i \in 1 .. nvs.count |-> Slot(i)]
<1>1. nvs.count \in Nat /\ nvs.count <= MaxCreds /\ MaxCreds \in Nat
  BY LocalConstants DEF NvsType
<1>2. \A i \in 1 .. nvs.count : i \in Slots /\ Slot(i) \in AnyCred /\ Slot(i).ssid = nvs.ssid[i]
  BY <1>1 DEF NvsType, Slots, Slot, AnyCred
<1>3. more \in Seq(AnyCred) /\ Len(more) = nvs.count
  BY <1>1, <1>2
<1>4. Grown(<<>>, more, Stored, nvs.count)
  BY <1>3, AddAllGrows, EmptyIsList DEF Stored
<1>5. SsidsOf(more) \subseteq {nvs.ssid[i] : i \in Slots}
  BY <1>2, <1>3 DEF SsidsOf
<1>6. IsList(Stored) /\ Len(Stored) <= nvs.count
  BY <1>1, <1>4 DEF Grown
<1>7. SsidsOf(Stored) \subseteq {nvs.ssid[i] : i \in Slots} \cap Ssids
  BY <1>4, <1>5, <1>6, EmptyIsList, ListSsids DEF Grown, IsList
<1>8. ASSUME NEW i \in 1 .. nvs.count, nvs.ssid[i] # NoSsid
      PROVE  \E p \in 1 .. i : p <= Len(Stored) /\ Stored[p].ssid = nvs.ssid[i]
  <2>1. more[i].ssid = nvs.ssid[i]
    BY <1>2
  <2> HIDE DEF more
  <2>2. QED BY <1>1, <1>4, <1>8, <2>1 DEF Grown
<1>9. QED BY <1>6, <1>7, <1>8

(* When save() is through, load() finds what there is in RAM.               *)
LEMMA SavedIsStored ==
  ASSUME StoreTypes, WritesDone, Saving, saver.next > 2 * MaxCreds + 1
  PROVE  Stored = creds
<1>1. MaxCreds \in Nat /\ IsList(creds) /\ saver.next \in Nat /\ Len(creds) \in Nat
  BY LocalConstants DEF StoreTypes, IsList
<1>2. nvs.count = Len(creds)
  BY <1>1, LocalConstants DEF WritesDone
<1>3. ASSUME NEW i \in 1 .. Len(creds) PROVE Slot(i) = creds[i]
  <2>1. i \in Slots /\ i <= MaxCreds
    BY <1>1 DEF IsList, Slots
  <2>2. nvs.ssid[i] = creds[i].ssid /\ nvs.pw[i] = creds[i].pw
    BY <1>1, <2>1 DEF WritesDone, Entry
  <2>3. creds[i] \in Cred
    BY <1>1 DEF IsList
  <2>4. QED BY <2>2, <2>3 DEF Slot, Cred
<1>4. [i \in 1 .. nvs.count |-> Slot(i)] = creds
  BY <1>1, <1>2, <1>3 DEF IsList
<1>5. QED BY <1>1, <1>4, AddAllCopies DEF Stored

(* The list the portal hands over.                                          *)
LEMMA SetAllIsList ==
  ASSUME IsList(creds), NEW more \in Seq(Cred)
  PROVE  IsList(SetAll(more)) /\ SsidsOf(SetAll(more)) \subseteq SsidsOf(more)
<1> DEFINE Kept(c) == {was \in Range(creds) : c.pw = NoPw /\ was.ssid = c.ssid}
           filled == [i \in 1 .. Len(more) |->
                        IF Kept(more[i]) = {} THEN more[i] ELSE CHOOSE c \in Kept(more[i]) : TRUE]
<1>1. Len(more) \in Nat /\ \A i \in 1 .. Len(more) : more[i] \in Cred
  OBVIOUS
<1>2. \A c : Kept(c) \subseteq Cred /\ \A was \in Kept(c) : was.ssid = c.ssid
  BY DEF IsList, Range
<1>3. \A i \in 1 .. Len(more) : filled[i] \in Cred /\ filled[i].ssid = more[i].ssid
  BY <1>1, <1>2
<1>4. filled \in Seq(AnyCred) /\ Len(filled) = Len(more)
  <2>1. \A i \in 1 .. Len(more) : filled[i] \in AnyCred
    BY <1>3 DEF Cred, AnyCred
  <2>2. filled = [i \in 1 .. Len(more) |-> filled[i]]
    OBVIOUS
  <2> HIDE DEF filled
  <2>3. QED BY <1>1, <2>1, <2>2
<1>5. SetAll(more) = AddAll(<<>>, filled)
  BY DEF SetAll
<1> HIDE DEF filled
<1>6. Grown(<<>>, filled, SetAll(more), Len(more))
  BY <1>4, <1>5, AddAllGrows, EmptyIsList
<1>7. SsidsOf(filled) = SsidsOf(more)
  BY <1>3, <1>4 DEF SsidsOf
<1>8. QED BY <1>6, <1>7, EmptyIsList DEF Grown

(* Steps that touch neither the store, nor the list in use, nor the phase.  *)
kept == <<store, profiles, phase>>

(* They keep the invariant.                                                 *)
LEMMA StoreKept ==
  ASSUME StoreInv, UNCHANGED kept
  PROVE  StoreInv'
<1>1. UNCHANGED <<creds, nvs, saver, dropped, profiles, phase>>
  BY DEF kept, store
<1>2. IsList(creds)' /\ Stored' = Stored /\ \A i : Entry(i)' = Entry(i)
  BY <1>1 DEF StoreInv, StoreTypes, Stored, Slot, Entry, IsList, Distinct
<1>3. StoreTypes'
  BY <1>1, <1>2 DEF StoreInv, StoreTypes
<1>4. WritesDone' /\ WhoSaves' /\ InUse'
  BY <1>1, <1>2 DEF StoreInv, WritesDone, WhoSaves, InUse, Saving
<1>5. QED BY <1>3, <1>4 DEF StoreInv

(* A save begins with nothing written.                                      *)
LEMMA SaveBegan ==
  ASSUME StoreTypes, NEW who \in Steps \ {"none"}, SaveBegins(who)
  PROVE  /\ saver' \in [who : Steps, next : 1 .. 2 * MaxCreds + 3]
         /\ saver'.who = who /\ saver'.next = 1
         /\ WritesDone'
<1>1. saver' = [who |-> who, next |-> 1]
  BY DEF SaveBegins
<1>2. saver' \in [who : Steps, next : 1 .. 2 * MaxCreds + 3]
  BY <1>1, LocalConstants DEF Steps
<1>3. WritesDone'
  BY <1>1, LocalConstants DEF WritesDone, Slots
<1>4. QED BY <1>1, <1>2, <1>3

(* load(), and the migration it may begin.                                  *)
LEMMA LoadKeeps ==
  ASSUME StoreInv, ~Saving, Load, UNCHANGED profiles,
         phase' \in {"seed", "start"}
  PROVE  StoreInv'
<1>1. StoreTypes /\ nvs \in NvsType /\ UNCHANGED <<nvs, dropped, profiles>>
  BY DEF StoreInv, StoreTypes, Load
<1>2. Stored' = Stored /\ IsList(Stored)
  BY <1>1, StoredIsList DEF Stored, Slot
<1>3. CASE nvs.count > 0
  <2>1. creds' = Stored /\ UNCHANGED saver
    BY <1>3, LocalConstants DEF Load
  <2>2. IsList(creds')
    BY <1>2, <2>1
  <2>3. StoreTypes'
    BY <1>1, <2>1, <2>2 DEF StoreTypes, Phases, IsList, Distinct
  <2>4. WritesDone' /\ WhoSaves' /\ InUse'
    BY <1>2, <2>1 DEF WritesDone, WhoSaves, InUse, Saving
  <2>5. QED BY <2>3, <2>4 DEF StoreInv
<1>4. CASE nvs.count = 0
  <2>1. Stored = <<>>
    BY <1>1, <1>2, <1>4, StoredIsList DEF IsList
  <2>2. CASE nvs.legacy # NoLegacy
    <3>1. creds' = <<nvs.legacy>> /\ SaveBegins("migrate")
      BY <1>4, <2>2 DEF Load
    <3>2. nvs.legacy \in Cred
      BY <1>1, <2>2 DEF NvsType
    <3>3. IsList(<<nvs.legacy>>)
      BY <3>2, LocalConstants DEF IsList, Distinct
    <3>4. StoreTypes' /\ WritesDone' /\ saver'.who = "migrate"
      <4>1. /\ saver' \in [who : Steps, next : 1 .. 2 * MaxCreds + 3]
            /\ saver'.who = "migrate" /\ WritesDone'
        BY <1>1, <3>1, SaveBegan DEF Steps
      <4>2. IsList(creds)'
        BY <3>1, <3>3 DEF IsList, Distinct
      <4>3. QED BY <1>1, <4>1, <4>2 DEF StoreTypes, Phases
    <3>5. QED BY <3>4 DEF StoreInv, WhoSaves, InUse, Saving
  <2>3. CASE nvs.legacy = NoLegacy
    <3>1. creds' = <<>> /\ UNCHANGED saver
      BY <1>4, <2>3 DEF Load
    <3>2. IsList(creds)'
      BY <3>1, EmptyIsList DEF IsList, Distinct
    <3>3. StoreTypes'
      BY <1>1, <3>1, <3>2 DEF StoreTypes, Phases
    <3>4. QED BY <1>2, <2>1, <3>1, <3>3 DEF StoreInv, WritesDone, WhoSaves, InUse, Saving
  <2>4. QED BY <2>2, <2>3
<1>5. nvs.count = 0 \/ nvs.count > 0
  BY <1>1, LocalConstants DEF NvsType
<1>6. QED BY <1>3, <1>4, <1>5

(* seed_add() for each staged network, and commit_seed().                   *)
LEMMA SeedKeeps ==
  ASSUME StoreInv, BeginSeeds
  PROVE  StoreInv'
<1>1. StoreTypes /\ UNCHANGED <<nvs, dropped, profiles>> /\ phase = "seed" /\ ~Saving
  BY DEF StoreInv, BeginSeeds, Seed, manager
<1>2. phase' \in {"reload", "start"}
  BY DEF BeginSeeds
<1>3. CASE UNCHANGED <<creds, saver>>
  <2>1. IsList(creds)' /\ Stored' = Stored
    BY <1>1, <1>3 DEF StoreTypes, Stored, Slot, IsList, Distinct
  <2>2. QED
    BY <1>1, <1>2, <1>3, <2>1
       DEF StoreInv, StoreTypes, WritesDone, WhoSaves, InUse, Saving, Phases
<1>4. CASE creds' = AddAll(creds, Staged) /\ SaveBegins("seed")
  <2>1. Staged \in Seq(AnyCred)
    BY LocalConstants, CredSeq
  <2>2. IsList(AddAll(creds, Staged))
    BY <1>1, <2>1, AddAllGrows DEF Grown, StoreTypes
  <2>3. IsList(creds)'
    BY <1>4, <2>2 DEF IsList, Distinct
  <2>4. /\ saver' \in [who : Steps, next : 1 .. 2 * MaxCreds + 3]
        /\ saver'.who = "seed" /\ WritesDone'
    BY <1>1, <1>4, SaveBegan DEF Steps
  <2>5. QED
    BY <1>1, <1>2, <2>3, <2>4 DEF StoreInv, StoreTypes, WhoSaves, InUse, Saving, Phases
<1>5. QED BY <1>3, <1>4 DEF BeginSeeds, Seed

(* One write of save().                                                     *)
LEMMA WriteKeeps ==
  ASSUME StoreInv, SaveWrites, UNCHANGED <<profiles, phase>>
  PROVE  StoreInv'
<1> DEFINE k == saver.next
           i == (k + 1) \div 2
<1>1. /\ StoreTypes /\ WritesDone /\ Saving /\ UNCHANGED <<creds, dropped, profiles, phase>>
      /\ k \in 1 .. 2 * MaxCreds + 1 /\ MaxCreds \in Nat \ {0} /\ Len(creds) \in 0 .. MaxCreds
  BY LocalConstants DEF StoreInv, StoreTypes, SaveWrites, IsList
<1>2. saver' = [saver EXCEPT !.next = k + 1]
  BY DEF SaveWrites
<1>3. /\ saver' \in [who : Steps, next : 1 .. 2 * MaxCreds + 3]
      /\ saver'.who = saver.who /\ saver'.next = k + 1
  BY <1>1, <1>2 DEF StoreTypes
<1>4. \A j : Entry(j)' = Entry(j)
  BY <1>1 DEF Entry
<1>5. ASSUME NEW j \in Slots
      PROVE  Entry(j).ssid \in Ssids \cup {NoSsid} /\ Entry(j).pw \in Pws
  <2>1. CASE j <= Len(creds)
    <3>1. creds[j] \in Cred
      BY <1>1, <2>1 DEF StoreTypes, IsList, Slots
    <3>2. QED BY <2>1, <3>1 DEF Entry, Cred
  <2>2. CASE ~(j <= Len(creds))
    BY <2>2 DEF Entry, NoLegacy, Pws
  <2>3. QED BY <2>1, <2>2
<1>6. nvs' \in NvsType /\ WritesDone'
  <2>1. CASE k = 2 * MaxCreds + 1
    <3>1. nvs' = [nvs EXCEPT !.count = Len(creds)]
      BY <1>1, <2>1 DEF SaveWrites, Written
    <3>2. nvs' \in NvsType /\ nvs'.ssid = nvs.ssid /\ nvs'.pw = nvs.pw /\ nvs'.count = Len(creds)
      BY <1>1, <3>1 DEF StoreTypes, NvsType
    <3>3. \A j \in Slots : nvs.ssid[j] = Entry(j).ssid /\ nvs.pw[j] = Entry(j).pw
      BY <1>1, <2>1 DEF WritesDone, Slots
    <3>4. QED BY <1>1, <1>4, <3>2, <3>3 DEF WritesDone
  <2>2. CASE k <= 2 * MaxCreds /\ k % 2 = 1
    <3>1. i \in Slots /\ k = 2 * i - 1
      BY <1>1, <2>2 DEF Slots
    <3>2. nvs' = [nvs EXCEPT !.ssid[i] = Entry(i).ssid]
      BY <1>1, <2>2 DEF SaveWrites, Written, Entry
    <3> HIDE DEF i, k
    <3>3. /\ nvs' \in NvsType /\ nvs'.pw = nvs.pw /\ nvs'.count = nvs.count
          /\ nvs'.ssid = [nvs.ssid EXCEPT ![i] = Entry(i).ssid]
      <4>1. nvs \in NvsType
        BY <1>1 DEF StoreTypes
      <4>2. nvs' = [nvs EXCEPT !.ssid = [nvs.ssid EXCEPT ![i] = Entry(i).ssid]]
        BY <3>2
      <4>3. [nvs.ssid EXCEPT ![i] = Entry(i).ssid] \in [Slots -> Ssids \cup {NoSsid}]
        BY <1>5, <3>1, <4>1 DEF NvsType
      <4>4. QED BY <4>1, <4>2, <4>3 DEF NvsType
    <3>4. \A j \in Slots : 2 * j - 1 < k + 1 => nvs'.ssid[j] = Entry(j).ssid
      BY <1>1, <3>1, <3>3 DEF WritesDone, Slots, StoreTypes, NvsType, k
    <3>5. \A j \in Slots : 2 * j < k + 1 => nvs'.pw[j] = Entry(j).pw
      BY <1>1, <3>1, <3>3 DEF WritesDone, Slots, k
    <3>6. QED BY <1>1, <1>3, <1>4, <2>2, <3>3, <3>4, <3>5 DEF WritesDone
  <2>3. CASE k <= 2 * MaxCreds /\ k % 2 # 1
    <3>1. i \in Slots /\ k = 2 * i
      <4>1. PICK j \in Nat : k = 2 * j
        BY <1>1, <2>3
      <4>2. i = j
        BY <4>1
      <4>3. QED BY <1>1, <2>3, <4>1, <4>2 DEF Slots
    <3>2. nvs' = [nvs EXCEPT !.pw[i] = Entry(i).pw]
      BY <1>1, <2>3 DEF SaveWrites, Written, Entry
    <3> HIDE DEF i, k
    <3>3. /\ nvs' \in NvsType /\ nvs'.ssid = nvs.ssid /\ nvs'.count = nvs.count
          /\ nvs'.pw = [nvs.pw EXCEPT ![i] = Entry(i).pw]
      <4>1. nvs \in NvsType
        BY <1>1 DEF StoreTypes
      <4>2. nvs' = [nvs EXCEPT !.pw = [nvs.pw EXCEPT ![i] = Entry(i).pw]]
        BY <3>2
      <4>3. [nvs.pw EXCEPT ![i] = Entry(i).pw] \in [Slots -> Pws]
        BY <1>5, <3>1, <4>1 DEF NvsType
      <4>4. QED BY <4>1, <4>2, <4>3 DEF NvsType
    <3>4. \A j \in Slots : 2 * j - 1 < k + 1 => nvs'.ssid[j] = Entry(j).ssid
      BY <1>1, <3>1, <3>3 DEF WritesDone, Slots, k
    <3>5. \A j \in Slots : 2 * j < k + 1 => nvs'.pw[j] = Entry(j).pw
      BY <1>1, <3>1, <3>3 DEF WritesDone, Slots, StoreTypes, NvsType, k
    <3>6. QED BY <1>1, <1>3, <1>4, <2>3, <3>3, <3>4, <3>5 DEF WritesDone
  <2>4. QED BY <1>1, <2>1, <2>2, <2>3
<1>7. IsList(creds)'
  BY <1>1 DEF StoreTypes, IsList, Distinct
<1>8. QED
  BY <1>1, <1>3, <1>6, <1>7 DEF StoreInv, StoreTypes, WhoSaves, InUse, Saving

(* A list the portal hands over, from the menu or from the form.            *)
Saves(who) ==
  \E list \in Seq(Cred) : Replace(list, who)

(* The enroll form puts its network first.                                  *)
LEMMA FormIsSaved ==
  ASSUME StoreInv, SubmitForm
  PROVE  Saves("form")
<1>1. PICK c \in Forms :
        Replace(AddAll(<<c>>, [i \in 1 .. Len(creds) |->
                  IF creds[i].ssid = c.ssid THEN NoLegacy ELSE creds[i]]), "form")
  BY DEF SubmitForm
<1> DEFINE more == [i \in 1 .. Len(creds) |-> IF creds[i].ssid = c.ssid THEN NoLegacy ELSE creds[i]]
<1>2. c \in Cred
  BY LocalConstants
<1>3. IsList(<<c>>)
  BY <1>2, LocalConstants DEF IsList, Distinct
<1>4. creds \in Seq(Cred) /\ Len(creds) \in Nat
  BY DEF StoreInv, StoreTypes, IsList
<1>5. ASSUME NEW i \in 1 .. Len(creds) PROVE more[i] \in AnyCred
  <2>1. creds[i] \in Cred
    BY <1>4
  <2>2. QED BY <2>1 DEF Cred, AnyCred, NoLegacy, Pws
<1>6. more \in Seq(AnyCred)
  BY <1>4, <1>5
<1> HIDE DEF more
<1>7. AddAll(<<c>>, more) \in Seq(Cred)
  BY <1>3, <1>6, AddAllGrows DEF Grown, IsList
<1>8. QED BY <1>1, <1>7 DEF Saves, more

(* The config menu hands over what the user entered.                        *)
LEMMA ListIsSaved ==
  ASSUME SaveList
  PROVE  Saves("menu")
BY LocalConstants DEF SaveList, Saves

(* The portal replaces the list.                                            *)
LEMMA ReplaceKeeps ==
  ASSUME StoreInv, NEW who \in {"menu", "form"}, Saves(who), phase = "up", ~Saving,
         UNCHANGED <<profiles, phase>>
  PROVE  StoreInv'
<1>1. PICK list \in Seq(Cred) :
        /\ creds' = SetAll(list) /\ SaveBegins(who)
        /\ dropped' = dropped \ SsidsOf(list) /\ UNCHANGED nvs
  BY DEF Saves, Replace
<1>2. StoreTypes /\ IsList(creds)
  BY DEF StoreInv, StoreTypes
<1>3. IsList(creds)'
  BY <1>1, <1>2, SetAllIsList DEF IsList, Distinct
<1>4. /\ saver' \in [who : Steps, next : 1 .. 2 * MaxCreds + 3]
      /\ saver'.who = who /\ WritesDone'
  BY <1>1, <1>2, SaveBegan DEF Steps
<1>5. StoreTypes'
  BY <1>1, <1>2, <1>3, <1>4 DEF StoreTypes
<1>6. QED BY <1>4, <1>5 DEF StoreInv, WhoSaves, InUse, Saving

(* What follows save(): the mark, the old keys, and the list in use.        *)
LEMMA MarkKeeps ==
  ASSUME StoreInv, MarkSeeded, UNCHANGED <<profiles, phase>>
  PROVE  StoreInv'
<1>1. StoreTypes /\ WritesDone /\ UNCHANGED <<creds, dropped, profiles, phase>> /\ nvs \in NvsType
  BY DEF StoreInv, StoreTypes, MarkSeeded
<1>2. saver.next = 2 * MaxCreds + 2 /\ Saving /\ saver.who \in {"migrate", "seed", "form"}
  BY DEF MarkSeeded, Saved, Saving
<1>3. nvs' = [nvs EXCEPT !.seeded = TRUE]
  BY DEF MarkSeeded
<1>4. /\ nvs' \in NvsType /\ nvs'.ssid = nvs.ssid /\ nvs'.pw = nvs.pw /\ nvs'.count = nvs.count
  BY <1>1, <1>3 DEF NvsType
<1>5. Stored' = Stored /\ Stored = creds
  BY <1>1, <1>2, <1>4, SavedIsStored, LocalConstants DEF Stored, Slot
<1>6. IsList(creds)' /\ \A j : Entry(j)' = Entry(j)
  BY <1>1 DEF StoreTypes, IsList, Distinct, Entry
<1>7. CASE saver.who = "seed"
  <2>1. saver' = Idle
    BY <1>7 DEF MarkSeeded
  <2>2. saver' \in [who : Steps, next : 1 .. 2 * MaxCreds + 3] /\ saver'.who = "none"
    BY <2>1, LocalConstants DEF Idle, Steps
  <2>3. StoreTypes'
    BY <1>1, <1>4, <1>6, <2>2 DEF StoreTypes
  <2>4. phase # "up"
    BY <1>7 DEF StoreInv, WhoSaves
  <2>5. QED BY <1>1, <1>5, <2>2, <2>3, <2>4 DEF StoreInv, WritesDone, WhoSaves, InUse,
                Saving
<1>8. CASE saver.who # "seed"
  <2>1. saver' = [saver EXCEPT !.next = saver.next + 1]
    BY <1>8 DEF MarkSeeded
  <2>2. /\ saver' \in [who : Steps, next : 1 .. 2 * MaxCreds + 3]
        /\ saver'.who = saver.who /\ saver'.next = 2 * MaxCreds + 3
    <3>1. /\ MaxCreds \in Nat /\ saver.next + 1 = 2 * MaxCreds + 3
          /\ 2 * MaxCreds + 3 \in 1 .. 2 * MaxCreds + 3
      BY <1>2, LocalConstants
    <3>2. saver \in [who : Steps, next : 1 .. 2 * MaxCreds + 3]
      BY <1>1 DEF StoreTypes
    <3>3. QED BY <2>1, <3>1, <3>2
  <2>3. StoreTypes'
    BY <1>1, <1>4, <1>6, <2>2 DEF StoreTypes
  <2>4. WritesDone'
    <3>1. \A j \in Slots : nvs.ssid[j] = Entry(j).ssid /\ nvs.pw[j] = Entry(j).pw
      BY <1>1, <1>2, LocalConstants DEF WritesDone, Slots
    <3>2. nvs.count = Len(creds)
      BY <1>1, <1>2, LocalConstants DEF WritesDone
    <3>3. QED BY <1>1, <1>4, <1>6, <3>1, <3>2 DEF WritesDone
  <2>5. QED BY <1>1, <1>2, <2>2, <2>3, <2>4 DEF StoreInv, WhoSaves, InUse, Saving
<1>9. QED BY <1>7, <1>8

(* The migration ends.                                                      *)
LEMMA EraseKeeps ==
  ASSUME StoreInv, EraseLegacy, UNCHANGED <<profiles, phase>>
  PROVE  StoreInv'
<1>1. /\ StoreTypes /\ WritesDone /\ UNCHANGED <<creds, dropped, profiles, phase>>
      /\ nvs \in NvsType /\ Saving /\ saver.next = 2 * MaxCreds + 3 /\ saver.who = "migrate"
  BY DEF StoreInv, StoreTypes, EraseLegacy, Saving
<1>2. nvs' = [nvs EXCEPT !.legacy = NoLegacy]
  BY DEF EraseLegacy
<1>3. /\ nvs' \in NvsType /\ nvs'.ssid = nvs.ssid /\ nvs'.pw = nvs.pw /\ nvs'.count = nvs.count
  BY <1>1, <1>2 DEF NvsType
<1>4. Stored' = Stored /\ Stored = creds
  BY <1>1, <1>3, SavedIsStored, LocalConstants DEF Stored, Slot
<1>5. IsList(creds)'
  BY <1>1 DEF StoreTypes, IsList, Distinct
<1>6. saver' \in [who : Steps, next : 1 .. 2 * MaxCreds + 3] /\ saver'.who = "none"
  BY LocalConstants DEF EraseLegacy, Idle, Steps
<1>7. phase # "up"
  BY <1>1 DEF StoreInv, WhoSaves
<1>8. StoreTypes'
  BY <1>1, <1>3, <1>5, <1>6 DEF StoreTypes
<1>9. QED BY <1>1, <1>4, <1>6, <1>7, <1>8 DEF StoreInv, WritesDone, WhoSaves, InUse, Saving

(* The list is saved and applied.                                           *)
LEMMA SavedKeeps ==
  ASSUME StoreInv, UserHasSaved, saver.next > 2 * MaxCreds + 1, Saving, phase = "up",
         profiles' = creds, UNCHANGED phase
  PROVE  StoreInv'
<1>1. StoreTypes /\ WritesDone /\ UNCHANGED <<creds, nvs, phase>> /\ saver' = Idle
  BY DEF StoreInv, UserHasSaved
<1>2. Stored' = Stored /\ Stored = creds
  BY <1>1, SavedIsStored DEF Stored, Slot
<1>3. IsList(creds)' /\ creds \in Seq(Cred) /\ Len(creds) <= MaxCreds
  BY <1>1 DEF StoreTypes, IsList, Distinct
<1>4. saver' \in [who : Steps, next : 1 .. 2 * MaxCreds + 3] /\ saver'.who = "none"
  BY <1>1, LocalConstants DEF Idle, Steps
<1>5. dropped' \subseteq Ssids
  BY DEF UserHasSaved
<1>6. StoreTypes'
  BY <1>1, <1>3, <1>4, <1>5 DEF StoreTypes
<1>7. QED BY <1>1, <1>2, <1>4, <1>6 DEF StoreInv, WritesDone, WhoSaves, InUse, Saving

(* begin() starts, and hands the list to the manager.                       *)
LEMMA BootKeeps ==
  ASSUME StoreInv, Boot \/ BeginStarts
  PROVE  StoreInv'
<1>1. UNCHANGED store /\ StoreTypes /\ WritesDone /\ UNCHANGED <<creds, nvs, saver, dropped>>
  BY DEF Boot, BeginStarts, store, StoreInv
<1>2. IsList(creds)' /\ Stored' = Stored /\ \A i : Entry(i)' = Entry(i)
  BY <1>1 DEF StoreTypes, Stored, Slot, Entry, IsList, Distinct
<1>3. creds \in Seq(Cred) /\ Len(creds) <= MaxCreds
  BY <1>1 DEF StoreTypes, IsList
<1>4. StoreTypes'
  BY <1>1, <1>2, <1>3 DEF StoreTypes, Boot, BeginStarts, Phases, manager
<1>5. WritesDone'
  BY <1>1, <1>2 DEF WritesDone, Saving
<1>6. WhoSaves' /\ InUse'
  BY <1>1, <1>2 DEF StoreInv, WhoSaves, InUse, Saving, Boot, BeginStarts, manager
<1>7. QED BY <1>4, <1>5, <1>6 DEF StoreInv

(* A restart, after a cut or after a factory reset.                         *)
LEMMA ResetKeepsStore ==
  ASSUME Reset, nvs' \in NvsType, dropped' \subseteq Ssids
  PROVE  StoreInv'
<1>1. /\ creds' = <<>> /\ profiles' = <<>> /\ saver' = Idle /\ phase' = "off"
  BY DEF Reset, StoreReset
<1>2. IsList(creds)' /\ profiles' \in Seq(Cred) /\ Len(profiles') <= MaxCreds
  BY <1>1, EmptyIsList, LocalConstants DEF IsList, Distinct
<1>3. saver' \in [who : Steps, next : 1 .. 2 * MaxCreds + 3] /\ saver'.who = "none"
  BY <1>1, LocalConstants DEF Idle, Steps
<1>4. QED
  BY <1>1, <1>2, <1>3 DEF StoreInv, StoreTypes, WritesDone, WhoSaves, InUse, Saving, Phases

(* NVS after a factory reset, and before the first boot.                    *)
LEMMA ErasedType ==
  Erased \in NvsType /\ \A c \in Legacy \cup {NoLegacy} : [Erased EXCEPT !.legacy = c] \in NvsType
<1>1. Erased \in NvsType
  BY LocalConstants DEF Erased, NvsType, NoLegacy, Pws
<1>2. ASSUME NEW c \in Legacy \cup {NoLegacy}
      PROVE  [Erased EXCEPT !.legacy = c] \in NvsType
  <2>1. c \in Cred \cup {NoLegacy}
    BY LocalConstants
  <2>2. QED BY <1>1, <2>1 DEF NvsType
<1>3. QED BY <1>1, <1>2

(* The list in use is the one in NVS.                                       *)
THEOREM StoreInvariant == WifiSpec => []StoreInv
<1>1. WifiInit => StoreInv
  <2> SUFFICES ASSUME WifiInit PROVE StoreInv
    OBVIOUS
  <2>1. /\ nvs \in NvsType /\ creds = <<>> /\ profiles = <<>>
        /\ saver = Idle /\ dropped = {} /\ phase = "off"
    BY ErasedType DEF WifiInit, StoreInit
  <2>2. IsList(creds) /\ profiles \in Seq(Cred) /\ Len(profiles) <= MaxCreds
    BY <2>1, EmptyIsList, LocalConstants
  <2>3. saver \in [who : Steps, next : 1 .. 2 * MaxCreds + 3] /\ saver.who = "none"
    BY <2>1, LocalConstants DEF Idle, Steps
  <2>4. QED BY <2>1, <2>2, <2>3 DEF StoreInv, StoreTypes, WritesDone, WhoSaves, InUse,
                                    Saving, Phases
<1>2. ASSUME StoreInv, [WifiNext]_vars PROVE StoreInv'
  <2>1. CASE UNCHANGED vars \/ Handles \/ Links \/ AttemptFails \/ LinkLost \/ Tick
    BY <1>2, <2>1, StoreKept
       DEF vars, Handles, Links, AttemptFails, LinkLost, Tick, kept, manager
  <2>2. CASE Begin
    <3>1. CASE Boot \/ BeginStarts
      BY <1>2, <3>1, BootKeeps
    <3>2. CASE BeginLoads
      BY <1>2, <3>2, LoadKeeps DEF BeginLoads, StoreInv, WhoSaves, manager
    <3>3. CASE BeginSeeds
      BY <1>2, <3>3, SeedKeeps
    <3>4. CASE BeginReloads
      BY <1>2, <3>4, LoadKeeps DEF BeginReloads, manager
    <3>5. CASE StoreGoesOn
      BY <1>2, <3>5, WriteKeeps, MarkKeeps, EraseKeeps DEF StoreGoesOn, manager
    <3>6. QED BY <2>2, <3>1, <3>2, <3>3, <3>4, <3>5 DEF Begin
  <2>3. CASE HandlerGoesOn
    <3>1. CASE ListSaved
      <4>1. phase = "up" /\ Saving /\ saver.next > 2 * MaxCreds + 1
        BY <1>2, <3>1, LocalConstants DEF ListSaved, Saved, StoreInv, WhoSaves, Saving
      <4>2. QED BY <1>2, <3>1, <4>1, SavedKeeps DEF ListSaved, Apply
    <3>2. CASE FormSaved
      <4>1. phase = "up" /\ Saving /\ saver.next > 2 * MaxCreds + 1
        BY <1>2, <3>2, LocalConstants DEF FormSaved, StoreInv, WhoSaves, Saving
      <4>2. QED BY <1>2, <3>2, <4>1, SavedKeeps DEF FormSaved, Apply
    <3>3. CASE PortalStops \/ Disconnects \/ Marks \/ Restarts
      BY <1>2, <3>3, StoreKept DEF PortalStops, Disconnects, Marks, Restarts, kept, manager
    <3>4. QED BY <2>3, <3>1, <3>2, <3>3 DEF HandlerGoesOn
  <2>4. CASE Button \/ Exit
    BY <1>2, <2>4, StoreKept DEF Button, Exit, kept, manager
  <2>5. CASE SaveList
    BY <1>2, <2>5, ListIsSaved, ReplaceKeeps DEF SaveList, Request, manager
  <2>6. CASE SubmitForm
    BY <1>2, <2>6, FormIsSaved, ReplaceKeeps DEF SubmitForm, Request, manager
  <2>7. CASE FactoryReset
    BY <2>7, ErasedType, ResetKeepsStore DEF FactoryReset
  <2>8. CASE PowerCut
    BY <1>2, <2>8, ResetKeepsStore DEF PowerCut, StoreInv, StoreTypes
  <2>9. QED
    BY <1>2, <2>1, <2>2, <2>3, <2>4, <2>5, <2>6, <2>7, <2>8 DEF WifiNext, User
<1>3. QED BY <1>1, <1>2, PTL DEF WifiSpec

(* Nothing names a network that is left out.                                *)
LeftOut ==
  /\ SsidsOf(creds) \cap dropped = {}
  /\ \A i \in Slots : nvs.ssid[i] \notin dropped
  /\ nvs.legacy.ssid \notin dropped
  /\ phase = "up" => SsidsOf(profiles) \cap dropped = {}

IsStaged(name) == name \in SsidsOf(Staged)

(* A list of two or more entries, while the mark is missing, has been       *)
(* seeded, so that the next seeding has something to add or to confirm.     *)
HoldsStaged ==
  \/ nvs.count <= 1
  \/ \E i \in 1 .. nvs.count :
       /\ IsStaged(nvs.ssid[i])
       /\ saver.who = "seed" => \E p \in 1 .. i : p <= Len(creds) /\ creds[p].ssid = nvs.ssid[i]

(* A device is seeded before the user drops anything.                       *)
SeededInTime ==
  /\ saver.who = "migrate" /\ saver.next = 2 * MaxCreds + 3 => nvs.seeded
  /\ Staged # <<>> /\ ~nvs.seeded =>
       /\ dropped = {} /\ phase # "up"
       /\ phase \in {"reload", "start"} => Saving
       /\ saver.who = "migrate" => nvs.count <= 1 /\ Len(creds) = 1
       /\ saver.who = "seed" => \E p \in 1 .. Len(creds) : IsStaged(creds[p].ssid)
       /\ HoldsStaged

LeftInv == StoreInv /\ LeftOut /\ SeededInTime

(* The same steps once more, for what is left out.  Those that touch nothing *)
(* of it come first.                                                        *)
LEMMA LeftKept ==
  ASSUME LeftInv, UNCHANGED kept
  PROVE  LeftOut' /\ SeededInTime'
<1>1. UNCHANGED <<creds, nvs, saver, dropped, profiles, phase>>
  BY DEF kept, store
<1>2. LeftOut'
  BY <1>1 DEF LeftInv, LeftOut, SsidsOf
<1>3. SeededInTime'
  BY <1>1 DEF LeftInv, SeededInTime, HoldsStaged, Saving
<1>4. QED BY <1>2, <1>3

(* load() finds nothing that was left out, neither in the slots nor in wifi0. *)
LEMMA LoadLeaves ==
  ASSUME LeftInv, ~Saving, Load, UNCHANGED profiles,
         (phase = "load" /\ phase' = "seed") \/ (phase = "reload" /\ phase' = "start")
  PROVE  LeftOut' /\ SeededInTime'
<1>1. /\ StoreTypes /\ nvs \in NvsType /\ dropped \subseteq Ssids
      /\ UNCHANGED <<nvs, dropped, profiles>>
  BY DEF LeftInv, StoreInv, StoreTypes, Load
<1>2. SsidsOf(Stored) \cap dropped = {}
  BY <1>1, StoredIsList DEF LeftInv, LeftOut
<1>3. SsidsOf(<<nvs.legacy>>) = {nvs.legacy.ssid}
  BY DEF SsidsOf
<1>4. SsidsOf(creds') \cap dropped = {}
  BY <1>2, <1>3, EmptyIsList DEF Load, LeftInv, LeftOut
<1>5. LeftOut'
  BY <1>1, <1>4 DEF LeftInv, LeftOut, SsidsOf
<1>6. CASE UNCHANGED saver
  <2>1. saver.who = "none" /\ saver'.who = "none"
    BY <1>6 DEF Saving
  <2>2. HoldsStaged' <=> HoldsStaged
    BY <1>1, <2>1 DEF HoldsStaged
  <2>3. QED BY <1>1, <1>5, <2>1, <2>2 DEF LeftInv, SeededInTime, Saving
<1>7. CASE SaveBegins("migrate")
  <2>1. saver'.who = "migrate" /\ saver'.next = 1
    BY <1>7 DEF SaveBegins
  <2>2. CASE nvs.count = 0 /\ nvs.legacy # NoLegacy
    <3>1. creds' = <<nvs.legacy>>
      BY <2>2 DEF Load
    <3>2. Len(creds') = 1
      BY <3>1
    <3>3. HoldsStaged'
      BY <1>1, <2>2 DEF HoldsStaged
    <3>4. QED BY <1>1, <1>5, <2>1, <2>2, <3>2, <3>3, LocalConstants
              DEF LeftInv, SeededInTime, Saving
  <2>3. CASE ~(nvs.count = 0 /\ nvs.legacy # NoLegacy)
    BY <1>6, <2>3 DEF Load
  <2>4. QED BY <2>2, <2>3
<1>8. QED BY <1>6, <1>7 DEF Load

(* A sketch that names networks names a first one.                          *)
LEMMA FirstStaged ==
  ASSUME Staged # <<>>
  PROVE  Len(Staged) \in Nat /\ Len(Staged) >= 1 /\ Staged[1] \in Cred /\ IsStaged(Staged[1].ssid)
         /\ Staged[1].ssid # NoSsid /\ Staged[1] \in Range(Staged)
<1>1. Len(Staged) \in Nat /\ Len(Staged) >= 1 /\ Staged[1] \in Cred
  BY LocalConstants
<1>2. QED BY <1>1, LocalConstants DEF IsStaged, SsidsOf, Cred, Range

(* Seeding brings nothing back: a device that may seed has not dropped      *)
(* anything yet.  This is where a second slot is needed.                    *)
LEMMA SeedLeaves ==
  ASSUME MaxCreds > 1, LeftInv, BeginSeeds
  PROVE  LeftOut' /\ SeededInTime'
<1>1. /\ StoreTypes /\ UNCHANGED <<nvs, dropped, profiles>> /\ phase = "seed" /\ ~Saving
      /\ nvs \in NvsType /\ IsList(creds) /\ creds = Stored
  BY DEF LeftInv, StoreInv, StoreTypes, InUse, BeginSeeds, Seed, manager
<1>2. phase' # "up" /\ (phase' = "start" => nvs.seeded)
  BY DEF BeginSeeds
<1>3. CASE nvs.seeded \/ Staged = <<>>
  <2>1. UNCHANGED <<creds, saver>>
    BY <1>3 DEF BeginSeeds, Seed, Range
  <2>2. QED
    BY <1>1, <1>2, <1>3, <2>1 DEF LeftInv, LeftOut, SeededInTime, Saving, SsidsOf
<1>4. CASE ~nvs.seeded /\ Staged # <<>>
  <2>1. dropped = {} /\ HoldsStaged
    BY <1>4 DEF LeftInv, SeededInTime
  <2>2. LeftOut'
    BY <1>1, <1>2, <2>1 DEF LeftOut
  <2>3. Staged \in Seq(AnyCred) /\ Len(Staged) \in Nat /\ Len(creds) \in Nat /\ nvs.count \in Nat
    BY <1>1, LocalConstants, CredSeq DEF IsList, NvsType
  <2>4. Grown(creds, Staged, AddAll(creds, Staged), Len(Staged))
    BY <1>1, <2>3, AddAllGrows
  <2>5. CASE nvs.count <= 1
    <3>1. Len(creds) < MaxCreds
      BY <1>1, <2>3, <2>5, StoredIsList, LocalConstants
    <3>2. creds' = AddAll(creds, Staged) /\ SaveBegins("seed")
      BY <1>4, <3>1, FirstStaged DEF BeginSeeds, Seed
    <3>3. \E p \in 1 .. Len(creds') : IsStaged(creds'[p].ssid)
      <4>1. \E p \in 1 .. Len(creds) + 1 : p <= Len(creds') /\ creds'[p].ssid = Staged[1].ssid
        BY <1>4, <2>3, <2>4, <3>1, <3>2, FirstStaged, LocalConstants DEF Grown
      <4>2. Len(creds') \in Nat
        BY <2>4, <3>2 DEF Grown, IsList
      <4>3. QED BY <1>4, <2>3, <4>1, <4>2, FirstStaged
    <3>4. HoldsStaged'
      BY <1>1, <2>5 DEF HoldsStaged
    <3>5. saver'.who = "seed"
      BY <3>2 DEF SaveBegins
    <3>6. QED BY <1>1, <1>2, <2>1, <2>2, <3>3, <3>4, <3>5 DEF SeededInTime, Saving
  <2>6. CASE ~(nvs.count <= 1)
    <3>1. PICK i \in 1 .. nvs.count : IsStaged(nvs.ssid[i])
      BY <2>1, <2>6 DEF HoldsStaged
    <3>2. nvs.ssid[i] # NoSsid
      <4>1. SsidsOf(Staged) \subseteq Ssids
        BY LocalConstants, ListSsids
      <4>2. QED BY <3>1, <4>1, LocalConstants DEF IsStaged
    <3>3. PICK p \in 1 .. i : p <= Len(creds) /\ creds[p].ssid = nvs.ssid[i]
      BY <1>1, <3>1, <3>2, StoredIsList
    <3>4. \E c \in Range(Staged) : c.ssid \in SsidsOf(creds)
      <4>1. PICK j \in 1 .. Len(Staged) : Staged[j].ssid = nvs.ssid[i]
        BY <3>1 DEF IsStaged, SsidsOf
      <4>2. nvs.ssid[i] \in SsidsOf(creds)
        BY <2>3, <3>1, <3>3 DEF SsidsOf
      <4>3. Staged[j] \in Range(Staged)
        BY LocalConstants, <4>1 DEF Range
      <4>4. QED BY <4>1, <4>2, <4>3
    <3>5. creds' = AddAll(creds, Staged) /\ SaveBegins("seed")
      BY <1>4, <3>4 DEF BeginSeeds, Seed
    <3>6. saver'.who = "seed"
      BY <3>5 DEF SaveBegins
    <3>7. Len(creds') \in Nat /\ p <= Len(creds') /\ creds'[p].ssid = nvs.ssid[i]
      BY <2>3, <2>4, <3>1, <3>3, <3>5 DEF Grown, IsList
    <3>8. HoldsStaged'
      BY <1>1, <3>1, <3>7 DEF HoldsStaged
    <3>9. \E q \in 1 .. Len(creds') : IsStaged(creds'[q].ssid)
      BY <3>1, <3>7
    <3>10. QED BY <1>1, <1>2, <2>1, <2>2, <3>6, <3>8, <3>9 DEF SeededInTime, Saving
  <2>7. QED BY <2>5, <2>6
<1>5. QED BY <1>3, <1>4

(* One write of save().                                                     *)
LEMMA WriteLeaves ==
  ASSUME LeftInv, SaveWrites, UNCHANGED <<profiles, phase>>
  PROVE  LeftOut' /\ SeededInTime'
<1> DEFINE k == saver.next
           i == (k + 1) \div 2
<1>1. /\ StoreTypes /\ WritesDone /\ Saving /\ UNCHANGED <<creds, dropped, profiles, phase>>
      /\ k \in 1 .. 2 * MaxCreds + 1 /\ MaxCreds \in Nat \ {0} /\ Len(creds) \in 0 .. MaxCreds
      /\ nvs \in NvsType /\ dropped \subseteq Ssids
  BY LocalConstants DEF LeftInv, StoreInv, StoreTypes, SaveWrites, IsList
<1>2. saver' = [saver EXCEPT !.next = k + 1]
  BY DEF SaveWrites
<1>3. saver'.who = saver.who /\ saver'.next = k + 1
  BY <1>1, <1>2 DEF StoreTypes
<1>4. ASSUME NEW j \in Slots PROVE Entry(j).ssid \notin dropped
  <2>1. CASE j <= Len(creds)
    BY <1>1, <2>1 DEF Entry, Slots, SsidsOf, LeftInv, LeftOut
  <2>2. CASE ~(j <= Len(creds))
    BY <1>1, <2>2, LocalConstants DEF Entry, NoLegacy
  <2>3. QED BY <2>1, <2>2
<1>5. CASE k = 2 * MaxCreds + 1
  <2>1. nvs' = [nvs EXCEPT !.count = Len(creds)]
    BY <1>1, <1>5 DEF SaveWrites, Written
  <2>2. /\ nvs'.ssid = nvs.ssid /\ nvs'.count = Len(creds)
        /\ nvs'.seeded = nvs.seeded /\ nvs'.legacy = nvs.legacy
    BY <1>1, <2>1 DEF NvsType
  <2>3. LeftOut'
    BY <1>1, <2>2 DEF LeftInv, LeftOut, SsidsOf
  <2>4. ASSUME Staged # <<>>, ~nvs.seeded PROVE HoldsStaged'
    <3>1. saver.who \in {"migrate", "seed"} /\ (saver.who = "migrate" => Len(creds) = 1)
      BY <1>1, <2>4 DEF LeftInv, SeededInTime, StoreInv, WhoSaves, Saving
    <3>2. CASE saver.who = "migrate"
      BY <2>2, <3>1, <3>2 DEF HoldsStaged
    <3>3. CASE saver.who = "seed"
      <4>1. PICK p \in 1 .. Len(creds) : IsStaged(creds[p].ssid)
        BY <2>4, <3>3 DEF LeftInv, SeededInTime
      <4>2. p \in Slots /\ 2 * p - 1 < k
        BY <1>1, <1>5, <4>1 DEF Slots
      <4>3. nvs.ssid[p] = creds[p].ssid
        BY <1>1, <4>2 DEF WritesDone, Entry
      <4>4. QED BY <1>1, <2>2, <4>1, <4>3 DEF HoldsStaged
    <3>4. QED BY <3>1, <3>2, <3>3
  <2>5. SeededInTime'
    <3>1. saver'.next # 2 * MaxCreds + 3 /\ saver'.who = saver.who /\ (Saving' <=> Saving)
      BY <1>1, <1>3, <1>5 DEF Saving
    <3>2. ASSUME saver.who = "migrate", ~nvs.seeded, Staged # <<>> PROVE nvs'.count <= 1
      <4>1. Len(creds) = 1
        BY <3>2 DEF LeftInv, SeededInTime
      <4>2. QED BY <2>2, <4>1
    <3>3. saver.who = "seed" /\ ~nvs.seeded /\ Staged # <<>> =>
            (\E p \in 1 .. Len(creds) : IsStaged(creds[p].ssid))'
      BY <1>1 DEF LeftInv, SeededInTime, IsStaged
    <3>4. QED BY <1>1, <2>2, <2>4, <3>1, <3>2, <3>3 DEF LeftInv, SeededInTime
  <2>6. QED BY <2>3, <2>5
<1>6. CASE k <= 2 * MaxCreds /\ k % 2 = 1
  <2>1. i \in Slots /\ k = 2 * i - 1
    BY <1>1, <1>6 DEF Slots
  <2>2. nvs' = [nvs EXCEPT !.ssid = [nvs.ssid EXCEPT ![i] = Entry(i).ssid]]
    <3>1. nvs' = [nvs EXCEPT !.ssid[i] = Entry(i).ssid]
      BY <1>1, <1>6 DEF SaveWrites, Written, Entry
    <3> HIDE DEF i
    <3>2. QED BY <3>1
  <2> HIDE DEF i, k
  <2>3. /\ nvs'.ssid = [nvs.ssid EXCEPT ![i] = Entry(i).ssid] /\ nvs'.count = nvs.count
        /\ nvs'.seeded = nvs.seeded /\ nvs'.legacy = nvs.legacy
    BY <1>1, <2>2 DEF NvsType
  <2>4. \A j \in Slots : nvs'.ssid[j] = IF j = i THEN Entry(i).ssid ELSE nvs.ssid[j]
    BY <1>1, <2>1, <2>3 DEF NvsType
  <2>5. LeftOut'
    BY <1>1, <1>4, <2>3, <2>4 DEF LeftInv, LeftOut, SsidsOf
  <2>6. ASSUME Staged # <<>>, ~nvs.seeded PROVE HoldsStaged'
    <3>1. CASE nvs.count <= 1
      BY <2>3, <3>1 DEF HoldsStaged
    <3>2. CASE ~(nvs.count <= 1)
      <4>1. saver.who = "seed" /\ HoldsStaged
        BY <1>1, <2>6, <3>2 DEF LeftInv, SeededInTime, StoreInv, WhoSaves, Saving
      <4> PICK h \in 1 .. nvs.count :
              /\ IsStaged(nvs.ssid[h])
              /\ \E p \in 1 .. h : p <= Len(creds) /\ creds[p].ssid = nvs.ssid[h]
        BY <3>2, <4>1 DEF HoldsStaged
      <4> PICK p \in 1 .. h : p <= Len(creds) /\ creds[p].ssid = nvs.ssid[h]
        OBVIOUS
      <4>2. IsStaged(nvs.ssid[h]) /\ p <= Len(creds) /\ creds[p].ssid = nvs.ssid[h]
        OBVIOUS
      <4>3. h \in Slots /\ p \in Slots /\ p \in 1 .. nvs.count /\ nvs.count \in Nat
        BY <1>1, <4>2 DEF Slots, NvsType
      <4>4. CASE h # i
        <5>1. nvs'.ssid[h] = nvs.ssid[h]
          BY <2>4, <4>3, <4>4
        <5>2. QED BY <1>1, <2>3, <4>2, <5>1 DEF HoldsStaged
      <4>5. CASE h = i
        <5>1. nvs'.ssid[p] = creds[p].ssid
          <6>1. CASE p = i
            BY <2>4, <4>2, <4>3, <6>1 DEF Entry
          <6>2. CASE p # i
            <7>1. 2 * p - 1 < k
              BY <2>1, <4>2, <4>3, <4>5, <6>2 DEF Slots
            <7>2. nvs.ssid[p] = creds[p].ssid
              BY <1>1, <4>2, <4>3, <7>1 DEF WritesDone, Entry, k
            <7>3. QED BY <2>4, <4>3, <6>2, <7>2
          <6>3. QED BY <6>1, <6>2
        <5>2. IsStaged(nvs'.ssid[p]) /\ p \in 1 .. nvs'.count /\ p \in 1 .. p
          BY <2>3, <4>2, <4>3, <5>1
        <5>3. QED BY <1>1, <4>2, <5>1, <5>2 DEF HoldsStaged
      <4>6. QED BY <4>4, <4>5
    <3>3. QED BY <3>1, <3>2
  <2>7. SeededInTime'
    BY <1>1, <1>3, <2>1, <2>3, <2>6 DEF LeftInv, SeededInTime, Saving, k, Slots
  <2>8. QED BY <2>5, <2>7
<1>7. CASE k <= 2 * MaxCreds /\ k % 2 # 1
  <2>1. i \in Slots
    BY <1>1, <1>7 DEF Slots
  <2>2. nvs' = [nvs EXCEPT !.pw = [nvs.pw EXCEPT ![i] = Entry(i).pw]]
    <3>1. nvs' = [nvs EXCEPT !.pw[i] = Entry(i).pw]
      BY <1>1, <1>7 DEF SaveWrites, Written, Entry
    <3> HIDE DEF i
    <3>2. QED BY <3>1
  <2> HIDE DEF i
  <2>3. /\ nvs'.ssid = nvs.ssid /\ nvs'.count = nvs.count
        /\ nvs'.seeded = nvs.seeded /\ nvs'.legacy = nvs.legacy
    BY <1>1, <2>2 DEF NvsType
  <2>4. LeftOut'
    BY <1>1, <2>3 DEF LeftInv, LeftOut, SsidsOf
  <2>5. HoldsStaged' <=> HoldsStaged
    BY <1>1, <1>3, <2>3 DEF HoldsStaged
  <2>6. SeededInTime'
    BY <1>1, <1>3, <1>7, <2>3, <2>5 DEF LeftInv, SeededInTime, Saving
  <2>7. QED BY <2>4, <2>6
<1>8. QED BY <1>1, <1>5, <1>6, <1>7

(* The mark, and the end of the migration.                                  *)
LEMMA MarkLeaves ==
  ASSUME LeftInv, MarkSeeded, UNCHANGED <<profiles, phase>>
  PROVE  LeftOut' /\ SeededInTime'
<1>1. /\ nvs \in NvsType /\ nvs' = [nvs EXCEPT !.seeded = TRUE]
      /\ UNCHANGED <<creds, dropped, profiles, phase>>
  BY DEF LeftInv, StoreInv, StoreTypes, MarkSeeded
<1>2. nvs'.seeded /\ nvs'.ssid = nvs.ssid /\ nvs'.legacy = nvs.legacy
  BY <1>1 DEF NvsType
<1>3. QED BY <1>1, <1>2 DEF LeftInv, LeftOut, SeededInTime, SsidsOf

(* wifi0 goes only after the mark.                                          *)
LEMMA EraseLeaves ==
  ASSUME LeftInv, EraseLegacy, UNCHANGED <<profiles, phase>>
  PROVE  LeftOut' /\ SeededInTime'
<1>1. /\ nvs \in NvsType /\ UNCHANGED <<creds, dropped, profiles, phase>>
      /\ nvs' = [nvs EXCEPT !.legacy = NoLegacy] /\ dropped \subseteq Ssids
  BY DEF LeftInv, StoreInv, StoreTypes, EraseLegacy
<1>2. nvs.seeded
  BY DEF EraseLegacy, LeftInv, SeededInTime
<1>3. nvs'.seeded /\ nvs'.ssid = nvs.ssid /\ nvs'.legacy = NoLegacy
  BY <1>1, <1>2 DEF NvsType
<1>4. QED BY <1>1, <1>3, LocalConstants DEF LeftInv, LeftOut, SeededInTime, SsidsOf,
              NoLegacy

(* A network the new list names is left out no more.                        *)
LEMMA ReplaceLeaves ==
  ASSUME LeftInv, NEW who \in {"menu", "form"}, Saves(who), phase = "up",
         UNCHANGED <<profiles, phase>>
  PROVE  LeftOut' /\ SeededInTime'
<1>1. PICK list \in Seq(Cred) :
        /\ creds' = SetAll(list) /\ SaveBegins(who)
        /\ dropped' = dropped \ SsidsOf(list) /\ UNCHANGED nvs
  BY DEF Saves, Replace
<1>2. SsidsOf(creds') \subseteq SsidsOf(list)
  BY <1>1, SetAllIsList DEF LeftInv, StoreInv, StoreTypes
<1>3. saver'.who = who
  BY <1>1 DEF SaveBegins
<1>4. LeftOut'
  BY <1>1, <1>2 DEF LeftInv, LeftOut, SsidsOf
<1>5. nvs.seeded \/ Staged = <<>>
  BY DEF LeftInv, SeededInTime
<1>6. QED BY <1>1, <1>3, <1>4, <1>5 DEF SeededInTime

(* What the saved list does not name is left out from here on.              *)
LEMMA SavedLeaves ==
  ASSUME LeftInv, UserHasSaved, saver.next > 2 * MaxCreds + 1, Saving, phase = "up",
         profiles' = creds, UNCHANGED phase
  PROVE  LeftOut' /\ SeededInTime'
<1>1. /\ StoreTypes /\ WritesDone /\ UNCHANGED <<creds, nvs, phase>> /\ saver' = Idle
      /\ dropped' = Ssids \ (SsidsOf(creds) \cup {nvs.legacy.ssid})
      /\ saver.next \in Nat /\ MaxCreds \in Nat
  BY LocalConstants DEF LeftInv, StoreInv, StoreTypes, UserHasSaved
<1>2. ASSUME NEW j \in Slots PROVE nvs.ssid[j] \notin dropped'
  <2>1. nvs.ssid[j] = Entry(j).ssid
    BY <1>1 DEF WritesDone, Slots
  <2>2. CASE j <= Len(creds)
    BY <1>1, <2>1, <2>2 DEF Entry, SsidsOf, Slots
  <2>3. CASE ~(j <= Len(creds))
    BY <1>1, <2>1, <2>3, LocalConstants DEF Entry, NoLegacy
  <2>4. QED BY <2>2, <2>3
<1>3. LeftOut'
  BY <1>1, <1>2 DEF LeftOut, SsidsOf
<1>4. nvs.seeded \/ Staged = <<>>
  BY DEF LeftInv, SeededInTime
<1>5. saver'.who = "none"
  BY <1>1 DEF Idle
<1>6. QED BY <1>1, <1>3, <1>4, <1>5 DEF SeededInTime

(* begin() starts, and hands the list to the manager.                       *)
LEMMA BootLeaves ==
  ASSUME LeftInv, Boot \/ BeginStarts
  PROVE  LeftOut' /\ SeededInTime'
<1>1. UNCHANGED <<creds, nvs, saver, dropped>>
  BY DEF Boot, BeginStarts, store
<1>2. CASE Boot
  BY <1>1, <1>2 DEF LeftInv, LeftOut, SeededInTime, HoldsStaged, SsidsOf, Boot, manager
<1>3. CASE BeginStarts
  <2>1. profiles' = creds /\ phase = "start" /\ phase' = "up" /\ ~Saving
    BY <1>3 DEF BeginStarts
  <2>2. nvs.seeded \/ Staged = <<>>
    BY <2>1 DEF LeftInv, SeededInTime
  <2>3. LeftOut'
    BY <1>1, <2>1 DEF LeftInv, LeftOut, SsidsOf
  <2>4. QED BY <1>1, <2>1, <2>2, <2>3 DEF SeededInTime, Saving
<1>4. QED BY <1>2, <1>3

(* A power cut leaves NVS as it is, a factory reset clears it.              *)
LEMMA CutLeaves ==
  ASSUME LeftInv, Reset, UNCHANGED <<nvs, dropped>>
  PROVE  LeftOut' /\ SeededInTime'
<1>1. creds' = <<>> /\ saver' = Idle /\ phase' = "off" /\ saver'.who = "none"
  BY DEF Reset, StoreReset, Idle
<1>2. SsidsOf(creds') = {}
  BY <1>1, EmptyIsList
<1>3. LeftOut'
  BY <1>1, <1>2 DEF LeftInv, LeftOut
<1>4. HoldsStaged => HoldsStaged'
  BY <1>1 DEF HoldsStaged
<1>5. QED BY <1>1, <1>3, <1>4 DEF LeftInv, SeededInTime

(* After a factory reset nothing is left out.                               *)
LEMMA FreshLeaves ==
  ASSUME Reset, nvs' = Erased, dropped' = {}
  PROVE  LeftOut' /\ SeededInTime'
<1>1. /\ creds' = <<>> /\ saver' = Idle /\ phase' = "off" /\ saver'.who = "none"
      /\ nvs'.count = 0
  BY DEF Reset, StoreReset, Idle, Erased
<1>2. HoldsStaged'
  BY <1>1 DEF HoldsStaged
<1>3. QED BY <1>1, <1>2 DEF LeftOut, SeededInTime

(* With at least two slots nothing names a network that is left out.  With one, *)
(* a migration that is cut before the mark fills the list, the sketch's networks *)
(* wait outside, and a list the user empties later lets them in again.      *)
THEOREM LeftInvariant == MaxCreds > 1 => (WifiSpec => []LeftInv)
<1> SUFFICES ASSUME MaxCreds > 1 PROVE WifiSpec => []LeftInv
  OBVIOUS
<1>1. WifiInit => LeftOut /\ SeededInTime
  <2> SUFFICES ASSUME WifiInit PROVE LeftOut /\ SeededInTime
    OBVIOUS
  <2>1. /\ saver.who = "none" /\ dropped = {} /\ phase = "off" /\ nvs.count = 0
    BY DEF WifiInit, StoreInit, Idle, Erased
  <2>2. QED BY <2>1 DEF LeftOut, SeededInTime, HoldsStaged
<1>2. ASSUME StoreInv, StoreInv', LeftOut, SeededInTime, [WifiNext]_vars
      PROVE  LeftOut' /\ SeededInTime'
  <2> LeftInv
    BY <1>2 DEF LeftInv
  <2>1. CASE UNCHANGED vars \/ Handles \/ Links \/ AttemptFails \/ LinkLost \/ Tick
    BY <1>2, <2>1, LeftKept
       DEF vars, Handles, Links, AttemptFails, LinkLost, Tick, kept, manager
  <2>2. CASE Begin
    <3>1. CASE Boot \/ BeginStarts
      BY <3>1, BootLeaves
    <3>2. CASE BeginLoads
      BY <1>2, <3>2, LoadLeaves DEF BeginLoads, StoreInv, WhoSaves, manager
    <3>3. CASE BeginSeeds
      BY <3>3, SeedLeaves
    <3>4. CASE BeginReloads
      BY <3>4, LoadLeaves DEF BeginReloads, manager
    <3>5. CASE StoreGoesOn
      BY <3>5, WriteLeaves, MarkLeaves, EraseLeaves DEF StoreGoesOn, manager
    <3>6. QED BY <2>2, <3>1, <3>2, <3>3, <3>4, <3>5 DEF Begin
  <2>3. CASE HandlerGoesOn
    <3>1. CASE ListSaved
      <4>1. phase = "up" /\ Saving /\ saver.next > 2 * MaxCreds + 1
        BY <1>2, <3>1, LocalConstants DEF ListSaved, Saved, StoreInv, WhoSaves, Saving
      <4>2. QED BY <3>1, <4>1, SavedLeaves DEF ListSaved, Apply
    <3>2. CASE FormSaved
      <4>1. phase = "up" /\ Saving /\ saver.next > 2 * MaxCreds + 1
        BY <1>2, <3>2, LocalConstants DEF FormSaved, StoreInv, WhoSaves, Saving
      <4>2. QED BY <3>2, <4>1, SavedLeaves DEF FormSaved, Apply
    <3>3. CASE PortalStops \/ Disconnects \/ Marks \/ Restarts
      BY <3>3, LeftKept DEF PortalStops, Disconnects, Marks, Restarts, kept, manager
    <3>4. QED BY <2>3, <3>1, <3>2, <3>3 DEF HandlerGoesOn
  <2>4. CASE Button \/ Exit
    BY <2>4, LeftKept DEF Button, Exit, kept, manager
  <2>5. CASE SaveList
    BY <2>5, ListIsSaved, ReplaceLeaves DEF SaveList, Request, manager
  <2>6. CASE SubmitForm
    BY <1>2, <2>6, FormIsSaved, ReplaceLeaves DEF SubmitForm, Request, manager
  <2>7. CASE FactoryReset
    BY <2>7, FreshLeaves DEF FactoryReset
  <2>8. CASE PowerCut
    BY <2>8, CutLeaves DEF PowerCut
  <2>9. QED
    BY <1>2, <2>1, <2>2, <2>3, <2>4, <2>5, <2>6, <2>7, <2>8 DEF WifiNext, User
<1>3. WifiSpec => [](LeftOut /\ SeededInTime)
  BY <1>1, <1>2, StoreInvariant, PTL DEF WifiSpec
<1>4. QED BY <1>3, StoreInvariant, PTL DEF LeftInv

(* While nothing is being saved, the list in use is the one the next boot   *)
(* loads, whatever was cut short before (pulsync_wifi_store_save).          *)
THEOREM ListInUseIsStored == WifiSpec => []ListIsStored
<1>1. StoreInv => ListIsStored
  BY DEF StoreInv, InUse, ListIsStored
<1>2. QED BY <1>1, StoreInvariant, PTL

(* And a network the user has left out does not come back, neither from the *)
(* sketch nor from an older list (pulsync_wifi_store_commit_seed).          *)
THEOREM ListsSurvive == MaxCreds > 1 => (WifiSpec => []ListSurvives)
<1> SUFFICES ASSUME MaxCreds > 1 PROVE WifiSpec => []ListSurvives
  OBVIOUS
<1>1. LeftInv => ListSurvives
  BY DEF LeftInv, LeftOut, StoreInv, InUse, ListSurvives, ListIsStored, DroppedStaysDropped
<1>2. QED BY <1>1, LeftInvariant, PTL

(* The types of the manager, which the length of the list bounds.           *)
ManagerTypes ==
  /\ current \in 1 .. MaxCreds /\ retries \in 0 .. MaxRetries - 1
  /\ state \in {"DISCONNECTED", "CONNECTING", "CONNECTED"}
  /\ radio \in {"idle", "connecting", "linked"} /\ event \in {"none", "ip", "disc"}
  /\ target \in Cred \cup {NoTarget} /\ portal \in {"closed", "enroll", "config"}

Bounds == MaxCreds \in Nat \ {0} /\ MaxRetries \in Nat \ {0}

(* Slots and retries are at least one.                                      *)
LEMMA BoundsHold == Bounds
BY LocalConstants, WifiAssumption DEF Bounds, WifiAssumption

(* Steps of the others.                                                     *)
LEMMA ManagerKept ==
  ASSUME ManagerTypes, UNCHANGED <<current, retries, state, radio, event, target, portal>>
  PROVE  ManagerTypes'
BY DEF ManagerTypes

(* What try_connect_profile, start() and the handler of events leave.       *)
LEMMA ConnectTypes ==
  ASSUME ManagerTypes, NEW i \in 1 .. MaxCreds, TryConnect(i), profiles \in Seq(Cred)
  PROVE  /\ state' \in {"DISCONNECTED", "CONNECTING", "CONNECTED"}
         /\ radio' \in {"idle", "connecting", "linked"} /\ event' \in {"none", "ip", "disc"}
         /\ target' \in Cred \cup {NoTarget}
<1>1. CASE i > Len(profiles)
  BY <1>1 DEF TryConnect, ManagerTypes
<1>2. CASE ~(i > Len(profiles))
  <2>1. profiles[i] \in Cred
    BY <1>2, BoundsHold DEF Bounds
  <2>2. QED BY <1>2, <2>1 DEF TryConnect, ManagerTypes
<1>3. QED BY <1>1, <1>2

(* start() begins with the first profile, if there is one.                  *)
LEMMA StartTypes ==
  ASSUME ManagerTypes, Start, profiles' \in Seq(Cred)
  PROVE  ManagerTypes'
<1>1. CASE profiles' = <<>>
  BY <1>1 DEF Start, ManagerTypes, retry, driver
<1>2. CASE profiles' # <<>>
  <2>1. profiles'[1] \in Cred
    BY <1>2
  <2>2. QED BY <1>2, <2>1, BoundsHold DEF Start, ManagerTypes, Bounds
<1>3. QED BY <1>1, <1>2

(* The handler moves to a profile only if there is one.                     *)
LEMMA HandlesTypes ==
  ASSUME ManagerTypes, StoreTypes, Handles
  PROVE  ManagerTypes'
<1>1. profiles \in Seq(Cred) /\ Len(profiles) <= MaxCreds /\ Len(profiles) \in Nat
  BY DEF StoreTypes
<1>2. CASE LosesLink \/ Retries \/ Exhausted \/ GetsIp
  BY <1>2, BoundsHold DEF LosesLink, Retries, Exhausted, GetsIp, ScheduleReconnect,
                          ManagerTypes, Bounds
<1>3. CASE TriesNext
  <2>1. current + 1 \in 1 .. MaxCreds
    BY <1>1, <1>3, BoundsHold DEF TriesNext, ManagerTypes, Bounds
  <2>2. TryConnect(current + 1) /\ retries' = 0 /\ current' = current + 1 /\ UNCHANGED portal
    BY <1>3 DEF TriesNext
  <2>3. QED BY <1>1, <2>1, <2>2, ConnectTypes, BoundsHold DEF ManagerTypes, Bounds
<1>4. QED BY <1>2, <1>3 DEF Handles

(* The manager and the store keep their types, for any lists and faults: a  *)
(* profile that is tried exists, a retry stays below its limit.             *)
THEOREM WifiTypesHold == WifiSpec => []WifiTypeOK
<1>1. WifiInit => ManagerTypes
  BY BoundsHold DEF WifiInit, ManagerTypes, Bounds
<1>2. ASSUME StoreInv, StoreInv', ManagerTypes, [WifiNext]_vars PROVE ManagerTypes'
  <2>1. CASE UNCHANGED vars
    BY <1>2, <2>1, ManagerKept DEF vars, manager, driver, retry
  <2>2. CASE Handles
    BY <1>2, <2>2, HandlesTypes DEF StoreInv
  <2>3. CASE Links \/ AttemptFails \/ LinkLost
    BY <1>2, <2>3 DEF Links, AttemptFails, LinkLost, manager, retry, ManagerTypes
  <2>4. CASE Tick
    <3>1. TryConnect(current) /\ UNCHANGED <<current, retries, portal>>
      BY <2>4 DEF Tick
    <3>2. QED BY <1>2, <3>1, ConnectTypes DEF ManagerTypes, StoreInv, StoreTypes
  <2>5. CASE Begin
    <3>1. CASE BeginStarts
      BY <1>2, <3>1, StartTypes DEF BeginStarts, StoreInv, StoreTypes
    <3>2. CASE Boot \/ BeginLoads \/ BeginSeeds \/ BeginReloads \/ StoreGoesOn
      BY <1>2, <3>2, ManagerKept
         DEF Boot, BeginLoads, BeginSeeds, BeginReloads, StoreGoesOn, manager, driver, retry
    <3>3. QED BY <2>5, <3>1, <3>2 DEF Begin
  <2>6. CASE HandlerGoesOn
    <3>1. CASE ListSaved \/ FormSaved
      BY <1>2, <3>1, BoundsHold DEF ListSaved, FormSaved, Apply, driver, ManagerTypes,
                                    Bounds
    <3>2. CASE PortalStops \/ Disconnects \/ Marks
      BY <1>2, <3>2 DEF PortalStops, Disconnects, Marks, manager, driver, retry,
                        ManagerTypes
    <3>3. CASE Restarts
      BY <1>2, <3>3, StartTypes DEF Restarts, StoreInv, StoreTypes
    <3>4. QED BY <2>6, <3>1, <3>2, <3>3 DEF HandlerGoesOn
  <2>7. CASE Button \/ SaveList \/ Exit \/ SubmitForm
    BY <1>2, <2>7 DEF Button, SaveList, Exit, SubmitForm, manager, driver, retry,
                      ManagerTypes
  <2>8. CASE FactoryReset \/ PowerCut
    BY <2>8, BoundsHold DEF FactoryReset, PowerCut, Reset, ManagerTypes, Bounds
  <2>9. QED
    BY <1>2, <2>1, <2>2, <2>3, <2>4, <2>5, <2>6, <2>7, <2>8 DEF WifiNext, User
<1>3. StoreInv /\ ManagerTypes => WifiTypeOK
  <2> SUFFICES ASSUME StoreInv, ManagerTypes PROVE WifiTypeOK
    OBVIOUS
  <2>1. creds \in Seq(Cred) /\ Len(creds) <= MaxCreds
    BY DEF StoreInv, StoreTypes, IsList
  <2>2. Range(creds) \subseteq Cred
    BY <2>1 DEF Range
  <2>3. QED BY <2>1, <2>2 DEF StoreInv, StoreTypes, NvsType, Steps, ManagerTypes, WifiTypeOK
<1>4. QED BY <1>1, <1>2, <1>3, StoreInvariant, PTL DEF WifiSpec

-----------------------------------------------------------------------------
(* The portal.                                                              *)

Labels == {"idle", "start", "radio", "server", "bind", "dns", "create", "run",
           "stop", "shut", "wait", "mode", "stopped"}

Types ==
  /\ portal_state \in {"STOPPED", "STARTING", "RUNNING", "CREDENTIALS_RECEIVED"}
  /\ ap \in BOOLEAN /\ server \in BOOLEAN /\ port \in {"free", "ours", "lingers"}
  /\ task \in DnsTasks \cup {NoTask} /\ late \in BOOLEAN
  /\ dns \in [DnsTasks -> {"none", "new", "serving", "leaving"}]
  /\ at \in [Callers -> Labels]

(* Only one caller is inside, and the handle of the server is true.         *)
Alone == \A p, q \in Callers : at[p] # "idle" /\ at[q] # "idle" => p = q
HandleIsTrue == server <=> port = "ours"

(* What holds between calls, in the middle of start() and in the middle of  *)
(* stop().                                                                  *)
Settled ==
  (\A p \in Callers : at[p] \in {"idle", "start"}) =>
    /\ portal_state \in {"STOPPED", "RUNNING"}
    /\ portal_state = "RUNNING" <=> server
    /\ portal_state = "RUNNING" => ap

Opening == \A p \in Callers :
  /\ at[p] \in {"radio", "server", "bind", "dns", "create", "run"} => portal_state = "STARTING"
  /\ at[p] \in {"server", "bind", "dns", "create", "run"} => ap
  /\ at[p] \in {"radio", "server", "bind"} => ~server
  /\ at[p] \in {"dns", "create", "run"} => server
  /\ at[p] = "create" => task = NoTask

Closing ==
  /\ \A p \in Callers : at[p] \in {"stop", "shut", "wait", "mode", "stopped"} => p = Httpd
  /\ at[Httpd] = "stop" => portal_state \in {"RUNNING", "CREDENTIALS_RECEIVED"}
  /\ at[Httpd] \in {"shut", "wait", "mode", "stopped"} => portal_state = "STOPPED"
  /\ at[Httpd] \in {"wait", "mode", "stopped"} => ~server
  /\ at[Httpd] \in {"mode", "stopped"} => late \/ task = NoTask
  /\ at[Httpd] = "stopped" => ~ap

IInv == Types /\ OneDnsTask /\ Alone /\ HandleIsTrue /\ Settled /\ Opening /\ Closing
-----------------------------------------------------------------------------
(* A device starts with the portal closed and nobody inside.                *)
LEMMA PortalInitially == PortalInit => IInv
<1> SUFFICES ASSUME PortalInit PROVE IInv
  OBVIOUS
<1>1. Types /\ OneDnsTask /\ Alone /\ HandleIsTrue
  BY PortalConstants DEF PortalConstants, PortalInit, Types, Labels, OneDnsTask, Alone,
                         HandleIsTrue
<1>2. Settled /\ Opening /\ Closing
  BY PortalConstants DEF PortalInit, Settled, Opening, Closing, Callers, PortalConstants
<1>3. QED BY <1>1, <1>2 DEF IInv

(* What the invariant says once it is known who is inside.                  *)
LEMMA OneInside ==
  ASSUME IInv, NEW p \in Callers, at[p] # "idle"
  PROVE  \A q \in Callers : q # p => at[q] = "idle"
BY DEF IInv, Alone

(* A caller that is the only one inside moves from one label to another.    *)
LEMMA Moves ==
  ASSUME IInv, NEW p \in Callers, NEW where \in Labels, Goes(p, where),
         \A q \in Callers : q # p => at[q] = "idle"
  PROVE  /\ at' \in [Callers -> Labels] /\ Alone'
         /\ at'[p] = where
         /\ \A q \in Callers : q # p => at'[q] = "idle"
BY DEF IInv, Types, Alone, Goes

(* Every step of start() keeps the invariant.                               *)
LEMMA PortalStartKeeps ==
  ASSUME IInv, NEW p \in Callers, StartGoesOn(p)
  PROVE  IInv'
<1> USE DEF IInv
<1>1. at[p] # "idle" /\ \A q \in Callers : q # p => at[q] = "idle"
  BY OneInside DEF StartGoesOn, Starts, SetsAp, ApFails, ClearsServer, Binds, TriesAgain,
                   GivesUp, LooksForDns, CreatesDns, CreateFails, Opens
<1>2. CASE Starts(p)
  <2>1. PICK w \in {"idle", "radio"} : Goes(p, w) /\ (w = "idle" <=> portal_state = "RUNNING")
    BY <1>2 DEF Starts
  <2>2. w \in Labels
    BY DEF Labels
  <2>3. /\ at'[p] = w /\ at' \in [Callers -> Labels] /\ Alone'
        /\ \A q \in Callers : q # p => at'[q] = "idle"
    BY <1>1, <2>1, <2>2, Moves
  <2>4. Types' /\ OneDnsTask' /\ HandleIsTrue'
    BY <1>2, <2>3 DEF Starts, net, Types, OneDnsTask, HandleIsTrue
  <2>5. Settled' /\ Opening' /\ Closing'
    BY <1>1, <1>2, <2>1, <2>3, PortalConstants
       DEF Starts, net, Settled, Opening, Closing, Callers, PortalConstants
  <2>6. QED BY <2>3, <2>4, <2>5
<1>3. CASE SetsAp(p)
  <2>1. Goes(p, "server") /\ "server" \in Labels
    BY <1>3 DEF SetsAp, Labels
  <2>2. /\ at'[p] = "server" /\ at' \in [Callers -> Labels] /\ Alone'
        /\ \A q \in Callers : q # p => at'[q] = "idle"
    BY <1>1, <2>1, Moves
  <2>3. Types' /\ OneDnsTask' /\ HandleIsTrue'
    BY <1>1, <1>3, <2>2 DEF SetsAp, net, Types, OneDnsTask, HandleIsTrue, Opening
  <2>4. Settled' /\ Opening' /\ Closing'
    BY <1>1, <1>3, <2>2, PortalConstants DEF SetsAp, net, Types, HandleIsTrue, Settled,
        Opening, Closing, Callers, PortalConstants
  <2>5. QED BY <2>2, <2>3, <2>4
<1>4. CASE ApFails(p)
  <2>1. Goes(p, "idle") /\ "idle" \in Labels
    BY <1>4 DEF ApFails, Labels
  <2>2. /\ at'[p] = "idle" /\ at' \in [Callers -> Labels] /\ Alone'
        /\ \A q \in Callers : q # p => at'[q] = "idle"
    BY <1>1, <2>1, Moves
  <2>3. Types' /\ OneDnsTask' /\ HandleIsTrue'
    BY <1>1, <1>4, <2>2 DEF ApFails, net, Types, OneDnsTask, HandleIsTrue, Opening
  <2>4. Settled' /\ Opening' /\ Closing'
    BY <1>1, <1>4, <2>2, PortalConstants DEF ApFails, net, Types, HandleIsTrue, Settled,
        Opening, Closing, Callers, PortalConstants
  <2>5. QED BY <2>2, <2>3, <2>4
<1>5. CASE ClearsServer(p)
  <2>1. Goes(p, "bind") /\ "bind" \in Labels
    BY <1>5 DEF ClearsServer, StopsServer, Labels
  <2>2. /\ at'[p] = "bind" /\ at' \in [Callers -> Labels] /\ Alone'
        /\ \A q \in Callers : q # p => at'[q] = "idle"
    BY <1>1, <2>1, Moves
  <2>3. Types' /\ OneDnsTask' /\ HandleIsTrue'
    BY <1>1, <1>5, <2>2 DEF ClearsServer, StopsServer, net, Types, OneDnsTask,
                            HandleIsTrue, Opening
  <2>4. Settled' /\ Opening' /\ Closing'
    BY <1>1, <1>5, <2>2, PortalConstants DEF ClearsServer, StopsServer, net, Types,
        HandleIsTrue, Settled, Opening, Closing, Callers, PortalConstants
  <2>5. QED BY <2>2, <2>3, <2>4
<1>6. CASE Binds(p)
  <2>1. Goes(p, "dns") /\ "dns" \in Labels
    BY <1>6 DEF Binds, Labels
  <2>2. /\ at'[p] = "dns" /\ at' \in [Callers -> Labels] /\ Alone'
        /\ \A q \in Callers : q # p => at'[q] = "idle"
    BY <1>1, <2>1, Moves
  <2>3. Types' /\ OneDnsTask' /\ HandleIsTrue'
    BY <1>1, <1>6, <2>2 DEF Binds, net, Types, OneDnsTask, HandleIsTrue, Opening
  <2>4. Settled' /\ Opening' /\ Closing'
    BY <1>1, <1>6, <2>2, PortalConstants DEF Binds, net, Types, HandleIsTrue, Settled,
        Opening, Closing, Callers, PortalConstants
  <2>5. QED BY <2>2, <2>3, <2>4
<1>7. CASE GivesUp(p)
  <2>1. Goes(p, "idle") /\ "idle" \in Labels
    BY <1>7 DEF GivesUp, Refused, Labels
  <2>2. /\ at'[p] = "idle" /\ at' \in [Callers -> Labels] /\ Alone'
        /\ \A q \in Callers : q # p => at'[q] = "idle"
    BY <1>1, <2>1, Moves
  <2>3. Types' /\ OneDnsTask' /\ HandleIsTrue'
    BY <1>1, <1>7, <2>2 DEF GivesUp, Refused, net, Types, OneDnsTask, HandleIsTrue, Opening
  <2>4. Settled' /\ Opening' /\ Closing'
    BY <1>1, <1>7, <2>2, PortalConstants DEF GivesUp, Refused, net, Types, HandleIsTrue,
        Settled, Opening, Closing, Callers, PortalConstants
  <2>5. QED BY <2>2, <2>3, <2>4
<1>8. CASE CreatesDns(p)
  <2>1. Goes(p, "run") /\ "run" \in Labels
    BY <1>8 DEF CreatesDns, Labels
  <2>2. /\ at'[p] = "run" /\ at' \in [Callers -> Labels] /\ Alone'
        /\ \A q \in Callers : q # p => at'[q] = "idle"
    BY <1>1, <2>1, Moves
  <2>3. Types' /\ OneDnsTask' /\ HandleIsTrue'
    BY <1>1, <1>8, <2>2, PortalConstants
       DEF CreatesDns, net, Types, OneDnsTask, HandleIsTrue, Opening, PortalConstants
  <2>4. Settled' /\ Opening' /\ Closing'
    BY <1>1, <1>8, <2>2, PortalConstants DEF CreatesDns, net, Types, HandleIsTrue,
        Settled, Opening, Closing, Callers, PortalConstants
  <2>5. QED BY <2>2, <2>3, <2>4
<1>9. CASE CreateFails(p)
  <2>1. Goes(p, "run") /\ "run" \in Labels
    BY <1>9 DEF CreateFails, Labels
  <2>2. /\ at'[p] = "run" /\ at' \in [Callers -> Labels] /\ Alone'
        /\ \A q \in Callers : q # p => at'[q] = "idle"
    BY <1>1, <2>1, Moves
  <2>3. Types' /\ OneDnsTask' /\ HandleIsTrue'
    BY <1>1, <1>9, <2>2 DEF CreateFails, net, Types, OneDnsTask, HandleIsTrue, Opening
  <2>4. Settled' /\ Opening' /\ Closing'
    BY <1>1, <1>9, <2>2, PortalConstants DEF CreateFails, net, Types, HandleIsTrue,
        Settled, Opening, Closing, Callers, PortalConstants
  <2>5. QED BY <2>2, <2>3, <2>4
<1>10. CASE Opens(p)
  <2>1. Goes(p, "idle") /\ "idle" \in Labels
    BY <1>10 DEF Opens, Labels
  <2>2. /\ at'[p] = "idle" /\ at' \in [Callers -> Labels] /\ Alone'
        /\ \A q \in Callers : q # p => at'[q] = "idle"
    BY <1>1, <2>1, Moves
  <2>3. Types' /\ OneDnsTask' /\ HandleIsTrue'
    BY <1>1, <1>10, <2>2 DEF Opens, net, Types, OneDnsTask, HandleIsTrue, Opening
  <2>4. Settled' /\ Opening' /\ Closing'
    BY <1>1, <1>10, <2>2, PortalConstants DEF Opens, net, Types, HandleIsTrue, Settled,
        Opening, Closing, Callers, PortalConstants
  <2>5. QED BY <2>2, <2>3, <2>4
<1>11. CASE TriesAgain(p)
  BY <1>1, <1>11 DEF TriesAgain, Refused, Types, OneDnsTask, Alone, HandleIsTrue,
                     Settled, Opening, Closing
<1>12. CASE LooksForDns(p)
  <2>1. PICK w \in {"create", "run"} : Goes(p, w) /\ (w = "create" => task = NoTask)
    BY <1>12 DEF LooksForDns, NeedsDns
  <2>2. w \in Labels
    BY DEF Labels
  <2>3. /\ at'[p] = w /\ at' \in [Callers -> Labels] /\ Alone'
        /\ \A q \in Callers : q # p => at'[q] = "idle"
    BY <1>1, <2>1, <2>2, Moves
  <2>4. Types' /\ OneDnsTask' /\ HandleIsTrue'
    BY <1>12, <2>3 DEF LooksForDns, net, Types, OneDnsTask, HandleIsTrue
  <2>5. Settled' /\ Opening' /\ Closing'
    BY <1>1, <1>12, <2>1, <2>3, PortalConstants
       DEF LooksForDns, net, Settled, Opening, Closing, Callers, PortalConstants
  <2>6. QED BY <2>3, <2>4, <2>5
<1>13. QED
  BY <1>2, <1>3, <1>4, <1>5, <1>6, <1>7, <1>8, <1>9, <1>10, <1>11, <1>12 DEF StartGoesOn

(* And every step of stop().                                                *)
LEMMA PortalStopKeeps ==
  ASSUME IInv, StopGoesOn
  PROVE  IInv'
<1> USE DEF IInv
<1>1. /\ Httpd \in Callers /\ at[Httpd] # "idle"
      /\ \A q \in Callers : q # Httpd => at[q] = "idle"
  BY OneInside DEF StopGoesOn, Stops, Shuts, Waits, LeavesApMode, Reconnects, Callers
<1>2. PICK w \in Labels : Goes(Httpd, w)
  BY DEF StopGoesOn, Stops, Shuts, Waits, LeavesApMode, Reconnects, Labels
<1>3. /\ at'[Httpd] = w /\ at' \in [Callers -> Labels] /\ Alone'
      /\ \A q \in Callers : q # Httpd => at'[q] = "idle"
  BY <1>1, <1>2, Moves
<1>4. Types' /\ OneDnsTask' /\ HandleIsTrue'
  <2>1. CASE Shuts
    BY <1>3, <2>1 DEF Shuts, StopsServer, Types, OneDnsTask, HandleIsTrue
  <2>2. CASE Stops \/ Waits \/ LeavesApMode \/ Reconnects
    <3>1. UNCHANGED <<server, port, task, dns>>
      BY <2>2 DEF Stops, Waits, LeavesApMode, Reconnects, net
    <3>2. /\ portal_state' \in {portal_state, "STOPPED"} /\ ap' \in {ap, FALSE}
          /\ late' \in {late, TRUE, FALSE}
      BY <2>2 DEF Stops, Waits, LeavesApMode, Reconnects, net
    <3>3. QED BY <1>3, <3>1, <3>2 DEF Types, OneDnsTask, HandleIsTrue
  <2>3. QED BY <2>1, <2>2 DEF StopGoesOn
<1>5. CASE Stops
  BY <1>1, <1>3, <1>4, <1>5
     DEF Stops, Goes, net, Types, HandleIsTrue, Settled, Opening, Closing
<1>6. CASE Shuts
  BY <1>1, <1>3, <1>4, <1>6
     DEF Shuts, StopsServer, Goes, net, Types, HandleIsTrue, Settled, Opening, Closing
<1>7. CASE Waits
  BY <1>1, <1>3, <1>4, <1>7
     DEF Waits, Goes, net, Types, HandleIsTrue, Settled, Opening, Closing
<1>8. CASE LeavesApMode
  BY <1>1, <1>3, <1>4, <1>8
     DEF LeavesApMode, Goes, net, Types, HandleIsTrue, Settled, Opening, Closing
<1>9. CASE Reconnects
  BY <1>1, <1>3, <1>4, <1>9
     DEF Reconnects, Goes, net, Types, HandleIsTrue, Settled, Opening, Closing
<1>10. QED BY <1>5, <1>6, <1>7, <1>8, <1>9 DEF StopGoesOn

(* The DNS task clears its own handle only.                                 *)
LEMMA DnsKeeps ==
  ASSUME IInv, NEW t \in DnsTasks, DnsBinds(t) \/ DnsFails(t) \/ DnsStops(t) \/ DnsLeaves(t)
  PROVE  IInv'
<1> USE PortalConstants DEF IInv, PortalConstants
<1>1. UNCHANGED <<portal_state, net, at, late>> /\ task' \in {task, NoTask}
  BY DEF DnsBinds, DnsFails, DnsStops, DnsLeaves, DnsEnds
<1>2. Types' /\ OneDnsTask'
  BY DEF DnsBinds, DnsFails, DnsStops, DnsLeaves, DnsEnds, net, Types, OneDnsTask
<1>3. Alone' /\ HandleIsTrue' /\ Settled' /\ Opening' /\ Closing'
  BY <1>1 DEF net, Alone, HandleIsTrue, Settled, Opening, Closing
<1>4. QED BY <1>2, <1>3

(* A call begins while nobody is inside.                                    *)
LEMMA CallsKeep ==
  ASSUME Overlap = FALSE, IInv, Holds \/ NetworksFail \/ Closes
  PROVE  IInv'
<1> USE DEF IInv
<1>1. PICK p \in Callers, w \in Labels :
        /\ Goes(p, w) /\ \A q \in Callers : at[q] = "idle"
        /\ (w = "start" /\ UNCHANGED portal_state) \/ (w = "stop" /\ p = Httpd /\ Closes)
  BY DEF Holds, NetworksFail, Closes, MayCall, Callers, Labels
<1>2. /\ at'[p] = w /\ at' \in [Callers -> Labels] /\ Alone'
      /\ \A q \in Callers : q # p => at'[q] = "idle"
  BY <1>1, Moves
<1>3. UNCHANGED <<net, task, dns, late>>
  BY DEF Holds, NetworksFail, Closes
<1>4. Types' /\ OneDnsTask' /\ HandleIsTrue'
  BY <1>1, <1>2, <1>3 DEF Closes, net, Types, OneDnsTask, HandleIsTrue
<1>5. Settled' /\ Opening' /\ Closing'
  BY <1>1, <1>2, <1>3, PortalConstants DEF Closes, net, Types, HandleIsTrue, Settled,
      Opening, Closing, Callers, PortalConstants
<1>6. QED BY <1>2, <1>4, <1>5

-----------------------------------------------------------------------------
(* The bookkeeping of the portal in every state it reaches.                 *)
THEOREM PortalInvariant == Overlap = FALSE => (PortalSpec => []IInv)
<1> SUFFICES ASSUME Overlap = FALSE PROVE PortalSpec => []IInv
  OBVIOUS
<1>1. ASSUME IInv, [PortalNext]_portalVars PROVE IInv'
  <2>1. CASE UNCHANGED portalVars
    BY <1>1, <2>1 DEF portalVars, net, IInv, Types, OneDnsTask, Alone, HandleIsTrue,
                      Settled, Opening, Closing
  <2>2. CASE PortFrees
    BY <1>1, <2>2 DEF PortFrees, IInv, Types, OneDnsTask, Alone, HandleIsTrue, Settled,
                      Opening, Closing
  <2>3. CASE PortalNext /\ ~PortFrees
    BY <1>1, <2>3, CallsKeep, PortalStartKeeps, PortalStopKeeps, DnsKeeps
    DEF PortalNext, Dns
  <2>4. QED BY <1>1, <2>1, <2>2, <2>3
<1>2. QED BY <1>1, PortalInitially, PTL DEF PortalSpec

(* There is never a second DNS task, and s_dns_task names the one there is. *)
THEOREM DnsIsSingle == Overlap = FALSE => (PortalSpec => []OneDnsTask)
<1> SUFFICES ASSUME Overlap = FALSE PROVE PortalSpec => []OneDnsTask
  OBVIOUS
<1>1. IInv => OneDnsTask
  BY DEF IInv
<1>2. QED BY <1>1, PortalInvariant, PTL

(* A portal that reports RUNNING can be reached.                            *)
THEOREM RunningIsReachable == Overlap = FALSE => (PortalSpec => []OpenIsReachable)
<1> SUFFICES ASSUME Overlap = FALSE PROVE PortalSpec => []OpenIsReachable
  OBVIOUS
<1>1. IInv => OpenIsReachable
  BY DEF IInv, HandleIsTrue, Settled, OpenIsReachable
<1>2. QED BY <1>1, PortalInvariant, PTL

(* What the handler of Exit relies on: the portal is closed.                *)
THEOREM StopCloses == Overlap = FALSE => (PortalSpec => []ClosedBeforeReconnect)
<1> SUFFICES ASSUME Overlap = FALSE PROVE PortalSpec => []ClosedBeforeReconnect
  OBVIOUS
<1>1. IInv => ClosedBeforeReconnect
  BY DEF IInv, HandleIsTrue, Closing, ClosedBeforeReconnect
<1>2. QED BY <1>1, PortalInvariant, PTL

(* The portal keeps its types, whether calls overlap or not.                *)
THEOREM PortalTypesHold == PortalSpec => []PortalTypeOK
<1>1. PortalInit => PortalTypeOK
  <2> SUFFICES ASSUME PortalInit PROVE PortalTypeOK
    OBVIOUS
  <2>1. binds \in [Callers -> 0 .. MaxBinds - 1]
    BY PortalConstants DEF PortalConstants, PortalInit
  <2>2. QED BY <2>1 DEF PortalInit, PortalTypeOK
<1>2. ASSUME PortalTypeOK, [PortalNext]_portalVars PROVE PortalTypeOK'
  <2> USE <1>2 DEF net, PortalTypeOK
  <2>1. CASE UNCHANGED portalVars
    BY <2>1 DEF portalVars
  <2>2. CASE Holds \/ NetworksFail \/ Closes
    BY <2>2 DEF Holds, NetworksFail, Closes, Goes
  <2>3. ASSUME NEW p \in Callers, StartGoesOn(p) PROVE PortalTypeOK'
    <3>1. CASE Starts(p) \/ SetsAp(p) \/ ApFails(p) \/ Binds(p) \/ GivesUp(p)
      BY <3>1 DEF Starts, SetsAp, ApFails, Binds, GivesUp, Goes
    <3>2. CASE ClearsServer(p)
      <4>1. binds' \in [Callers -> 0 .. MaxBinds - 1]
        BY <3>2, PortalConstants DEF ClearsServer, PortalConstants
      <4>2. QED BY <3>2, <4>1 DEF ClearsServer, StopsServer, Goes
    <3>3. CASE TriesAgain(p)
      <4>1. binds' = [binds EXCEPT ![p] = binds[p] + 1] /\ binds[p] + 1 \in 0 .. MaxBinds - 1
        BY <3>3, PortalConstants DEF TriesAgain, PortalConstants
      <4>2. binds' \in [Callers -> 0 .. MaxBinds - 1]
        BY <4>1
      <4>3. QED BY <3>3, <4>2 DEF TriesAgain
    <3>4. CASE LooksForDns(p) \/ CreatesDns(p) \/ CreateFails(p) \/ Opens(p)
      BY <3>4 DEF LooksForDns, CreatesDns, CreateFails, Opens, Goes
    <3>5. QED BY <2>3, <3>1, <3>2, <3>3, <3>4 DEF StartGoesOn
  <2>4. CASE StopGoesOn
    <3> Httpd \in Callers
      BY DEF Callers
    <3>1. CASE Stops \/ Shuts
      BY <3>1 DEF Stops, Shuts, StopsServer, Goes
    <3>2. CASE Waits \/ LeavesApMode \/ Reconnects
      BY <3>2 DEF Waits, LeavesApMode, Reconnects, Goes
    <3>3. QED BY <2>4, <3>1, <3>2 DEF StopGoesOn
  <2>5. CASE Dns
    BY <2>5 DEF Dns, DnsBinds, DnsFails, DnsStops, DnsLeaves, DnsEnds
  <2>6. CASE PortFrees
    BY <2>6 DEF PortFrees
  <2>7. QED BY <2>1, <2>2, <2>3, <2>4, <2>5, <2>6 DEF PortalNext
<1>3. QED BY <1>1, <1>2, PTL DEF PortalSpec

-----------------------------------------------------------------------------
(* The session in the portal.                                               *)

(* Where calls do not overlap: while the networks' failure is handled the   *)
(* portal is closed and the copy it read is current; the pages show the     *)
(* list in the store; and a factory reset that has begun has erased all it  *)
(* erases, for nobody writes any of it again before the restart.            *)
CalmInv ==
  /\ Calmly!ListShown
  /\ needed = "list" => copied = stored /\ status = "STOPPED"
  /\ handler = "reset" => token = FALSE /\ hash = 0 /\ stored = 0

(* A session is made in an opening, and cleared by the next one and by the  *)
(* closing, whichever of the tasks does it.                                 *)
LEMMA SessionKept ==
  ASSUME AnyTime!SessionOfThisOpening, Calmly!Next \/ AnyTime!Next
  PROVE  AnyTime!SessionOfThisOpening'
<1> USE DEF AnyTime!SessionOfThisOpening
<1>1. CASE AnyTime!Next
  <2> USE DEF AnyTime!portal, AnyTime!nvs, AnyTime!counts, AnyTime!Starts, AnyTime!Stops
  <2>1. CASE AnyTime!ButtonOpens \/ AnyTime!NetworksFail \/ AnyTime!NeededOpens
    BY <2>1 DEF AnyTime!ButtonOpens, AnyTime!NetworksFail, AnyTime!NeededOpens
  <2>2. CASE AnyTime!Login
    BY <2>2 DEF AnyTime!Login, AnyTime!Requests
  <2>3. CASE AnyTime!WifiSave \/ AnyTime!SaveShown \/ AnyTime!Submit \/ AnyTime!SubmitEnds
    BY <2>3 DEF AnyTime!WifiSave, AnyTime!SaveShown, AnyTime!Submit, AnyTime!SubmitEnds
  <2>4. CASE AnyTime!RePair \/ AnyTime!Exit \/ AnyTime!FactoryReset \/ AnyTime!Restart
    BY <2>4 DEF AnyTime!RePair, AnyTime!Exit, AnyTime!FactoryReset, AnyTime!Restart
  <2>5. CASE \/ AnyTime!EnrollmentDone \/ AnyTime!TokenRejected
             \/ AnyTime!HashPushed \/ AnyTime!TokenRotated
    BY <2>5
    DEF AnyTime!EnrollmentDone, AnyTime!TokenRejected, AnyTime!HashPushed, AnyTime!TokenRotated
  <2>6. QED BY <1>1, <2>1, <2>2, <2>3, <2>4, <2>5 DEF AnyTime!Next
<1>2. CASE Calmly!Next
  <2> USE DEF Calmly!portal, Calmly!nvs, Calmly!counts, Calmly!Starts, Calmly!Stops
  <2>1. CASE Calmly!ButtonOpens \/ Calmly!NetworksFail \/ Calmly!NeededOpens
    BY <2>1 DEF Calmly!ButtonOpens, Calmly!NetworksFail, Calmly!NeededOpens
  <2>2. CASE Calmly!Login
    BY <2>2 DEF Calmly!Login, Calmly!Requests
  <2>3. CASE Calmly!WifiSave \/ Calmly!SaveShown \/ Calmly!Submit \/ Calmly!SubmitEnds
    BY <2>3 DEF Calmly!WifiSave, Calmly!SaveShown, Calmly!Submit, Calmly!SubmitEnds
  <2>4. CASE Calmly!RePair \/ Calmly!Exit \/ Calmly!FactoryReset \/ Calmly!Restart
    BY <2>4 DEF Calmly!RePair, Calmly!Exit, Calmly!FactoryReset, Calmly!Restart
  <2>5. CASE Calmly!EnrollmentDone \/ Calmly!TokenRejected \/ Calmly!HashPushed \/ Calmly!TokenRotated
    BY <2>5
    DEF Calmly!EnrollmentDone, Calmly!TokenRejected, Calmly!HashPushed, Calmly!TokenRotated
  <2>6. QED BY <1>2, <2>1, <2>2, <2>3, <2>4, <2>5 DEF Calmly!Next
<1>3. QED BY <1>1, <1>2

(* A calm step keeps CalmInv, and the menu of a portal that stays open.     *)
LEMMA CalmKept ==
  ASSUME CalmInv, Calmly!Next
  PROVE  CalmInv' /\ Calmly!KeepsMenu /\ Calmly!RestartsFresh
<1> USE DEF CalmInv, Calmly!ListShown, Calmly!KeepsMenu, Calmly!RestartsFresh, Calmly!Free,
            Calmly!portal, Calmly!nvs, Calmly!counts, Calmly!Starts, Calmly!Stops
<1>1. CASE Calmly!ButtonOpens
  BY <1>1 DEF Calmly!ButtonOpens, Calmly!ButtonMay
<1>2. CASE Calmly!NetworksFail \/ Calmly!NeededOpens
  BY <1>2 DEF Calmly!NetworksFail, Calmly!NeededOpens
<1>3. CASE Calmly!Login \/ Calmly!RePair \/ Calmly!Exit
  BY <1>3 DEF Calmly!Login, Calmly!RePair, Calmly!Exit, Calmly!Requests
<1>4. CASE Calmly!WifiSave \/ Calmly!SaveShown
  BY <1>4 DEF Calmly!WifiSave, Calmly!SaveShown, Calmly!Requests
<1>5. CASE Calmly!Submit \/ Calmly!SubmitEnds
  BY <1>5 DEF Calmly!Submit, Calmly!SubmitEnds, Calmly!Requests
<1>6. CASE Calmly!FactoryReset \/ Calmly!Restart
  BY <1>6 DEF Calmly!FactoryReset, Calmly!Restart, Calmly!Erases, Calmly!Requests
<1>7. CASE Calmly!EnrollmentDone \/ Calmly!TokenRejected \/ Calmly!HashPushed \/ Calmly!TokenRotated
  BY <1>7
  DEF Calmly!EnrollmentDone, Calmly!TokenRejected, Calmly!HashPushed, Calmly!TokenRotated,
      Calmly!Online
<1>8. QED BY <1>1, <1>2, <1>3, <1>4, <1>5, <1>6, <1>7 DEF Calmly!Next

(* A step that leaves the session alone.                                    *)
LEMMA SessionStays ==
  ASSUME UNCHANGED sessionVars
  PROVE  /\ AnyTime!SessionOfThisOpening => AnyTime!SessionOfThisOpening'
         /\ CalmInv => CalmInv'
BY DEF sessionVars, AnyTime!SessionOfThisOpening, CalmInv, Calmly!ListShown

LEMMA SessionMoves ==
  ASSUME [LocalNext]_LocalVars
  PROVE  /\ scenario' = scenario
         /\ Calmly!Next \/ AnyTime!Next \/ UNCHANGED sessionVars
         /\ scenario = "calm" => [Calmly!Next]_sessionVars
<1>1. CASE UNCHANGED LocalVars
  <2>1. scenario' = scenario /\ sessionVars' = sessionVars
    BY <1>1, Zenon DEF LocalVars
  <2>2. QED BY <2>1
<1>2. CASE LocalNext
  BY <1>2 DEF LocalNext
<1>3. QED BY <1>1, <1>2

(* SessionIsCurrent, for any numbers of lists, passwords and openings.      *)
THEOREM SessionsAreCurrent == LocalSpec => SessionIsCurrent
<1> DEFINE Now == AnyTime!SessionOfThisOpening /\ (scenario = "calm" => CalmInv)
<1>1. LocalInit => Now
  BY DEF LocalInit, Calmly!Init, AnyTime!SessionOfThisOpening, CalmInv, Calmly!ListShown
<1>2. Now /\ [LocalNext]_LocalVars => Now'
  <2> SUFFICES ASSUME Now, [LocalNext]_LocalVars PROVE Now'
    OBVIOUS
  <2>1. AnyTime!SessionOfThisOpening'
    BY SessionMoves, SessionKept, SessionStays
  <2>2. scenario' = "calm" => CalmInv'
    BY SessionMoves, CalmKept, SessionStays
  <2>3. QED BY <2>1, <2>2
<1>3. Now /\ [LocalNext]_LocalVars
      => [scenario = "calm" => Calmly!KeepsMenu /\ Calmly!RestartsFresh]_sessionVars
  BY SessionMoves, CalmKept
<1>4. Now => AnyTime!SessionOfThisOpening /\ (scenario = "calm" => Calmly!ListShown)
  BY DEF CalmInv
<1> HIDE DEF Now
<1>5. QED BY <1>1, <1>2, <1>3, <1>4, PTL DEF LocalSpec, SessionIsCurrent

-----------------------------------------------------------------------------
(* The scenarios.                                                           *)

(* A behaviour of the scenarios is one of the manager and one of the portal. *)
LEMMA LocalIsBoth == LocalSpec => WifiSpec /\ PortalSpec
<1>1. LocalInit => WifiInit /\ PortalInit
  BY DEF LocalInit
<1>2. ASSUME [LocalNext]_LocalVars PROVE [WifiNext]_vars /\ [PortalNext]_portalVars
  BY <1>2 DEF LocalNext, LocalVars
<1>3. QED BY <1>1, <1>2, PTL DEF LocalSpec, WifiSpec, PortalSpec

(* Manager, store and portal keep their types in every scenario.            *)
THEOREM LocalTypesHold == LocalSpec => []LocalTypeOK
<1>1. WifiTypeOK /\ PortalTypeOK => LocalTypeOK
  BY DEF LocalTypeOK
<1>2. QED BY <1>1, LocalIsBoth, WifiTypesHold, PortalTypesHold, PTL
=============================================================================
