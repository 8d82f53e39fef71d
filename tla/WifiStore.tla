------------------------------ MODULE WifiStore -----------------------------
(* The saved WiFi networks (src/src/core/pulsync_wifi_store.c): the list in  *)
(* RAM, its keys in NVS, and save(), which writes them one by one.           *)
(*                                                                          *)
(* A key that is missing reads as "": no SSID, NoPw, count 0.  WifiManager   *)
(* adds the callers: begin(), the portal, and a power cut between writes.    *)
EXTENDS Naturals, Sequences, SequencesExt

CONSTANTS
  Ssids,      \* network names
  NoSsid,     \* ""
  Passwords,  \* passwords that are not empty
  NoPw,       \* ""
  MaxCreds,   \* PULSYNC_WIFI_MAX_CREDS
  Staged,     \* the networks the sketch names with setWiFi, in order
  Legacy      \* what an older firmware has left in wifi0: networks, or none

VARIABLES
  creds,    \* s_creds, up to s_count
  nvs,      \* the keys: ssid and pw of each slot, count, seeded, legacy
  saver,    \* who is in save(), or in what follows it, and the next write
  dropped   \* networks the user left out of the last list he saved

Pws == Passwords \cup {NoPw}
Cred == [ssid : Ssids, pw : Pws]
Slots == 1 .. MaxCreds

NoLegacy == [ssid |-> NoSsid, pw |-> NoPw]
Idle == [who |-> "none", next |-> 1]

ASSUME StoreAssumption ==
  /\ MaxCreds \in Nat \ {0} /\ NoSsid \notin Ssids /\ NoPw \notin Passwords
  /\ Staged \in Seq(Cred) /\ Len(Staged) <= MaxCreds
  /\ Legacy \subseteq Cred

SsidsOf(list) == {list[i].ssid : i \in 1 .. Len(list)}

(* mem_add: one entry for each network; an empty password changes nothing,  *)
(* and an empty name is no network.                                         *)
MemAdd(list, c) ==
  CASE c.ssid = NoSsid -> list
    [] c.ssid \in SsidsOf(list) ->
         [i \in 1 .. Len(list) |->
            IF list[i].ssid = c.ssid /\ c.pw # NoPw THEN c ELSE list[i]]
    [] c.ssid \notin SsidsOf(list) \cup {NoSsid} /\ Len(list) < MaxCreds -> Append(list, c)
    [] OTHER -> list

AddAll(list, more) ==
  LET added[n \in 0 .. Len(more)] ==
        IF n = 0 THEN list ELSE MemAdd(added[n - 1], more[n])
  IN  added[Len(more)]

(* pulsync_wifi_store_set_all: an empty password keeps the one there was.   *)
SetAll(more) ==
  LET Kept(c) == {old \in Range(creds) : c.pw = NoPw /\ old.ssid = c.ssid}
  IN  AddAll(<<>>, [i \in 1 .. Len(more) |->
                      IF Kept(more[i]) = {} THEN more[i] ELSE CHOOSE c \in Kept(more[i]) : TRUE])

(* What load() makes of the indexed keys. *)
Slot(i) == [ssid |-> nvs.ssid[i], pw |-> nvs.pw[i]]
Stored == AddAll(<<>>, [i \in 1 .. nvs.count |-> Slot(i)])

(* Mutants, used by no action: a password is written only if there is one;  *)
(* commit_seed() does not set the flag.                                     *)
MutWritten(k) ==
  LET i == (k + 1) \div 2
      c == IF i <= Len(creds) THEN creds[i] ELSE NoLegacy
  IN  CASE k > 2 * MaxCreds -> [nvs EXCEPT !.count = Len(creds)]
        [] k <= 2 * MaxCreds /\ k % 2 = 1 -> [nvs EXCEPT !.ssid[i] = c.ssid]
        [] OTHER -> [nvs EXCEPT !.pw[i] = IF c.pw = NoPw THEN @ ELSE c.pw]

(* The k-th write of save(): ssid and password of each slot, those past the *)
(* end erased, and the count at the end.                                    *)
Written(k) ==
  LET i == (k + 1) \div 2
      c == IF i <= Len(creds) THEN creds[i] ELSE NoLegacy
  IN  CASE k > 2 * MaxCreds -> [nvs EXCEPT !.count = Len(creds)]
        [] k <= 2 * MaxCreds /\ k % 2 = 1 -> [nvs EXCEPT !.ssid[i] = c.ssid]
        [] OTHER -> [nvs EXCEPT !.pw[i] = c.pw]

Saving == saver.who # "none"
SaveBegins(who) == saver' = [who |-> who, next |-> 1]

SaveWrites ==
  /\ Saving /\ saver.next <= 2 * MaxCreds + 1
  /\ nvs' = Written(saver.next)
  /\ saver' = [saver EXCEPT !.next = @ + 1]
  /\ UNCHANGED <<creds, dropped>>

Saved(who) == saver.who = who /\ saver.next = 2 * MaxCreds + 2

(* After save(): begin() and the enroll form mark the list as seeded. *)
MarkSeeded ==
  /\ \E who \in {"migrate", "seed", "form"} : Saved(who)
  /\ nvs' = [nvs EXCEPT !.seeded = TRUE]
  /\ saver' = IF saver.who = "seed" THEN Idle ELSE [saver EXCEPT !.next = @ + 1]
  /\ UNCHANGED <<creds, dropped>>

(* The migration erases the old keys last. *)
EraseLegacy ==
  /\ saver = [who |-> "migrate", next |-> 2 * MaxCreds + 3]
  /\ nvs' = [nvs EXCEPT !.legacy = NoLegacy]
  /\ saver' = Idle
  /\ UNCHANGED <<creds, dropped>>

(* pulsync_wifi_store_load *)
Load ==
  /\ creds' = IF nvs.count > 0 THEN Stored
              ELSE IF nvs.legacy # NoLegacy THEN <<nvs.legacy>> ELSE <<>>
  /\ IF nvs.count = 0 /\ nvs.legacy # NoLegacy THEN SaveBegins("migrate") ELSE UNCHANGED saver
  /\ UNCHANGED <<nvs, dropped>>

(* begin() on a device not seeded: seed_add for each staged network, then   *)
(* commit_seed, which saves if one of them went in.                         *)
Seed ==
  /\ IF ~nvs.seeded /\ \E c \in Range(Staged) : Len(creds) < MaxCreds \/ c.ssid \in SsidsOf(creds)
     THEN creds' = AddAll(creds, Staged) /\ SaveBegins("seed")
     ELSE UNCHANGED <<creds, saver>>
  /\ UNCHANGED <<nvs, dropped>>

(* The portal hands over a whole list. *)
Replace(list, who) ==
  /\ creds' = SetAll(list)
  /\ SaveBegins(who)
  /\ dropped' = dropped \ SsidsOf(list)
  /\ UNCHANGED nvs

(* When it is saved it is what the user wants.  A network that wifi0 still  *)
(* names is let off: a cut before EraseLegacy leaves it there.              *)
UserHasSaved ==
  /\ saver' = Idle
  /\ dropped' = Ssids \ (SsidsOf(creds) \cup {nvs.legacy.ssid})
  /\ UNCHANGED <<creds, nvs>>

Erased == [ssid |-> [i \in Slots |-> NoSsid], pw |-> [i \in Slots |-> NoPw],
           count |-> 0, seeded |-> FALSE, legacy |-> NoLegacy]

(* RAM after a restart. *)
StoreReset == creds' = <<>> /\ saver' = Idle

StoreInit ==
  /\ creds = <<>> /\ saver = Idle /\ dropped = {}
  /\ \E c \in Legacy \cup {NoLegacy} : nvs = [Erased EXCEPT !.legacy = c]
=============================================================================
