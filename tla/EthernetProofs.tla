--------------------------- MODULE EthernetProofs ---------------------------
(***************************************************************************)
(* Settings, driver and shown link state agree, for any addresses and PHY  *)
(* modes and any number of pending events.                                 *)
(***************************************************************************)
EXTENDS Ethernet, TLAPS

(* Settings as the setters and Load make them, among all there could be.   *)
Fields == [mode : {"dhcp", "static"}, phy : PhyModes, ip : Addresses \cup {Zero}, gateway : Addresses \cup {Zero}]

Settings ==
  {s \in Fields :
     IF s.mode = "dhcp" THEN s.ip = Zero /\ s.gateway = Zero ELSE SettingsValid(s)}

Steps == {"stop", "address", "phy", "start", "save"}
Restoring == {"restore_stop", "restore_address", "restore_start"}

FlashTyped ==
  /\ DOMAIN flash = {"mode", "phy", "ip", "gateway"}
  /\ flash["mode"] \in {Absent, "dhcp", "static"}
  /\ flash["phy"] \in PhyModes \cup {Absent}
  /\ flash["ip"] \in Addresses \cup {Zero, Absent}
  /\ flash["gateway"] \in Addresses \cup {Zero, Absent}

EthernetTyped ==
  /\ FlashTyped
  /\ settings \in Settings /\ requested \in Settings
  /\ applied \in Fields
  /\ call \in {"idle"} \cup Steps \cup Restoring
  /\ saved \in 0..4
  /\ initialized \in BOOLEAN /\ started \in BOOLEAN
  /\ unrestored \in BOOLEAN /\ torn \in BOOLEAN

(* How far the save has come.                                              *)
SaveIsOrderly ==
  /\ ~torn => Load(flash) = settings
  /\ call \notin {"save"} \cup Restoring => saved = 0
  /\ call = "save" =>
       /\ saved >= 1 => flash["mode"] = requested.mode
       /\ saved >= 2 => flash["phy"] = requested.phy
       /\ saved >= 3 => flash["ip"] = requested.ip
       /\ saved >= 4 => flash["gateway"] = requested.gateway

(* How far reconfigure and its restoring have come.                        *)
ApplyIsOrderly ==
  /\ call = "phy" => applied = [requested EXCEPT !.phy = applied.phy]
  /\ call \in {"start", "save"} => applied = requested
  /\ call = "save" => started
  /\ call = "restore_address" /\ ~unrestored => ~started
  /\ call = "restore_start" /\ ~unrestored => applied = settings /\ ~started
  /\ call # "idle" => initialized
  /\ RestoredAfterFailure

EthernetInv == EthernetTyped /\ SaveIsOrderly /\ ApplyIsOrderly

(* What is loaded can be used, whatever is in flash.                       *)
LEMMA LoadIsUsable == ASSUME FlashTyped PROVE Load(flash) \in Settings
<1> USE EthernetAssumption DEF FlashTyped, Settings, Fields, SettingsValid
<1>1. Default \in Settings
  BY DEF Default
<1>2. CASE flash["mode"] = "dhcp"
  BY <1>1, <1>2 DEF Load, Absent
<1>3. CASE flash["mode"] = "static"
  BY <1>1, <1>3 DEF Load, Absent
<1>4. CASE flash["mode"] = Absent
  BY <1>1, <1>4 DEF Load
<1>5. QED
  BY <1>2, <1>3, <1>4

(* What was saved whole is what is loaded.                                 *)
LEMMA SavedIsLoaded ==
  ASSUME FlashTyped, NEW s \in Settings,
         flash["mode"] = s.mode, flash["phy"] = s.phy, flash["ip"] = s.ip, flash["gateway"] = s.gateway
  PROVE  Load(flash) = s
<1> USE EthernetAssumption DEF FlashTyped, Settings, Fields, SettingsValid
<1>1. s = [mode |-> s.mode, phy |-> s.phy, ip |-> s.ip, gateway |-> s.gateway]
  OBVIOUS
<1>2. CASE s.mode = "dhcp"
  BY <1>1, <1>2 DEF Load, Absent
<1>3. CASE s.mode = "static"
  BY <1>1, <1>3 DEF Load, Absent
<1>4. QED
  BY <1>2, <1>3

(* A setter asks for settings of its kind.                                 *)
LEMMA RequestsAreSettings ==
  ASSUME settings \in Settings, NEW r \in Requests, SettingsValid(r)
  PROVE  r \in Settings
BY EthernetAssumption DEF Requests, Default, Settings, Fields, SettingsValid

(* The link and its events do not touch the settings.                      *)
LEMMA LinkLeavesSettings ==
  ASSUME EthernetInv,
         LinkChanges \/ AddressChanges \/ HandleEvent \/ LoseEvent \/ UNCHANGED ethernetVars
  PROVE  EthernetInv'
<1>1. UNCHANGED <<flash, settings, initialized, requested, call, saved, applied, started, unrestored, torn>>
  BY DEF LinkChanges, AddressChanges, HandleEvent, LoseEvent, ethernetVars, configVars, driverVars
<1>2. EthernetTyped'
  BY <1>1 DEF EthernetInv, EthernetTyped, FlashTyped
<1>3. SaveIsOrderly'
  BY <1>1 DEF EthernetInv, SaveIsOrderly, Load
<1>4. ApplyIsOrderly'
  BY <1>1 DEF EthernetInv, ApplyIsOrderly, RestoredAfterFailure
<1>5. QED
  BY <1>2, <1>3, <1>4 DEF EthernetInv

(* Saving a key brings flash nearer to what was requested.                 *)
LEMMA SaveKeyKeeps == ASSUME EthernetInv, SaveKey PROVE EthernetInv'
<1> USE DEF EthernetInv, SaveKey
<1>1. saved \in 0..3 /\ saved' = saved + 1 /\ torn'
  BY DEF EthernetTyped, Keys
<1>2. UNCHANGED <<settings, initialized, requested, call, applied, started, unrestored>>
  BY DEF configVars, driverVars
<1>3. flash' = [flash EXCEPT ![Keys[saved + 1]] = requested[Keys[saved + 1]]]
  OBVIOUS
<1>4. /\ saved = 0 => Keys[saved + 1] = "mode"
      /\ saved = 1 => Keys[saved + 1] = "phy"
      /\ saved = 2 => Keys[saved + 1] = "ip"
      /\ saved = 3 => Keys[saved + 1] = "gateway"
  BY DEF Keys
<1>5. FlashTyped'
  BY <1>1, <1>3, <1>4 DEF EthernetTyped, FlashTyped, Settings, Fields
<1>6. EthernetTyped'
  BY <1>1, <1>2, <1>5 DEF EthernetTyped
<1>7. SaveIsOrderly'
  BY <1>1, <1>2, <1>3, <1>4 DEF EthernetTyped, FlashTyped, SaveIsOrderly, Restoring
<1>8. ApplyIsOrderly'
  BY <1>2 DEF ApplyIsOrderly, RestoredAfterFailure
<1>9. QED
  BY <1>6, <1>7, <1>8

(* Setting Ethernet and restoring it.                                      *)
LEMMA SetEthernetKeeps == ASSUME EthernetInv, SetEthernet PROVE EthernetInv'
<1> USE DEF EthernetInv, Proceeds, configVars, driverVars, linkVars
<1>1. CASE SaveKey
  BY <1>1, SaveKeyKeeps
<1>2. CASE Accept
  <2>1. Load(flash) = requested
    BY <1>2, SavedIsLoaded DEF Accept, EthernetTyped, SaveIsOrderly, Keys
  <2>2. EthernetTyped'
    <3>1. FlashTyped'
      BY <1>2 DEF Accept, EthernetTyped, FlashTyped
    <3>2. UNCHANGED <<initialized, requested, applied, started>> /\ settings' = requested
      BY <1>2 DEF Accept
    <3>3. call' = "idle" /\ saved' = 0 /\ unrestored' = FALSE /\ torn' = FALSE
      BY <1>2 DEF Accept
    <3>4. unrestored' \in BOOLEAN /\ torn' \in BOOLEAN
      BY <3>3
    <3>5. QED
      BY <3>1, <3>2, <3>3, <3>4 DEF EthernetTyped
  <2>3. Load(flash)' = Load(flash)
    BY <1>2 DEF Accept, Load
  <2>4. SaveIsOrderly'
    BY <1>2, <2>1, <2>3 DEF Accept, SaveIsOrderly
  <2>5. ApplyIsOrderly'
    BY <1>2 DEF Accept, ApplyIsOrderly, RestoredAfterFailure
  <2>6. QED
    BY <2>2, <2>4, <2>5
<1>3. CASE Reconfigure
  <2>1. requested' \in Settings
    BY <1>3, RequestsAreSettings DEF Reconfigure, EthernetTyped
  <2>2. EthernetTyped'
    BY <1>3, <2>1 DEF Reconfigure, EthernetTyped, FlashTyped, Steps
  <2>3. SaveIsOrderly' /\ ApplyIsOrderly'
    BY <1>3 DEF Reconfigure, SaveIsOrderly, ApplyIsOrderly, RestoredAfterFailure, Load, Restoring
  <2>4. QED
    BY <2>2, <2>3
<1>4. CASE StopDriver
  <2>1. EthernetTyped'
    BY <1>4 DEF StopDriver, DriverStops, EthernetTyped, FlashTyped, Steps
  <2>2. SaveIsOrderly' /\ ApplyIsOrderly'
    BY <1>4 DEF StopDriver, DriverStops, SaveIsOrderly, ApplyIsOrderly, RestoredAfterFailure, Load, Restoring
  <2>3. QED
    BY <2>1, <2>2
<1>5. CASE ApplyAddress \/ ApplyPhy \/ StartDriver
  <2>1. /\ applied' \in {applied, [requested EXCEPT !.phy = applied.phy], [applied EXCEPT !.phy = requested.phy]}
        /\ call' \in Steps /\ started' \in BOOLEAN
        /\ UNCHANGED <<flash, settings, initialized, requested, saved, unrestored, torn>>
    BY <1>5 DEF ApplyAddress, ApplyPhy, StartDriver, EthernetTyped, Steps
  <2>2. EthernetTyped'
    BY <2>1 DEF EthernetTyped, FlashTyped, Settings, Fields
  <2>3. saved = 0
    BY <1>5 DEF ApplyAddress, ApplyPhy, StartDriver, SaveIsOrderly, Restoring
  <2>4. SaveIsOrderly'
    BY <2>1, <2>3 DEF SaveIsOrderly, Load
  <2>5. CASE ApplyAddress
    <3>1. ApplyIsOrderly'
      BY <2>1, <2>5 DEF ApplyAddress, ApplyIsOrderly, RestoredAfterFailure, EthernetTyped, Settings, Fields
    <3>2. QED
      BY <2>2, <2>4, <3>1
  <2>6. CASE ApplyPhy
    <3>1. applied' = requested
      BY <2>6 DEF ApplyPhy, ApplyIsOrderly, EthernetTyped, Settings, Fields
    <3>2. QED
      BY <2>1, <2>2, <2>4, <2>6, <3>1 DEF ApplyPhy, ApplyIsOrderly, RestoredAfterFailure
  <2>7. CASE StartDriver
    <3>1. ApplyIsOrderly'
      BY <2>7 DEF StartDriver, ApplyIsOrderly, RestoredAfterFailure
    <3>2. QED
      BY <2>2, <2>4, <3>1
  <2>8. QED
    BY <1>5, <2>2, <2>4, <2>5, <2>6, <2>7
<1>6. CASE StepFails
  <2>1. EthernetTyped'
    BY <1>6 DEF StepFails, EthernetTyped, FlashTyped, Restoring, Settings, Fields
  <2>2. SaveIsOrderly' /\ ApplyIsOrderly'
    BY <1>6 DEF StepFails, SaveIsOrderly, ApplyIsOrderly, RestoredAfterFailure, Load, Restoring
  <2>3. QED
    BY <2>1, <2>2
<1>7. CASE RestoreStop
  <2>1. EthernetTyped'
    BY <1>7 DEF RestoreStop, DriverStops, EthernetTyped, FlashTyped, Restoring
  <2>2. SaveIsOrderly' /\ ApplyIsOrderly'
    BY <1>7 DEF RestoreStop, DriverStops, SaveIsOrderly, ApplyIsOrderly, RestoredAfterFailure, Load, Restoring
  <2>3. QED
    BY <2>1, <2>2
<1>8. CASE RestoreSettings
  <2>1. EthernetTyped'
    BY <1>8 DEF RestoreSettings, EthernetTyped, FlashTyped, Restoring, Settings, Fields
  <2>2. SaveIsOrderly' /\ ApplyIsOrderly'
    BY <1>8 DEF RestoreSettings, SaveIsOrderly, ApplyIsOrderly, RestoredAfterFailure, Load, Restoring
  <2>3. QED
    BY <2>1, <2>2
<1>9. CASE RestoreStart
  <2>1. EthernetTyped'
    <3>1. FlashTyped'
      BY <1>9 DEF RestoreStart, EthernetTyped, FlashTyped
    <3>2. UNCHANGED <<settings, initialized, requested, applied, torn>> /\ call' = "idle" /\ saved' = 0
      BY <1>9 DEF RestoreStart
    <3>3. started' \in BOOLEAN /\ unrestored' \in BOOLEAN
      BY <1>9 DEF RestoreStart, EthernetTyped
    <3>4. QED
      BY <3>1, <3>2, <3>3 DEF EthernetTyped
  <2>2. SaveIsOrderly' /\ ApplyIsOrderly'
    BY <1>9 DEF RestoreStart, SaveIsOrderly, ApplyIsOrderly, RestoredAfterFailure, Load, Restoring
  <2>3. QED
    BY <2>1, <2>2
<1>10. QED
  BY <1>1, <1>2, <1>3, <1>4, <1>5, <1>6, <1>7, <1>8, <1>9 DEF SetEthernet

(* A reset starts from what is in flash.                                   *)
LEMMA EthernetResetKeeps == ASSUME EthernetInv, EthernetReset PROVE EthernetInv'
<1> USE DEF EthernetInv, EthernetReset
<1>1. Load(flash) \in Settings /\ Default \in Settings
  BY LoadIsUsable, EthernetAssumption DEF EthernetTyped, Settings, Fields, Default
<1>2. EthernetTyped'
  <2>1. FlashTyped'
    BY DEF EthernetTyped, FlashTyped
  <2>2. settings' \in Settings /\ requested' \in Settings /\ applied' = settings'
    BY <1>1
  <2>3. call' = "idle" /\ saved' = 0 /\ initialized' \in BOOLEAN /\ started' = initialized'
    OBVIOUS
  <2>4. unrestored' = FALSE /\ torn' = torn
    OBVIOUS
  <2>5. applied' \in Fields
    BY <2>2 DEF Settings, Fields
  <2>6. started' \in BOOLEAN /\ unrestored' \in BOOLEAN /\ torn' \in BOOLEAN
    BY <2>3, <2>4 DEF EthernetTyped
  <2>7. QED
    BY <2>1, <2>2, <2>3, <2>5, <2>6 DEF EthernetTyped
<1>3. SaveIsOrderly' /\ ApplyIsOrderly'
  BY DEF SaveIsOrderly, ApplyIsOrderly, RestoredAfterFailure, Load, Restoring
<1>4. QED
  BY <1>2, <1>3

(* The invariant holds in every behavior.                                  *)
THEOREM EthernetInvariant == EthernetSpec => []EthernetInv
<1>1. EthernetInit => EthernetInv
  <2> SUFFICES ASSUME EthernetInit PROVE EthernetInv
    OBVIOUS
  <2> USE EthernetAssumption DEF EthernetInit
  <2>1. flash = [k \in {"mode", "phy", "ip", "gateway"} |-> Absent]
    BY DEF Keys, ToSet
  <2>2. Default \in Settings /\ Load(flash) = Default
    BY <2>1 DEF Settings, Fields, Default, Load
  <2>3. EthernetTyped
    <3>1. FlashTyped
      BY <2>1 DEF FlashTyped
    <3>2. settings \in Settings /\ requested \in Settings /\ applied = settings
      BY <2>2
    <3>3. applied \in Fields
      BY <3>2 DEF Settings, Fields
    <3>4. call = "idle" /\ saved = 0 /\ initialized /\ started /\ ~unrestored /\ ~torn
      OBVIOUS
    <3>5. initialized \in BOOLEAN /\ started \in BOOLEAN /\ unrestored \in BOOLEAN /\ torn \in BOOLEAN
      OBVIOUS
    <3>6. QED
      BY <3>1, <3>2, <3>3, <3>4, <3>5 DEF EthernetTyped
  <2>4. SaveIsOrderly /\ ApplyIsOrderly
    BY <2>2 DEF SaveIsOrderly, ApplyIsOrderly, RestoredAfterFailure
  <2>5. QED
    BY <2>3, <2>4 DEF EthernetInv
<1>2. EthernetInv /\ [EthernetNext]_ethernetVars => EthernetInv'
  BY SetEthernetKeeps, LinkLeavesSettings, EthernetResetKeeps DEF EthernetNext
<1>3. QED
  BY <1>1, <1>2, PTL DEF EthernetSpec

(* A change that failed leaves the old settings in force unless a step of  *)
(* restoring them failed too (reconfigure).                                *)
THEOREM FailureRestores == EthernetSpec => []RestoredAfterFailure
BY EthernetInvariant, PTL DEF EthernetInv, ApplyIsOrderly

(* The next boot has the settings last set, unless their save was cut off  *)
(* (save_settings, load_settings).                                         *)
THEOREM SavedSettingsSurvive == EthernetSpec => []SettingsSurvive
<1>1. EthernetInv => SettingsSurvive
  BY DEF EthernetInv, SaveIsOrderly, SettingsSurvive
<1>2. QED
  BY <1>1, EthernetInvariant, PTL
-----------------------------------------------------------------------------
(* The link that is shown.                                                 *)

LinkEvents == {"connected", "disconnected", "stop"}
Events == LinkEvents \cup {"got", "lost"}

LinkTyped ==
  /\ events \in Seq(Events)
  /\ link \in BOOLEAN /\ started \in BOOLEAN
  /\ linkUp \in BOOLEAN /\ hasIp \in BOOLEAN /\ dropped \in BOOLEAN

(* No event between the positions i and j is about the link.               *)
Quiet(es, i, j) == \A k \in i..j : es[k] \notin LinkEvents

(* The last event about the link tells how it is; without one what is shown*)
(* does, if no event was lost.                                             *)
LastTells(es, up, shown, lost) ==
  /\ \A i \in 1..Len(es) : es[i] \in LinkEvents /\ Quiet(es, i + 1, Len(es)) => (up <=> es[i] = "connected")
  /\ Quiet(es, 1, Len(es)) /\ ~lost => (up <=> shown)

(* An address is reported while the link is up.                            *)
AddressNeedsLink(es, shown, lost) ==
  \A i \in 1..Len(es) : es[i] = "got" =>
    /\ \A j \in 1..(i - 1) : es[j] \in LinkEvents /\ Quiet(es, j + 1, i - 1) => es[j] = "connected"
    /\ Quiet(es, 1, i - 1) /\ ~lost => shown

LinkInv ==
  /\ LinkTyped
  /\ LastTells(events, link, linkUp, dropped) /\ AddressNeedsLink(events, linkUp, dropped)
  /\ link => started
  /\ hasIp /\ ~dropped => linkUp

(* Posting an event, about the link or about the address.                  *)
LEMMA PostKeeps ==
  ASSUME NEW es \in Seq(Events), NEW e \in Events, NEW up \in BOOLEAN, NEW after \in BOOLEAN, NEW shown \in BOOLEAN, NEW lost \in BOOLEAN,
         LastTells(es, up, shown, lost), AddressNeedsLink(es, shown, lost),
         e \in LinkEvents => (after <=> e = "connected"),
         e \notin LinkEvents => (after <=> up),
         e = "got" => up
  PROVE  /\ Append(es, e) \in Seq(Events)
         /\ LastTells(Append(es, e), after, shown, lost) /\ AddressNeedsLink(Append(es, e), shown, lost)
<1> DEFINE n == Len(es)
           fs == Append(es, e)
<1>1. n \in Nat /\ Len(fs) = n + 1 /\ fs \in Seq(Events)
  OBVIOUS
<1>2. (\A k \in 1..n : fs[k] = es[k]) /\ fs[n + 1] = e
  OBVIOUS
<1> HIDE DEF fs
<1>3. \A i \in 1..(n + 1), j \in 0..n : Quiet(fs, i, j) <=> Quiet(es, i, j)
  BY <1>1, <1>2 DEF Quiet
<1>4. Quiet(fs, n + 2, n + 1)
  BY <1>1 DEF Quiet
<1>5. \A i \in 1..(n + 1) : Quiet(fs, i, n + 1) <=> Quiet(es, i, n) /\ e \notin LinkEvents
  BY <1>1, <1>2 DEF Quiet
<1>6. LastTells(fs, after, shown, lost)
  <2>1. ASSUME NEW i \in 1..(n + 1), fs[i] \in LinkEvents, Quiet(fs, i + 1, n + 1) PROVE after <=> fs[i] = "connected"
    <3>1. CASE i = n + 1
      BY <1>2, <2>1, <3>1
    <3>2. CASE i \in 1..n
      BY <1>1, <1>2, <1>5, <2>1, <3>2 DEF LastTells
    <3>3. QED
      BY <1>1, <3>1, <3>2
  <2>2. Quiet(fs, 1, n + 1) /\ ~lost => (after <=> shown)
    BY <1>1, <1>5 DEF LastTells
  <2>3. QED
    BY <1>1, <2>1, <2>2 DEF LastTells
<1>7. AddressNeedsLink(fs, shown, lost)
  <2>1. ASSUME NEW i \in 1..(n + 1), fs[i] = "got"
        PROVE  /\ \A j \in 1..(i - 1) : fs[j] \in LinkEvents /\ Quiet(fs, j + 1, i - 1) => fs[j] = "connected"
               /\ Quiet(fs, 1, i - 1) /\ ~lost => shown
    <3>1. CASE i \in 1..n
      BY <1>1, <1>2, <1>3, <2>1, <3>1 DEF AddressNeedsLink
    <3>2. CASE i = n + 1
      BY <1>1, <1>2, <1>3, <2>1, <3>2 DEF LastTells
    <3>3. QED
      BY <1>1, <3>1, <3>2
  <2>2. QED
    BY <1>1, <2>1 DEF AddressNeedsLink
<1>8. QED
  BY <1>1, <1>6, <1>7 DEF fs

(* Taking the oldest event e, whether it is handled or lost.               *)
LEMMA TakeKeeps ==
  ASSUME NEW es \in Seq(Events), es # << >>, NEW up \in BOOLEAN,
         NEW shown \in BOOLEAN, NEW lost \in BOOLEAN, NEW shownAfter \in BOOLEAN, NEW lostAfter \in BOOLEAN,
         LastTells(es, up, shown, lost), AddressNeedsLink(es, shown, lost),
         Head(es) \in LinkEvents /\ ~lostAfter => (shownAfter <=> Head(es) = "connected"),
         Head(es) \notin LinkEvents /\ ~lostAfter => ~lost /\ (shownAfter <=> shown)
  PROVE  /\ Tail(es) \in Seq(Events)
         /\ LastTells(Tail(es), up, shownAfter, lostAfter) /\ AddressNeedsLink(Tail(es), shownAfter, lostAfter)
         /\ Head(es) = "got" /\ ~lost => shown
<1> DEFINE n == Len(es)
           e == Head(es)
           fs == Tail(es)
<1>1. n \in Nat \ {0} /\ Len(fs) = n - 1 /\ fs \in Seq(Events) /\ e \in Events /\ e = es[1]
  OBVIOUS
<1>2. \A k \in 1..(n - 1) : fs[k] = es[k + 1]
  OBVIOUS
<1> HIDE DEF fs, e
<1>3. \A i \in 1..n, j \in 0..(n - 1) : Quiet(fs, i, j) <=> Quiet(es, i + 1, j + 1)
  <2> TAKE i \in 1..n, j \in 0..(n - 1)
  <2>1. ASSUME Quiet(fs, i, j) PROVE Quiet(es, i + 1, j + 1)
    <3> SUFFICES ASSUME NEW k \in (i + 1)..(j + 1) PROVE es[k] \notin LinkEvents
      BY DEF Quiet
    <3>1. k - 1 \in i..j /\ k - 1 \in 1..(n - 1) /\ (k - 1) + 1 = k
      BY <1>1
    <3>2. QED
      BY <1>2, <2>1, <3>1 DEF Quiet
  <2>2. ASSUME Quiet(es, i + 1, j + 1) PROVE Quiet(fs, i, j)
    BY <1>1, <1>2, <2>2 DEF Quiet
  <2>3. QED
    BY <2>1, <2>2
<1>4. \A j \in 0..(n - 1) : Quiet(es, 1, j + 1) <=> Quiet(es, 2, j + 1) /\ e \notin LinkEvents
  BY <1>1 DEF Quiet
<1>5. LastTells(fs, up, shownAfter, lostAfter)
  <2>1. \A i \in 1..(n - 1) : fs[i] \in LinkEvents /\ Quiet(fs, i + 1, n - 1) => (up <=> fs[i] = "connected")
    BY <1>1, <1>2, <1>3 DEF LastTells
  <2>2. ASSUME Quiet(fs, 1, n - 1), ~lostAfter PROVE up <=> shownAfter
    <3>1. Quiet(es, 2, n)
      BY <1>1, <1>3, <2>2
    <3>2. CASE e \in LinkEvents
      BY <1>1, <2>2, <3>1, <3>2 DEF LastTells, e
    <3>3. CASE e \notin LinkEvents
      BY <1>1, <1>4, <2>2, <3>1, <3>3 DEF LastTells, e
    <3>4. QED
      BY <3>2, <3>3
  <2>3. QED
    BY <1>1, <2>1, <2>2 DEF LastTells
<1>6. AddressNeedsLink(fs, shownAfter, lostAfter)
  <2>1. ASSUME NEW i \in 1..(n - 1), fs[i] = "got"
        PROVE  /\ \A j \in 1..(i - 1) : fs[j] \in LinkEvents /\ Quiet(fs, j + 1, i - 1) => fs[j] = "connected"
               /\ Quiet(fs, 1, i - 1) /\ ~lostAfter => shownAfter
    <3>1. es[i + 1] = "got" /\ i + 1 \in 1..n
      BY <1>1, <1>2, <2>1
    <3>2. \A j \in 1..(i - 1) : fs[j] \in LinkEvents /\ Quiet(fs, j + 1, i - 1) => fs[j] = "connected"
      BY <1>1, <1>2, <1>3, <3>1 DEF AddressNeedsLink
    <3>3. ASSUME Quiet(fs, 1, i - 1), ~lostAfter PROVE shownAfter
      <4>1. Quiet(es, 2, i)
        BY <1>1, <1>3, <3>3
      <4>2. CASE e \in LinkEvents
        BY <1>1, <3>1, <3>3, <4>1, <4>2 DEF AddressNeedsLink, e
      <4>3. CASE e \notin LinkEvents
        <5>1. i - 1 \in 0..(n - 1) /\ (i - 1) + 1 = i /\ (i + 1) - 1 = i
          BY <1>1
        <5>2. Quiet(es, 1, i)
          BY <1>4, <4>1, <4>3, <5>1
        <5>3. ~lost /\ (shownAfter <=> shown)
          BY <3>3, <4>3 DEF e
        <5>4. Quiet(es, 1, (i + 1) - 1)
          BY <5>1, <5>2
        <5>5. QED
          BY <3>1, <5>3, <5>4 DEF AddressNeedsLink
      <4>4. QED
        BY <4>2, <4>3
    <3>4. QED
      BY <3>2, <3>3
  <2>2. QED
    BY <1>1, <2>1 DEF AddressNeedsLink
<1>7. e = "got" /\ ~lost => shown
  <2>1. Quiet(es, 1, 1 - 1)
    BY DEF Quiet
  <2>2. 1 \in 1..n
    BY <1>1
  <2>3. QED
    BY <1>1, <2>1, <2>2 DEF AddressNeedsLink
<1>8. QED
  BY <1>1, <1>5, <1>6, <1>7 DEF fs, e

(* Stopping the driver takes the link down with it.                        *)
LEMMA DriverStopsKeeps == ASSUME LinkInv, DriverStops PROVE LinkInv'
<1>1. CASE started
  <2>1. events' = Append(events, "stop") /\ UNCHANGED <<linkUp, hasIp, dropped>> /\ link' = FALSE /\ started' = FALSE
    BY <1>1 DEF DriverStops
  <2>2. "stop" \in LinkEvents /\ "stop" \in Events
    BY DEF LinkEvents, Events
  <2>3. /\ events' \in Seq(Events)
        /\ LastTells(events', FALSE, linkUp, dropped) /\ AddressNeedsLink(events', linkUp, dropped)
    BY <2>1, <2>2, PostKeeps DEF LinkInv, LinkTyped
  <2>4. QED
    BY <2>1, <2>3 DEF LinkInv, LinkTyped
<1>2. CASE ~started
  <2>1. UNCHANGED <<events, linkUp, hasIp, dropped>> /\ link' = FALSE /\ started' = FALSE /\ ~link
    BY <1>2 DEF DriverStops, LinkInv
  <2>2. QED
    BY <2>1 DEF LinkInv, LinkTyped, LastTells, AddressNeedsLink, Quiet
<1>3. QED
  BY <1>1, <1>2 DEF LinkInv, LinkTyped

(* At first nothing is posted, and the link is down.                       *)
LEMMA NothingPosted ==
  /\ << >> \in Seq(Events)
  /\ \A lost \in BOOLEAN : LastTells(<< >>, FALSE, FALSE, lost) /\ AddressNeedsLink(<< >>, FALSE, lost)
BY DEF LastTells, AddressNeedsLink

(* Every step keeps the invariant of the link.                             *)
LEMMA LinkKeeps == ASSUME LinkInv, [EthernetNext]_ethernetVars PROVE LinkInv'
<1> USE DEF linkVars, driverVars
<1>1. ASSUME UNCHANGED linkVars, started' \in BOOLEAN, link => started' PROVE LinkInv'
  BY <1>1 DEF LinkInv, LinkTyped, LastTells, AddressNeedsLink, Quiet
<1>2. CASE SetEthernet
  <2>1. CASE StopDriver \/ RestoreStop
    <3>1. DriverStops \/ UNCHANGED <<driverVars, linkVars>>
      BY <2>1 DEF StopDriver, RestoreStop
    <3>2. QED
      BY <1>1, <3>1, DriverStopsKeeps DEF LinkInv, LinkTyped
  <2>2. CASE Reconfigure \/ ApplyAddress \/ ApplyPhy \/ StartDriver \/ SaveKey \/ Accept \/ StepFails \/ RestoreSettings \/ RestoreStart
    <3>1. UNCHANGED linkVars /\ (started' = started \/ started' = TRUE)
      BY <2>2 DEF Reconfigure, ApplyAddress, ApplyPhy, StartDriver, SaveKey, Accept, StepFails, RestoreSettings, RestoreStart
    <3>2. QED
      BY <1>1, <3>1 DEF LinkInv, LinkTyped
  <2>3. QED
    BY <1>2, <2>1, <2>2 DEF SetEthernet
<1>3. CASE LinkChanges
  <2> DEFINE e == IF link THEN "disconnected" ELSE "connected"
  <2>1. events' = Append(events, e) /\ started /\ link' = ~link /\ UNCHANGED <<started, linkUp, hasIp, dropped>>
    BY <1>3 DEF LinkChanges
  <2>2. e \in LinkEvents /\ e \in Events /\ (link' <=> e = "connected")
    BY <2>1 DEF LinkEvents, Events
  <2> HIDE DEF e
  <2>3. /\ events' \in Seq(Events)
        /\ LastTells(events', link', linkUp, dropped) /\ AddressNeedsLink(events', linkUp, dropped)
    BY <2>1, <2>2, PostKeeps DEF LinkInv, LinkTyped, LinkEvents
  <2>4. QED
    BY <2>1, <2>3 DEF LinkInv, LinkTyped
<1>4. CASE AddressChanges
  <2>1. PICK e \in {"got", "lost"} : (e = "got" => link) /\ events' = Append(events, e)
    BY <1>4 DEF AddressChanges
  <2>2. UNCHANGED <<started, link, linkUp, hasIp, dropped>>
    BY <1>4 DEF AddressChanges
  <2>3. e \notin LinkEvents /\ e \in Events
    BY DEF LinkEvents, Events
  <2>4. /\ events' \in Seq(Events)
        /\ LastTells(events', link, linkUp, dropped) /\ AddressNeedsLink(events', linkUp, dropped)
    BY <2>1, <2>2, <2>3, PostKeeps DEF LinkInv, LinkTyped
  <2>5. QED
    BY <2>2, <2>4 DEF LinkInv, LinkTyped
<1>5. CASE HandleEvent \/ LoseEvent
  <2>1. events # << >> /\ events' = Tail(events) /\ UNCHANGED <<link, started>>
    BY <1>5 DEF HandleEvent, LoseEvent
  <2>2. linkUp' \in BOOLEAN /\ hasIp' \in BOOLEAN /\ dropped' \in BOOLEAN
    BY <1>5 DEF HandleEvent, LoseEvent, LinkInv, LinkTyped
  <2>3. Head(events) \in LinkEvents /\ ~dropped' => (linkUp' <=> Head(events) = "connected") /\ (hasIp' => linkUp')
    BY <1>5, <2>1 DEF HandleEvent, LoseEvent, LinkInv, LinkTyped, LinkEvents
  <2>4. Head(events) \notin LinkEvents /\ ~dropped' =>
          ~dropped /\ (linkUp' <=> linkUp) /\ (hasIp' => hasIp \/ Head(events) = "got")
    BY <1>5, <2>1 DEF HandleEvent, LoseEvent, LinkInv, LinkTyped, LinkEvents
  <2>5. /\ events' \in Seq(Events)
        /\ LastTells(events', link, linkUp', dropped') /\ AddressNeedsLink(events', linkUp', dropped')
        /\ Head(events) = "got" /\ ~dropped => linkUp
    BY <2>1, <2>2, <2>3, <2>4, TakeKeeps DEF LinkInv, LinkTyped
  <2>6. QED
    BY <2>1, <2>2, <2>3, <2>4, <2>5 DEF LinkInv, LinkTyped
<1>6. CASE EthernetReset
  <2>1. link' = FALSE /\ hasIp' = FALSE /\ linkUp' = FALSE /\ dropped' = FALSE /\ events' = << >>
    BY <1>6 DEF EthernetReset
  <2>2. started' \in BOOLEAN
    BY <1>6 DEF EthernetReset
  <2>3. QED
    BY <2>1, <2>2, NothingPosted DEF LinkInv, LinkTyped
<1>7. CASE UNCHANGED ethernetVars
  BY <1>1, <1>7 DEF ethernetVars, LinkInv, LinkTyped
<1>8. QED
  BY <1>2, <1>3, <1>4, <1>5, <1>6, <1>7 DEF EthernetNext

(* When every event since the last that was lost has been handled, the link*)
(* that is shown is the real one, and an address is shown only with a link *)
(* (ethernet_event_handler, ip_event_handler).                             *)
THEOREM LinkIsShown == EthernetSpec => []LinkShown
<1>1. EthernetInit => LinkInv
  BY NothingPosted DEF EthernetInit, LinkInv, LinkTyped
<1>2. LinkInv /\ [EthernetNext]_ethernetVars => LinkInv'
  BY LinkKeeps
<1>3. LinkInv => LinkShown
  <2> SUFFICES ASSUME LinkInv, events = << >>, ~dropped PROVE linkUp = link /\ (hasIp => linkUp)
    BY DEF LinkShown
  <2>1. Quiet(events, 1, Len(events))
    BY DEF Quiet
  <2>2. QED
    BY <2>1 DEF LinkInv, LinkTyped, LastTells
<1>4. QED
  BY <1>1, <1>2, <1>3, PTL DEF EthernetSpec
=============================================================================
