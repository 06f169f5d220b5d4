------------------------------ MODULE BleProofs ------------------------------
(***************************************************************************)
(* Recovery is real, one battery is probed at a time and the device can be *)
(* found, for any batteries and any number of spontaneous resets, and      *)
(* whether or not the host comes up with an address.                       *)
(***************************************************************************)
EXTENDS BleSafety, TLAPS

Flags ==
  /\ synced \in BOOLEAN /\ pending \in BOOLEAN /\ started \in BOOLEAN /\ observed \in BOOLEAN
  /\ recovered \in BOOLEAN /\ up \in BOOLEAN /\ resetDue \in BOOLEAN
  /\ advertising \in BOOLEAN /\ client \in BOOLEAN /\ cleanup \in BOOLEAN
  /\ resetSince \in BOOLEAN /\ addressFailed \in BOOLEAN

Places ==
  /\ bits \subseteq {"synced", "done"}
  /\ queued \in 0..1
  /\ host \in HostPlaces /\ scanner \in ScannerPlaces
  /\ links \subseteq Batteries
  /\ connecting \in Batteries \cup {NoBattery} /\ probe \in Batteries \cup {NoBattery}
  /\ attempt \in 1..Attempts
  /\ spontaneous \in 0..MaxSpontaneous

BleTyped == Flags /\ Places

Requesting == {"clear", "post"}
Resetting == Requesting \cup {"await", "verify"}

(* How far a request has come.  Without one nothing of an earlier one is   *)
(* left; while it is made the host has not heard of it; and what the host  *)
(* observed of it was a reset.                                             *)
RequestInv ==
  /\ ~pending => ~started /\ queued = 0
  /\ scanner \in Requesting => pending /\ queued = 0 /\ ~started
  /\ started => queued = 0
  /\ observed => started /\ resetSince
  /\ host = "down" /\ started => resetSince
  /\ scanner \in Resetting /\ ~pending => resetSince

(* Of which battery there may be a link, or an attempt, and until when.    *)
(* No request is pending while the scanner scans and probes: the gate lets *)
(* it pass only without one.                                               *)
ProbeInv ==
  /\ links \subseteq {probe} /\ connecting \in {NoBattery, probe}
  /\ ~cleanup => links = {} /\ connecting = NoBattery
  /\ scanner = "scan" => ~cleanup
  /\ scanner \in {"disconnect", "poll", "last_check"} => connecting = NoBattery
  /\ scanner \in Resetting /\ resetSince => links = {} /\ connecting = NoBattery
  /\ scanner \in ScannerPlaces \ (Resetting \cup {"gate", "bit_seen"}) => ~pending

(* The host is usable only when it is up, and after it advertised.         *)
AdvertisingInv ==
  /\ host \in {"address", "address_known", "recovered", "synced", "advertised"} => up
  /\ host \in {"reset", "requested", "address", "address_known", "recovered"} => ~synced
  /\ ~up /\ host # "down" => ~synced
  /\ host \in {"idle", "advertised"} /\ synced /\ ~pending => advertising \/ client

BleInv == BleTyped /\ RequestInv /\ ProbeInv /\ AdvertisingInv

(* Every step of the host task keeps the invariant.                        *)
LEMMA HostKeeps == ASSUME BleInv, HostTask PROVE BleInv'
<1> USE BleAssumption DEF BleInv, HostGoes, HostAt, flags, gapVars, scannerVars, history
<1>1. CASE ResetRequested
  <2>1. Flags'
    BY <1>1 DEF ResetRequested, BleTyped, Flags
  <2>2. Places'
    BY <1>1 DEF ResetRequested, BleTyped, Places, RequestInv, Requesting, HostPlaces, ScannerPlaces
  <2>3. RequestInv'
    BY <1>1 DEF ResetRequested, BleTyped, Flags, Places, RequestInv, Requesting, Resetting
  <2>4. ProbeInv'
    BY <1>1 DEF ResetRequested, BleTyped, Flags, Places, RequestInv, ProbeInv, ScannerPlaces, Requesting, Resetting, IsSynced
  <2>5. AdvertisingInv'
    BY <1>1 DEF ResetRequested, BleTyped, Flags, Places, AdvertisingInv, RequestInv, Advertise
  <2>6. QED
    BY <2>1, <2>2, <2>3, <2>4, <2>5 DEF BleTyped
<1>2. CASE ScheduleReset
  <2>1. Flags'
    BY <1>2 DEF ScheduleReset, BleTyped, Flags
  <2>2. Places'
    BY <1>2 DEF ScheduleReset, BleTyped, Places, RequestInv, Requesting, HostPlaces, ScannerPlaces
  <2>3. RequestInv'
    BY <1>2 DEF ScheduleReset, BleTyped, Flags, Places, RequestInv, Requesting, Resetting
  <2>4. ProbeInv'
    BY <1>2 DEF ScheduleReset, BleTyped, Flags, Places, RequestInv, ProbeInv, ScannerPlaces, Requesting, Resetting, IsSynced
  <2>5. AdvertisingInv'
    BY <1>2 DEF ScheduleReset, BleTyped, Flags, Places, AdvertisingInv, RequestInv, Advertise
  <2>6. QED
    BY <2>1, <2>2, <2>3, <2>4, <2>5 DEF BleTyped
<1>3. CASE HostReset
  <2>1. Flags'
    BY <1>3 DEF HostReset, BleTyped, Flags
  <2>2. Places'
    BY <1>3 DEF HostReset, BleTyped, Places, RequestInv, Requesting, HostPlaces, ScannerPlaces
  <2>3. RequestInv'
    BY <1>3 DEF HostReset, BleTyped, Flags, Places, RequestInv, Requesting, Resetting
  <2>4. ProbeInv'
    BY <1>3 DEF HostReset, BleTyped, Flags, Places, RequestInv, ProbeInv, ScannerPlaces, Requesting, Resetting, IsSynced
  <2>5. AdvertisingInv'
    BY <1>3 DEF HostReset, BleTyped, Flags, Places, AdvertisingInv, RequestInv, Advertise
  <2>6. QED
    BY <2>1, <2>2, <2>3, <2>4, <2>5 DEF BleTyped
<1>4. CASE OnReset
  <2>1. Flags'
    BY <1>4 DEF OnReset, BleTyped, Flags
  <2>2. Places'
    BY <1>4 DEF OnReset, BleTyped, Places, RequestInv, Requesting, HostPlaces, ScannerPlaces
  <2>3. RequestInv'
    BY <1>4 DEF OnReset, BleTyped, Flags, Places, RequestInv, Requesting, Resetting
  <2>4. ProbeInv'
    BY <1>4 DEF OnReset, BleTyped, Flags, Places, RequestInv, ProbeInv, ScannerPlaces, Requesting, Resetting, IsSynced
  <2>5. AdvertisingInv'
    BY <1>4 DEF OnReset, BleTyped, Flags, Places, AdvertisingInv, RequestInv, Advertise
  <2>6. QED
    BY <2>1, <2>2, <2>3, <2>4, <2>5 DEF BleTyped
<1>5. CASE ResetClearsBit
  <2>1. Flags'
    BY <1>5 DEF ResetClearsBit, BleTyped, Flags
  <2>2. Places'
    BY <1>5 DEF ResetClearsBit, BleTyped, Places, RequestInv, Requesting, HostPlaces, ScannerPlaces
  <2>3. RequestInv'
    BY <1>5 DEF ResetClearsBit, BleTyped, Flags, Places, RequestInv, Requesting, Resetting
  <2>4. ProbeInv'
    BY <1>5 DEF ResetClearsBit, BleTyped, Flags, Places, RequestInv, ProbeInv, ScannerPlaces, Requesting, Resetting, IsSynced
  <2>5. AdvertisingInv'
    BY <1>5 DEF ResetClearsBit, BleTyped, Flags, Places, AdvertisingInv, RequestInv, Advertise
  <2>6. QED
    BY <2>1, <2>2, <2>3, <2>4, <2>5 DEF BleTyped
<1>6. CASE HostSync
  <2>1. Flags'
    BY <1>6 DEF HostSync, BleTyped, Flags
  <2>2. Places'
    BY <1>6 DEF HostSync, BleTyped, Places, RequestInv, Requesting, HostPlaces, ScannerPlaces
  <2>3. RequestInv'
    BY <1>6 DEF HostSync, BleTyped, Flags, Places, RequestInv, Requesting, Resetting
  <2>4. ProbeInv'
    BY <1>6 DEF HostSync, BleTyped, Flags, Places, RequestInv, ProbeInv, ScannerPlaces, Requesting, Resetting, IsSynced
  <2>5. AdvertisingInv'
    BY <1>6 DEF HostSync, BleTyped, Flags, Places, AdvertisingInv, RequestInv, Advertise
  <2>6. QED
    BY <2>1, <2>2, <2>3, <2>4, <2>5 DEF BleTyped
<1>7. CASE GetAddress
  <2>1. Flags'
    BY <1>7 DEF GetAddress, BleTyped, Flags
  <2>2. Places'
    BY <1>7 DEF GetAddress, BleTyped, Places, RequestInv, Requesting, HostPlaces, ScannerPlaces
  <2>3. RequestInv'
    BY <1>7 DEF GetAddress, BleTyped, Flags, Places, RequestInv, Requesting, Resetting
  <2>4. ProbeInv'
    BY <1>7 DEF GetAddress, BleTyped, Flags, Places, RequestInv, ProbeInv, ScannerPlaces, Requesting, Resetting, IsSynced
  <2>5. AdvertisingInv'
    BY <1>7 DEF GetAddress, BleTyped, Flags, Places, AdvertisingInv, RequestInv, Advertise
  <2>6. QED
    BY <2>1, <2>2, <2>3, <2>4, <2>5 DEF BleTyped
<1>8. CASE AddressFails
  <2>1. Flags'
    BY <1>8 DEF AddressFails, BleTyped, Flags
  <2>2. Places'
    BY <1>8 DEF AddressFails, BleTyped, Places, RequestInv, Requesting, HostPlaces, ScannerPlaces
  <2>3. RequestInv'
    BY <1>8 DEF AddressFails, BleTyped, Flags, Places, RequestInv, Requesting, Resetting
  <2>4. ProbeInv'
    BY <1>8 DEF AddressFails, BleTyped, Flags, Places, RequestInv, ProbeInv, ScannerPlaces, Requesting, Resetting, IsSynced
  <2>5. AdvertisingInv'
    BY <1>8 DEF AddressFails, BleTyped, Flags, Places, AdvertisingInv, RequestInv, Advertise
  <2>6. QED
    BY <2>1, <2>2, <2>3, <2>4, <2>5 DEF BleTyped
<1>9. CASE Recover
  <2>1. Flags'
    BY <1>9 DEF Recover, BleTyped, Flags
  <2>2. Places'
    BY <1>9 DEF Recover, BleTyped, Places, RequestInv, Requesting, HostPlaces, ScannerPlaces
  <2>3. RequestInv'
    BY <1>9 DEF Recover, BleTyped, Flags, Places, RequestInv, Requesting, Resetting
  <2>4. ProbeInv'
    BY <1>9 DEF Recover, BleTyped, Flags, Places, RequestInv, ProbeInv, ScannerPlaces, Requesting, Resetting, IsSynced
  <2>5. AdvertisingInv'
    BY <1>9 DEF Recover, BleTyped, Flags, Places, AdvertisingInv, RequestInv, Advertise
  <2>6. QED
    BY <2>1, <2>2, <2>3, <2>4, <2>5 DEF BleTyped
<1>10. CASE SetSynced
  <2>1. Flags'
    BY <1>10 DEF SetSynced, BleTyped, Flags
  <2>2. Places'
    BY <1>10 DEF SetSynced, BleTyped, Places, RequestInv, Requesting, HostPlaces, ScannerPlaces
  <2>3. RequestInv'
    BY <1>10 DEF SetSynced, BleTyped, Flags, Places, RequestInv, Requesting, Resetting
  <2>4. ProbeInv'
    BY <1>10 DEF SetSynced, BleTyped, Flags, Places, RequestInv, ProbeInv, ScannerPlaces, Requesting, Resetting, IsSynced
  <2>5. AdvertisingInv'
    BY <1>10 DEF SetSynced, BleTyped, Flags, Places, AdvertisingInv, RequestInv, Advertise
  <2>6. QED
    BY <2>1, <2>2, <2>3, <2>4, <2>5 DEF BleTyped
<1>11. CASE AdvertiseAgain
  <2>1. Flags'
    BY <1>11 DEF AdvertiseAgain, BleTyped, Flags, Advertise
  <2>2. Places'
    BY <1>11 DEF AdvertiseAgain, BleTyped, Places, RequestInv, Requesting, HostPlaces, ScannerPlaces
  <2>3. RequestInv'
    BY <1>11 DEF AdvertiseAgain, BleTyped, Flags, Places, RequestInv, Requesting, Resetting
  <2>4. ProbeInv'
    BY <1>11 DEF AdvertiseAgain, BleTyped, Flags, Places, RequestInv, ProbeInv, ScannerPlaces, Requesting, Resetting, IsSynced
  <2>5. AdvertisingInv'
    BY <1>11 DEF AdvertiseAgain, BleTyped, Flags, Places, AdvertisingInv, RequestInv, Advertise
  <2>6. QED
    BY <2>1, <2>2, <2>3, <2>4, <2>5 DEF BleTyped
<1>12. CASE SignalSync
  <2>1. Flags'
    BY <1>12 DEF SignalSync, BleTyped, Flags
  <2>2. Places'
    BY <1>12 DEF SignalSync, BleTyped, Places, RequestInv, Requesting, HostPlaces, ScannerPlaces
  <2>3. RequestInv'
    BY <1>12 DEF SignalSync, BleTyped, Flags, Places, RequestInv, Requesting, Resetting
  <2>4. ProbeInv'
    BY <1>12 DEF SignalSync, BleTyped, Flags, Places, RequestInv, ProbeInv, ScannerPlaces, Requesting, Resetting, IsSynced
  <2>5. AdvertisingInv'
    BY <1>12 DEF SignalSync, BleTyped, Flags, Places, AdvertisingInv, RequestInv, Advertise
  <2>6. QED
    BY <2>1, <2>2, <2>3, <2>4, <2>5 DEF BleTyped
<1>13. QED
  BY <1>1, <1>2, <1>3, <1>4, <1>5, <1>6, <1>7, <1>8, <1>9, <1>10, <1>11, <1>12 DEF HostTask, OnSync

(* So does what happens on the air.                                        *)
LEMMA AirKeeps == ASSUME BleInv, Air PROVE BleInv'
<1> USE BleAssumption DEF BleInv, HostGoes, HostAt, flags, gapVars, scannerVars, history, hostVars
<1>1. CASE Connects
  <2>1. Flags'
    BY <1>1 DEF Connects, BleTyped, Flags
  <2>2. Places'
    BY <1>1 DEF Connects, BleTyped, Places, RequestInv, Requesting, HostPlaces, ScannerPlaces
  <2>3. RequestInv'
    BY <1>1 DEF Connects, BleTyped, Flags, Places, RequestInv, Requesting, Resetting
  <2>4. ProbeInv'
    BY <1>1 DEF Connects, BleTyped, Flags, Places, RequestInv, ProbeInv, ScannerPlaces, Requesting, Resetting, IsSynced
  <2>5. AdvertisingInv'
    BY <1>1 DEF Connects, BleTyped, Flags, Places, AdvertisingInv, RequestInv, Advertise
  <2>6. QED
    BY <2>1, <2>2, <2>3, <2>4, <2>5 DEF BleTyped
<1>2. CASE LinkDrops
  <2>1. Flags'
    BY <1>2 DEF LinkDrops, BleTyped, Flags
  <2>2. Places'
    BY <1>2 DEF LinkDrops, BleTyped, Places, RequestInv, Requesting, HostPlaces, ScannerPlaces
  <2>3. RequestInv'
    BY <1>2 DEF LinkDrops, BleTyped, Flags, Places, RequestInv, Requesting, Resetting
  <2>4. ProbeInv'
    BY <1>2 DEF LinkDrops, BleTyped, Flags, Places, RequestInv, ProbeInv, ScannerPlaces, Requesting, Resetting, IsSynced
  <2>5. AdvertisingInv'
    BY <1>2 DEF LinkDrops, BleTyped, Flags, Places, AdvertisingInv, RequestInv, Advertise
  <2>6. QED
    BY <2>1, <2>2, <2>3, <2>4, <2>5 DEF BleTyped
<1>3. CASE ClientConnects
  <2>1. Flags'
    BY <1>3 DEF ClientConnects, BleTyped, Flags
  <2>2. Places'
    BY <1>3 DEF ClientConnects, BleTyped, Places, RequestInv, Requesting, HostPlaces, ScannerPlaces
  <2>3. RequestInv'
    BY <1>3 DEF ClientConnects, BleTyped, Flags, Places, RequestInv, Requesting, Resetting
  <2>4. ProbeInv'
    BY <1>3 DEF ClientConnects, BleTyped, Flags, Places, RequestInv, ProbeInv, ScannerPlaces, Requesting, Resetting, IsSynced
  <2>5. AdvertisingInv'
    BY <1>3 DEF ClientConnects, BleTyped, Flags, Places, AdvertisingInv, RequestInv, Advertise
  <2>6. QED
    BY <2>1, <2>2, <2>3, <2>4, <2>5 DEF BleTyped
<1>4. CASE ClientLeaves
  <2>1. Flags'
    BY <1>4 DEF ClientLeaves, BleTyped, Flags, Advertise
  <2>2. Places'
    BY <1>4 DEF ClientLeaves, BleTyped, Places, RequestInv, Requesting, HostPlaces, ScannerPlaces
  <2>3. RequestInv'
    BY <1>4 DEF ClientLeaves, BleTyped, Flags, Places, RequestInv, Requesting, Resetting
  <2>4. ProbeInv'
    BY <1>4 DEF ClientLeaves, BleTyped, Flags, Places, RequestInv, ProbeInv, ScannerPlaces, Requesting, Resetting, IsSynced
  <2>5. AdvertisingInv'
    BY <1>4 DEF ClientLeaves, BleTyped, Flags, Places, AdvertisingInv, RequestInv, Advertise
  <2>6. QED
    BY <2>1, <2>2, <2>3, <2>4, <2>5 DEF BleTyped
<1>5. QED
  BY <1>1, <1>2, <1>3, <1>4 DEF Air

(* So does a step of the scan ...                                          *)
LEMMA ScanKeeps == ASSUME BleInv, Scan PROVE BleInv'
<1> USE BleAssumption DEF BleInv, ScannerGoes, ScannerAt, flags, gapVars, hostVars, history
<1>1. CASE SeeSyncedBit
  <2>1. Flags'
    BY <1>1 DEF SeeSyncedBit, BleTyped, Flags
  <2>2. Places'
    BY <1>1 DEF SeeSyncedBit, BleTyped, Places, RequestInv, Requesting, HostPlaces, ScannerPlaces
  <2>3. RequestInv'
    BY <1>1 DEF SeeSyncedBit, BleTyped, Flags, Places, RequestInv, Requesting, Resetting
  <2>4. ProbeInv'
    BY <1>1 DEF SeeSyncedBit, BleTyped, Flags, Places, RequestInv, ProbeInv, ScannerPlaces, Requesting, Resetting, IsSynced
  <2>5. AdvertisingInv'
    BY <1>1 DEF SeeSyncedBit, BleTyped, Flags, Places, AdvertisingInv, RequestInv, Advertise
  <2>6. QED
    BY <2>1, <2>2, <2>3, <2>4, <2>5 DEF BleTyped
<1>2. CASE PassGate
  <2>1. Flags'
    BY <1>2 DEF PassGate, IsSynced, BleTyped, Flags
  <2>2. Places'
    BY <1>2 DEF PassGate, IsSynced, BleTyped, Places, RequestInv, Requesting, HostPlaces, ScannerPlaces
  <2>3. RequestInv'
    BY <1>2 DEF PassGate, IsSynced, BleTyped, Flags, Places, RequestInv, Requesting, Resetting
  <2>4. ProbeInv'
    BY <1>2 DEF PassGate, IsSynced, BleTyped, Flags, Places, RequestInv, ProbeInv, ScannerPlaces, Requesting, Resetting, IsSynced
  <2>5. AdvertisingInv'
    BY <1>2 DEF PassGate, IsSynced, BleTyped, Flags, Places, AdvertisingInv, RequestInv, Advertise
  <2>6. QED
    BY <2>1, <2>2, <2>3, <2>4, <2>5 DEF BleTyped
<1>3. CASE EndScan
  <2>1. Flags'
    BY <1>3 DEF EndScan, BleTyped, Flags
  <2>2. Places'
    BY <1>3 DEF EndScan, BleTyped, Places, RequestInv, Requesting, HostPlaces, ScannerPlaces
  <2>3. RequestInv'
    BY <1>3 DEF EndScan, BleTyped, Flags, Places, RequestInv, Requesting, Resetting
  <2>4. ProbeInv'
    BY <1>3 DEF EndScan, BleTyped, Flags, Places, RequestInv, ProbeInv, ScannerPlaces, Requesting, Resetting, IsSynced
  <2>5. AdvertisingInv'
    BY <1>3 DEF EndScan, BleTyped, Flags, Places, AdvertisingInv, RequestInv, Advertise
  <2>6. QED
    BY <2>1, <2>2, <2>3, <2>4, <2>5 DEF BleTyped
<1>4. ASSUME NEW b \in Batteries, StartProbe(b) PROVE BleInv'
  <2>1. Flags'
    BY <1>4 DEF StartProbe, BleTyped, Flags
  <2>2. Places'
    BY <1>4 DEF StartProbe, BleTyped, Places, RequestInv, Requesting, HostPlaces, ScannerPlaces
  <2>3. RequestInv'
    BY <1>4 DEF StartProbe, BleTyped, Flags, Places, RequestInv, Requesting, Resetting
  <2>4. ProbeInv'
    BY <1>4 DEF StartProbe, BleTyped, Flags, Places, RequestInv, ProbeInv, ScannerPlaces, Requesting, Resetting, IsSynced
  <2>5. AdvertisingInv'
    BY <1>4 DEF StartProbe, BleTyped, Flags, Places, AdvertisingInv, RequestInv, Advertise
  <2>6. QED
    BY <2>1, <2>2, <2>3, <2>4, <2>5 DEF BleTyped
<1>5. ASSUME NEW b \in Batteries, ProbeRefused(b) PROVE BleInv'
  <2>1. Flags'
    BY <1>5 DEF ProbeRefused, BleTyped, Flags
  <2>2. Places'
    BY <1>5 DEF ProbeRefused, BleTyped, Places, RequestInv, Requesting, HostPlaces, ScannerPlaces
  <2>3. RequestInv'
    BY <1>5 DEF ProbeRefused, BleTyped, Flags, Places, RequestInv, Requesting, Resetting
  <2>4. ProbeInv'
    BY <1>5 DEF ProbeRefused, BleTyped, Flags, Places, RequestInv, ProbeInv, ScannerPlaces, Requesting, Resetting, IsSynced
  <2>5. AdvertisingInv'
    BY <1>5 DEF ProbeRefused, BleTyped, Flags, Places, AdvertisingInv, RequestInv, Advertise
  <2>6. QED
    BY <2>1, <2>2, <2>3, <2>4, <2>5 DEF BleTyped
<1>6. CASE GateTimesOut
  <2>1. Flags'
    BY <1>6 DEF GateTimesOut, vars, scannerVars, BleTyped, Flags
  <2>2. Places'
    BY <1>6 DEF GateTimesOut, vars, scannerVars, BleTyped, Places, RequestInv, Requesting, HostPlaces, ScannerPlaces
  <2>3. RequestInv'
    BY <1>6 DEF GateTimesOut, vars, scannerVars, BleTyped, Flags, Places, RequestInv, Requesting, Resetting
  <2>4. ProbeInv'
    BY <1>6 DEF GateTimesOut, vars, scannerVars, BleTyped, Flags, Places, RequestInv, ProbeInv, ScannerPlaces, Requesting, Resetting, IsSynced
  <2>5. AdvertisingInv'
    BY <1>6 DEF GateTimesOut, vars, scannerVars, BleTyped, Flags, Places, AdvertisingInv, RequestInv, Advertise
  <2>6. QED
    BY <2>1, <2>2, <2>3, <2>4, <2>5 DEF BleTyped
<1>7. QED
  BY <1>1, <1>2, <1>3, <1>4, <1>5, <1>6 DEF Scan

(* ... of taking a link down ...                                           *)
LEMMA CleanupKeeps == ASSUME BleInv, Cleanup PROVE BleInv'
<1> USE BleAssumption DEF BleInv, ScannerGoes, ScannerAt, flags, gapVars, hostVars, history
<1>1. CASE EndProbe
  <2>1. Flags'
    BY <1>1 DEF EndProbe, BleTyped, Flags
  <2>2. Places'
    BY <1>1 DEF EndProbe, BleTyped, Places, RequestInv, Requesting, HostPlaces, ScannerPlaces
  <2>3. RequestInv'
    BY <1>1 DEF EndProbe, BleTyped, Flags, Places, RequestInv, Requesting, Resetting
  <2>4. ProbeInv'
    BY <1>1 DEF EndProbe, BleTyped, Flags, Places, RequestInv, ProbeInv, ScannerPlaces, Requesting, Resetting, IsSynced
  <2>5. AdvertisingInv'
    BY <1>1 DEF EndProbe, BleTyped, Flags, Places, AdvertisingInv, RequestInv, Advertise
  <2>6. QED
    BY <2>1, <2>2, <2>3, <2>4, <2>5 DEF BleTyped
<1>2. CASE CancelConnect
  <2>1. Flags'
    BY <1>2 DEF CancelConnect, BleTyped, Flags
  <2>2. Places'
    BY <1>2 DEF CancelConnect, BleTyped, Places, RequestInv, Requesting, HostPlaces, ScannerPlaces
  <2>3. RequestInv'
    BY <1>2 DEF CancelConnect, BleTyped, Flags, Places, RequestInv, Requesting, Resetting
  <2>4. ProbeInv'
    BY <1>2 DEF CancelConnect, BleTyped, Flags, Places, RequestInv, ProbeInv, ScannerPlaces, Requesting, Resetting, IsSynced
  <2>5. AdvertisingInv'
    BY <1>2 DEF CancelConnect, BleTyped, Flags, Places, AdvertisingInv, RequestInv, Advertise
  <2>6. QED
    BY <2>1, <2>2, <2>3, <2>4, <2>5 DEF BleTyped
<1>3. CASE CheckConnecting
  <2>1. Flags'
    BY <1>3 DEF CheckConnecting, Attempts, BleTyped, Flags
  <2>2. Places'
    BY <1>3 DEF CheckConnecting, Attempts, BleTyped, Places, RequestInv, Requesting, HostPlaces, ScannerPlaces
  <2>3. RequestInv'
    BY <1>3 DEF CheckConnecting, Attempts, BleTyped, Flags, Places, RequestInv, Requesting, Resetting
  <2>4. ProbeInv'
    BY <1>3 DEF CheckConnecting, Attempts, BleTyped, Flags, Places, RequestInv, ProbeInv, ScannerPlaces, Requesting, Resetting, IsSynced
  <2>5. AdvertisingInv'
    BY <1>3 DEF CheckConnecting, Attempts, BleTyped, Flags, Places, AdvertisingInv, RequestInv, Advertise
  <2>6. QED
    BY <2>1, <2>2, <2>3, <2>4, <2>5 DEF BleTyped
<1>4. CASE Disconnected
  <2>1. Flags'
    BY <1>4 DEF Disconnected, BleTyped, Flags
  <2>2. Places'
    BY <1>4 DEF Disconnected, BleTyped, Places, RequestInv, Requesting, HostPlaces, ScannerPlaces
  <2>3. RequestInv'
    BY <1>4 DEF Disconnected, BleTyped, Flags, Places, RequestInv, Requesting, Resetting
  <2>4. ProbeInv'
    BY <1>4 DEF Disconnected, BleTyped, Flags, Places, RequestInv, ProbeInv, ScannerPlaces, Requesting, Resetting, IsSynced
  <2>5. AdvertisingInv'
    BY <1>4 DEF Disconnected, BleTyped, Flags, Places, AdvertisingInv, RequestInv, Advertise
  <2>6. QED
    BY <2>1, <2>2, <2>3, <2>4, <2>5 DEF BleTyped
<1>5. CASE Terminate
  <2>1. Flags'
    BY <1>5 DEF Terminate, BleTyped, Flags
  <2>2. Places'
    BY <1>5 DEF Terminate, BleTyped, Places, RequestInv, Requesting, HostPlaces, ScannerPlaces
  <2>3. RequestInv'
    BY <1>5 DEF Terminate, BleTyped, Flags, Places, RequestInv, Requesting, Resetting
  <2>4. ProbeInv'
    BY <1>5 DEF Terminate, BleTyped, Flags, Places, RequestInv, ProbeInv, ScannerPlaces, Requesting, Resetting, IsSynced
  <2>5. AdvertisingInv'
    BY <1>5 DEF Terminate, BleTyped, Flags, Places, AdvertisingInv, RequestInv, Advertise
  <2>6. QED
    BY <2>1, <2>2, <2>3, <2>4, <2>5 DEF BleTyped
<1>6. CASE AttemptFails
  <2>1. Flags'
    BY <1>6 DEF AttemptFails, Attempts, BleTyped, Flags
  <2>2. Places'
    BY <1>6 DEF AttemptFails, Attempts, BleTyped, Places, RequestInv, Requesting, HostPlaces, ScannerPlaces
  <2>3. RequestInv'
    BY <1>6 DEF AttemptFails, Attempts, BleTyped, Flags, Places, RequestInv, Requesting, Resetting
  <2>4. ProbeInv'
    BY <1>6 DEF AttemptFails, Attempts, BleTyped, Flags, Places, RequestInv, ProbeInv, ScannerPlaces, Requesting, Resetting, IsSynced
  <2>5. AdvertisingInv'
    BY <1>6 DEF AttemptFails, Attempts, BleTyped, Flags, Places, AdvertisingInv, RequestInv, Advertise
  <2>6. QED
    BY <2>1, <2>2, <2>3, <2>4, <2>5 DEF BleTyped
<1>7. CASE DisconnectFails
  <2>1. Flags'
    BY <1>7 DEF DisconnectFails, BleTyped, Flags
  <2>2. Places'
    BY <1>7 DEF DisconnectFails, BleTyped, Places, RequestInv, Requesting, HostPlaces, ScannerPlaces
  <2>3. RequestInv'
    BY <1>7 DEF DisconnectFails, BleTyped, Flags, Places, RequestInv, Requesting, Resetting
  <2>4. ProbeInv'
    BY <1>7 DEF DisconnectFails, BleTyped, Flags, Places, RequestInv, ProbeInv, ScannerPlaces, Requesting, Resetting, IsSynced
  <2>5. AdvertisingInv'
    BY <1>7 DEF DisconnectFails, BleTyped, Flags, Places, AdvertisingInv, RequestInv, Advertise
  <2>6. QED
    BY <2>1, <2>2, <2>3, <2>4, <2>5 DEF BleTyped
<1>8. QED
  BY <1>1, <1>2, <1>3, <1>4, <1>5, <1>6, <1>7 DEF Cleanup

(* ... and of a recovery.                                                  *)
LEMMA RecoveryKeeps == ASSUME BleInv, Recovery PROVE BleInv'
<1> USE BleAssumption DEF BleInv, ScannerGoes, ScannerAt, flags, gapVars, hostVars, history
<1>1. CASE RequestReset
  <2>1. Flags'
    BY <1>1 DEF RequestReset, BleTyped, Flags
  <2>2. Places'
    BY <1>1 DEF RequestReset, BleTyped, Places, RequestInv, Requesting, HostPlaces, ScannerPlaces
  <2>3. RequestInv'
    BY <1>1 DEF RequestReset, BleTyped, Flags, Places, RequestInv, Requesting, Resetting
  <2>4. ProbeInv'
    BY <1>1 DEF RequestReset, BleTyped, Flags, Places, RequestInv, ProbeInv, ScannerPlaces, Requesting, Resetting, IsSynced
  <2>5. AdvertisingInv'
    BY <1>1 DEF RequestReset, BleTyped, Flags, Places, AdvertisingInv, RequestInv, Advertise
  <2>6. QED
    BY <2>1, <2>2, <2>3, <2>4, <2>5 DEF BleTyped
<1>2. CASE ClearBits
  <2>1. Flags'
    BY <1>2 DEF ClearBits, BleTyped, Flags
  <2>2. Places'
    BY <1>2 DEF ClearBits, BleTyped, Places, RequestInv, Requesting, HostPlaces, ScannerPlaces
  <2>3. RequestInv'
    BY <1>2 DEF ClearBits, BleTyped, Flags, Places, RequestInv, Requesting, Resetting
  <2>4. ProbeInv'
    BY <1>2 DEF ClearBits, BleTyped, Flags, Places, RequestInv, ProbeInv, ScannerPlaces, Requesting, Resetting, IsSynced
  <2>5. AdvertisingInv'
    BY <1>2 DEF ClearBits, BleTyped, Flags, Places, AdvertisingInv, RequestInv, Advertise
  <2>6. QED
    BY <2>1, <2>2, <2>3, <2>4, <2>5 DEF BleTyped
<1>3. CASE PostRequest
  <2>1. Flags'
    BY <1>3 DEF PostRequest, BleTyped, Flags
  <2>2. Places'
    BY <1>3 DEF PostRequest, BleTyped, Places, RequestInv, Requesting, HostPlaces, ScannerPlaces
  <2>3. RequestInv'
    BY <1>3 DEF PostRequest, BleTyped, Flags, Places, RequestInv, Requesting, Resetting
  <2>4. ProbeInv'
    BY <1>3 DEF PostRequest, BleTyped, Flags, Places, RequestInv, ProbeInv, ScannerPlaces, Requesting, Resetting, IsSynced
  <2>5. AdvertisingInv'
    BY <1>3 DEF PostRequest, BleTyped, Flags, Places, AdvertisingInv, RequestInv, Advertise
  <2>6. QED
    BY <2>1, <2>2, <2>3, <2>4, <2>5 DEF BleTyped
<1>4. CASE SeeDoneBit
  <2>1. Flags'
    BY <1>4 DEF SeeDoneBit, BleTyped, Flags
  <2>2. Places'
    BY <1>4 DEF SeeDoneBit, BleTyped, Places, RequestInv, Requesting, HostPlaces, ScannerPlaces
  <2>3. RequestInv'
    BY <1>4 DEF SeeDoneBit, BleTyped, Flags, Places, RequestInv, Requesting, Resetting
  <2>4. ProbeInv'
    BY <1>4 DEF SeeDoneBit, BleTyped, Flags, Places, RequestInv, ProbeInv, ScannerPlaces, Requesting, Resetting, IsSynced
  <2>5. AdvertisingInv'
    BY <1>4 DEF SeeDoneBit, BleTyped, Flags, Places, AdvertisingInv, RequestInv, Advertise
  <2>6. QED
    BY <2>1, <2>2, <2>3, <2>4, <2>5 DEF BleTyped
<1>5. CASE ResetDone
  <2>1. Flags'
    BY <1>5 DEF ResetDone, BleTyped, Flags
  <2>2. Places'
    BY <1>5 DEF ResetDone, BleTyped, Places, RequestInv, Requesting, HostPlaces, ScannerPlaces
  <2>3. RequestInv'
    BY <1>5 DEF ResetDone, BleTyped, Flags, Places, RequestInv, Requesting, Resetting
  <2>4. ProbeInv'
    BY <1>5 DEF ResetDone, BleTyped, Flags, Places, RequestInv, ProbeInv, ScannerPlaces, Requesting, Resetting, IsSynced
  <2>5. AdvertisingInv'
    BY <1>5 DEF ResetDone, BleTyped, Flags, Places, AdvertisingInv, RequestInv, Advertise
  <2>6. QED
    BY <2>1, <2>2, <2>3, <2>4, <2>5 DEF BleTyped
<1>6. CASE ResetTimeout
  <2>1. Flags'
    BY <1>6 DEF ResetTimeout, BleTyped, Flags
  <2>2. Places'
    BY <1>6 DEF ResetTimeout, BleTyped, Places, RequestInv, Requesting, HostPlaces, ScannerPlaces
  <2>3. RequestInv'
    BY <1>6 DEF ResetTimeout, BleTyped, Flags, Places, RequestInv, Requesting, Resetting
  <2>4. ProbeInv'
    BY <1>6 DEF ResetTimeout, BleTyped, Flags, Places, RequestInv, ProbeInv, ScannerPlaces, Requesting, Resetting, IsSynced
  <2>5. AdvertisingInv'
    BY <1>6 DEF ResetTimeout, BleTyped, Flags, Places, AdvertisingInv, RequestInv, Advertise
  <2>6. QED
    BY <2>1, <2>2, <2>3, <2>4, <2>5 DEF BleTyped
<1>7. QED
  BY <1>1, <1>2, <1>3, <1>4, <1>5, <1>6 DEF Recovery

(* The invariant holds in every behavior.                                  *)
THEOREM BleInvariant == Spec => []BleInv
<1>1. Init => BleInv
  <2> SUFFICES ASSUME Init PROVE BleInv
    OBVIOUS
  <2> USE BleAssumption DEF Init
  <2>1. Flags
    BY DEF Flags
  <2>2. Places
    BY DEF Places, HostPlaces, ScannerPlaces, Attempts
  <2>3. RequestInv /\ ProbeInv /\ AdvertisingInv
    BY DEF RequestInv, ProbeInv, AdvertisingInv, Requesting, Resetting
  <2>4. QED
    BY <2>1, <2>2, <2>3 DEF BleInv, BleTyped
<1>2. BleInv /\ [Next]_vars => BleInv'
  <2> SUFFICES ASSUME BleInv, [Next]_vars PROVE BleInv'
    OBVIOUS
  <2>1. CASE UNCHANGED vars
    BY <2>1 DEF BleInv, BleTyped, Flags, Places, RequestInv, ProbeInv, AdvertisingInv, vars, flags, hostVars, gapVars, scannerVars, history
  <2>2. QED
    BY <2>1, HostKeeps, AirKeeps, ScanKeeps, CleanupKeeps, RecoveryKeeps DEF Next, ScannerTask
<1>3. QED
  BY <1>1, <1>2, PTL DEF Spec

(* The event that asks for a reset is never queued twice, however often    *)
(* the scanner asks (ble_manager_reset), and every variable has its type.  *)
THEOREM BleTypeCorrect == Spec => []TypeOK
<1>1. BleInv => TypeOK
  BY DEF BleInv, BleTyped, Flags, Places, TypeOK
<1>2. QED
  BY <1>1, BleInvariant, PTL

(* Whenever the manager says that the host is usable, the device can be    *)
(* found or has a client (ble_on_sync, ble_gap_event).                     *)
THEOREM AlwaysDiscoverable == Spec => []Discoverable
<1>1. BleInv => Discoverable
  BY DEF BleInv, BleTyped, Flags, Places, AdvertisingInv, Discoverable, IsSynced
<1>2. QED
  BY <1>1, BleInvariant, PTL

(* No battery is connected to while there is another link or attempt       *)
(* (probe_battery, run_scan).                                              *)
THEOREM OneAtATime == Spec => OneBatteryAtATime
<1>1. BleInv /\ [Next]_vars =>
        [\A b \in Batteries : connecting' = b /\ connecting # b => links = {} /\ connecting = NoBattery]_vars
  <2> SUFFICES ASSUME BleInv, [Next]_vars, NEW b \in Batteries, connecting' = b, connecting # b
               PROVE  links = {} /\ connecting = NoBattery
    OBVIOUS
  <2> USE DEF flags, hostVars, gapVars, scannerVars, history
  <2>1. ~HostTask /\ ~Air /\ ~Cleanup /\ ~Recovery /\ ~UNCHANGED vars
    <3>1. ~HostTask
      BY BleAssumption DEF HostTask, OnSync, ResetRequested, ScheduleReset, HostReset, OnReset, ResetClearsBit, HostSync,
                           GetAddress, AddressFails, Recover, SetSynced, AdvertiseAgain, SignalSync
    <3>2. ~Air
      BY BleAssumption DEF Air, Connects, LinkDrops, ClientConnects, ClientLeaves
    <3>3. ~Cleanup
      BY DEF Cleanup, EndProbe, CancelConnect, CheckConnecting, Disconnected, Terminate, AttemptFails, DisconnectFails
    <3>4. ~Recovery
      BY DEF Recovery, RequestReset, ClearBits, PostRequest, SeeDoneBit, ResetDone, ResetTimeout
    <3>5. QED
      BY <3>1, <3>2, <3>3, <3>4 DEF vars
  <2>2. \E c \in Batteries : StartProbe(c)
    BY <2>1 DEF Next, ScannerTask, Scan, SeeSyncedBit, PassGate, GateTimesOut, EndScan, ProbeRefused, vars
  <2>3. QED
    BY <2>2 DEF StartProbe, ScannerGoes, BleInv, ProbeInv
<1>2. QED
  BY <1>1, BleInvariant, PTL DEF Spec, OneBatteryAtATime

(* A recovery that is reported complete contains a reset of the host made  *)
(* after it was asked for (ble_manager_reset, ble_on_sync).                *)
THEOREM RecoveriesAreReal == Spec => RecoveryIsReal
<1>1. BleInv /\ [Next]_vars => [scanner = "verify" /\ scanner' = "scan" => resetSince]_vars
  <2> SUFFICES ASSUME BleInv, [Next]_vars, scanner = "verify", scanner' = "scan" PROVE resetSince
    OBVIOUS
  <2> USE DEF flags, hostVars, gapVars, scannerVars, history, ScannerGoes, ScannerAt
  <2>1. ~HostTask /\ ~Air /\ ~UNCHANGED vars
    <3>1. ~HostTask
      BY DEF HostTask, OnSync, ResetRequested, ScheduleReset, HostReset, OnReset, ResetClearsBit, HostSync,
             GetAddress, AddressFails, Recover, SetSynced, AdvertiseAgain, SignalSync
    <3>2. ~Air
      BY DEF Air, Connects, LinkDrops, ClientConnects, ClientLeaves
    <3>3. QED
      BY <3>1, <3>2 DEF vars
  <2>2. ~Scan /\ ~Cleanup
    BY DEF Scan, SeeSyncedBit, PassGate, GateTimesOut, EndScan, StartProbe, ProbeRefused, vars,
           Cleanup, EndProbe, CancelConnect, CheckConnecting, Disconnected, Terminate, AttemptFails, DisconnectFails
  <2>3. ResetDone
    BY <2>1, <2>2 DEF Next, ScannerTask, Recovery, RequestReset, ClearBits, PostRequest, SeeDoneBit, ResetTimeout
  <2>4. QED
    BY <2>3 DEF ResetDone, IsSynced, BleInv, RequestInv, Resetting
<1>2. QED
  BY <1>1, BleInvariant, PTL DEF Spec, RecoveryIsReal
=============================================================================
