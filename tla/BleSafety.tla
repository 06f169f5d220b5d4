------------------------------ MODULE BleSafety ------------------------------
(* What the recovery of Bluetooth links must and must not do.              *)
EXTENDS BleRecovery

HostPlaces == {"idle", "requested", "down", "reset", "address", "address_known", "recovered",
               "synced", "advertised"}
ScannerPlaces == {"gate", "bit_seen", "scan", "probe", "cancel", "check", "disconnect", "poll",
                  "last_check", "reset", "clear", "post", "await", "verify"}

(* The single event of ble_manager.cpp:33 is never queued while it is      *)
(* already in the queue: the scanner "does not keep queuing resets"        *)
(* (README.md:516-517).                                                    *)
TypeOK ==
  /\ {synced, pending, started, observed, recovered, up, resetDue, advertising, client, cleanup,
      resetSince, addressFailed} \subseteq BOOLEAN
  /\ bits \subseteq {"synced", "done"}
  /\ queued \in 0..1
  /\ host \in HostPlaces /\ scanner \in ScannerPlaces
  /\ links \subseteq Batteries
  /\ {connecting, probe} \subseteq Batteries \cup {NoBattery}
  /\ attempt \in 1..Attempts
  /\ spontaneous \in 0..MaxSpontaneous

(* The scanner connects to a battery only when no other battery is         *)
(* connected or being connected to, whatever became of earlier probes      *)
(* (battery_scanner.cpp:817-835 and 1216-1222).                            *)
OneBatteryAtATime ==
  [][\A b \in Batteries : connecting' = b /\ connecting # b =>
        links = {} /\ connecting = NoBattery]_vars

(* ble_manager_reset answers ESP_OK only when the host was reset since the *)
(* request: neither a completion bit of an earlier recovery nor a sync     *)
(* from before the reset will do (ble_manager.cpp:141-144 and 273-287).    *)
RecoveryIsReal ==
  [][scanner = "verify" /\ scanner' = "scan" => resetSince]_vars

(* Whenever the manager says that the host is usable, a client is          *)
(* connected or can find the device (ble_manager.cpp:74-80, 165-166).      *)
Discoverable == host = "idle" /\ IsSynced => advertising \/ client

(* Cleanup comes to an end, by disconnecting or by a reset, unless the     *)
(* host comes up without an address (README.md:511-518).                   *)
CleanupEnds == cleanup ~> (~cleanup \/ addressFailed)
=============================================================================
