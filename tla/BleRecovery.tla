----------------------------- MODULE BleRecovery -----------------------------
(***************************************************************************)
(* Losing and regaining batteries over Bluetooth: the scanner task of      *)
(* src/main/battery_scanner.cpp, which probes one battery after another,   *)
(* src/main/ble_disconnect.cpp, which takes a link down, and               *)
(* src/main/ble_manager.cpp, which resets the Bluetooth host when that     *)
(* fails.                                                                  *)
(*                                                                         *)
(* Two tasks: the scanner, and the NimBLE host, which runs the callbacks   *)
(* of the manager.  They share two flags, an event group and the queue of  *)
(* the host.  NimBLE's connection table, its reset and its sync are        *)
(* modelled from how the code uses them.  A wait may time out at any time. *)
(***************************************************************************)
EXTENDS Integers, FiniteSets

CONSTANTS
  Batteries,       \* the peers the scanner finds
  NoBattery,
  MaxSpontaneous,  \* bound: resets of the host nobody asked for
  AddressCanFail   \* may the host come up without a usable address?

ASSUME BleAssumption ==
  /\ NoBattery \notin Batteries
  /\ MaxSpontaneous \in Nat
  /\ AddressCanFail \in BOOLEAN

Attempts == 3      \* kDisconnectAttempts

VARIABLES
  (* ble_manager.cpp *)
  synced,      \* g_ble_synced
  pending,     \* g_reset_pending
  started,     \* g_reset_started, of the host task
  observed,    \* g_reset_observed, of the host task
  bits,        \* g_ble_events
  queued,      \* how often g_reset_event is in the queue of the host
  (* the host *)
  host,        \* where the host task is
  recovered,   \* local of ble_on_sync
  up,          \* ble_hs_synced()
  resetDue,    \* ble_hs_sched_reset was called
  links,       \* batteries in the connection table
  connecting,  \* the battery being connected to: ble_gap_conn_active()
  advertising,
  client,      \* is a client of the relay service connected?
  (* battery_scanner.cpp *)
  scanner,     \* where the scanner task is
  probe,       \* g_probe.addr
  cleanup,     \* g_probe_cleanup_pending
  attempt,     \* local of ble_disconnect_peer
  (* history and bounds *)
  resetSince,  \* was the host reset since recovery was last requested?
  addressFailed,
  spontaneous

flags == <<synced, pending, started, observed>>
hostVars == <<host, recovered, up, resetDue>>
gapVars == <<links, connecting, advertising, client>>
scannerVars == <<scanner, probe, cleanup, attempt>>
history == <<resetSince, addressFailed, spontaneous>>
vars == <<flags, bits, queued, hostVars, gapVars, scannerVars, history>>

IsSynced == synced /\ ~pending

-----------------------------------------------------------------------------
(* The host task: one callback at a time, in the order of its statements.  *)

HostAt(from) == host = from

HostGoes(from, to) == host = from /\ host' = to

(* ble_advertise                                                           *)
Advertise == advertising' = IF up /\ ~pending THEN TRUE ELSE advertising

(* ble_reset_requested                                                     *)
ResetRequested ==
  /\ HostGoes("idle", "requested") /\ queued > 0
  /\ queued' = queued - 1
  /\ started' = TRUE
  /\ observed' = FALSE
  /\ synced' = FALSE
  /\ UNCHANGED <<pending, bits, recovered, up, resetDue, gapVars, scannerVars, history>>

ScheduleReset ==
  /\ HostGoes("requested", "idle")
  /\ bits' = bits \ {"synced"}
  /\ resetDue' = TRUE
  /\ UNCHANGED <<flags, queued, recovered, up, gapVars, scannerVars, history>>

(* NimBLE resets the host, as scheduled or because the controller failed.  *)
(* It drops every link; the disconnect callback of a client does not       *)
(* advertise, as the host is not in sync any more.                         *)
HostReset ==
  /\ HostGoes("idle", "down")
  /\ resetDue \/ spontaneous < MaxSpontaneous
  /\ spontaneous' = IF resetDue THEN spontaneous ELSE spontaneous + 1
  /\ resetDue' = FALSE
  /\ up' = FALSE
  /\ links' = {} /\ connecting' = NoBattery
  /\ advertising' = FALSE /\ client' = FALSE
  /\ resetSince' = TRUE
  /\ UNCHANGED <<flags, bits, queued, recovered, scannerVars, addressFailed>>

(* ble_on_reset                                                            *)
OnReset ==
  /\ HostGoes("down", "reset")
  /\ synced' = FALSE
  /\ observed' = (observed \/ started)
  /\ UNCHANGED <<pending, started, bits, queued, recovered, up, resetDue, gapVars, scannerVars, history>>

ResetClearsBit ==
  /\ HostGoes("reset", "idle")
  /\ bits' = bits \ {"synced"}
  /\ UNCHANGED <<flags, queued, recovered, up, resetDue, gapVars, scannerVars, history>>

(* Mutant: any sync completes a recovery.                                  *)
HostSyncAcceptsOld ==
  /\ HostGoes("idle", "address")
  /\ ~up /\ up' = TRUE
  /\ observed' = (observed \/ pending)
  /\ UNCHANGED <<synced, pending, started, bits, queued, recovered, resetDue, gapVars, scannerVars, history>>

(* ble_on_sync, when the host is in sync with the controller.              *)
HostSync ==
  /\ HostAt("idle") /\ ~up /\ up' = TRUE
  /\ host' = IF pending /\ ~observed THEN "idle" ELSE "address"
  /\ UNCHANGED <<flags, bits, queued, recovered, resetDue, gapVars, scannerVars, history>>

GetAddress ==
  /\ HostGoes("address", "address_known")
  /\ UNCHANGED <<flags, bits, queued, recovered, up, resetDue, gapVars, scannerVars, history>>

AddressFails ==
  /\ AddressCanFail
  /\ HostGoes("address", "idle")
  /\ addressFailed' = TRUE
  /\ UNCHANGED <<flags, bits, queued, recovered, up, resetDue, gapVars, scannerVars, resetSince, spontaneous>>

(* Mutant: the request stays pending.                                      *)
RecoverForgetsPending ==
  /\ HostGoes("address_known", "recovered")
  /\ recovered' = observed
  /\ started' = FALSE /\ observed' = FALSE
  /\ UNCHANGED <<synced, pending, bits, queued, up, resetDue, gapVars, scannerVars, history>>

Recover ==
  /\ HostGoes("address_known", "recovered")
  /\ recovered' = observed
  /\ started' = FALSE /\ observed' = FALSE
  /\ pending' = IF observed THEN FALSE ELSE pending
  /\ UNCHANGED <<synced, bits, queued, up, resetDue, gapVars, scannerVars, history>>

SetSynced ==
  /\ HostGoes("recovered", "synced")
  /\ synced' = TRUE
  /\ UNCHANGED <<pending, started, observed, bits, queued, recovered, up, resetDue, gapVars, scannerVars, history>>

(* Mutant: after a recovery, advertising is left to the disconnect callback.*)
AdvertiseOnlyAtFirst ==
  /\ HostGoes("synced", "advertised")
  /\ IF recovered THEN UNCHANGED advertising ELSE Advertise
  /\ UNCHANGED <<flags, bits, queued, recovered, up, resetDue, links, connecting, client, scannerVars, history>>

AdvertiseAgain ==
  /\ HostGoes("synced", "advertised")
  /\ Advertise
  /\ UNCHANGED <<flags, bits, queued, recovered, up, resetDue, links, connecting, client, scannerVars, history>>

SignalSync ==
  /\ HostGoes("advertised", "idle")
  /\ bits' = bits \cup {"synced"} \cup IF recovered THEN {"done"} ELSE {}
  /\ UNCHANGED <<flags, queued, recovered, up, resetDue, gapVars, scannerVars, history>>

OnSync ==
  \/ HostSync
  \/ GetAddress
  \/ AddressFails
  \/ Recover
  \/ SetSynced
  \/ AdvertiseAgain
  \/ SignalSync

HostTask ==
  \/ ResetRequested
  \/ ScheduleReset
  \/ HostReset
  \/ OnReset
  \/ ResetClearsBit
  \/ OnSync

-----------------------------------------------------------------------------
(* What happens on the air.  Nothing of it is certain.                     *)

(* The connection to a battery is made, given up, or lost.                 *)
Connects ==
  /\ HostAt("idle") /\ connecting # NoBattery
  /\ links' \in {links, links \cup {connecting}}
  /\ connecting' = NoBattery
  /\ UNCHANGED <<flags, bits, queued, hostVars, advertising, client, scannerVars, history>>

LinkDrops ==
  /\ HostAt("idle")
  /\ \E b \in links : links' = links \ {b}
  /\ UNCHANGED <<flags, bits, queued, hostVars, connecting, advertising, client, scannerVars, history>>

(* ble_gap_event: a client stops the advertising, and it starts again when *)
(* the client leaves.                                                      *)
ClientConnects ==
  /\ HostAt("idle") /\ advertising
  /\ advertising' = FALSE /\ client' = TRUE
  /\ UNCHANGED <<flags, bits, queued, hostVars, links, connecting, scannerVars, history>>

ClientLeaves ==
  /\ HostAt("idle") /\ client
  /\ client' = FALSE
  /\ Advertise
  /\ UNCHANGED <<flags, bits, queued, hostVars, links, connecting, scannerVars, history>>

Air ==
  \/ Connects
  \/ LinkDrops
  \/ ClientConnects
  \/ ClientLeaves

-----------------------------------------------------------------------------
(* The scanner task.                                                       *)

ScannerAt(pc) == scanner = pc

ScannerGoes(from, to) == scanner = from /\ scanner' = to

(* ble_manager_wait_until_synced: the bit, then the flags.                 *)
SeeSyncedBit ==
  /\ ScannerGoes("gate", "bit_seen") /\ "synced" \in bits
  /\ UNCHANGED <<flags, bits, queued, hostVars, gapVars, probe, cleanup, attempt, history>>

(* run_scan finishes an earlier cleanup first.                             *)
PassGate ==
  /\ ScannerAt("bit_seen")
  /\ scanner' = IF ~IsSynced THEN "gate" ELSE IF cleanup THEN "cancel" ELSE "scan"
  /\ UNCHANGED <<flags, bits, queued, hostVars, gapVars, probe, cleanup, attempt, history>>

(* The host did not come into sync in time; the scanner waits again.       *)
GateTimesOut ==
  /\ ScannerAt("gate")
  /\ UNCHANGED vars

EndScan ==
  /\ ScannerGoes("scan", "gate")
  /\ UNCHANGED <<flags, bits, queued, hostVars, gapVars, probe, cleanup, attempt, history>>

(* probe_battery: ble_gap_connect is accepted...                           *)
StartProbe(b) ==
  /\ ScannerGoes("scan", "probe")
  /\ up /\ connecting = NoBattery /\ b \notin links
  /\ probe' = b
  /\ connecting' = b
  /\ cleanup' = TRUE
  /\ UNCHANGED <<flags, bits, queued, hostVars, links, advertising, client, attempt, history>>

(* ... or not.                                                             *)
ProbeRefused(b) ==
  /\ ScannerAt("scan")
  /\ probe' = b
  /\ UNCHANGED <<flags, bits, queued, hostVars, gapVars, scanner, cleanup, attempt, history>>

(* The probe succeeds or fails; either way the link is to be taken down.   *)
EndProbe ==
  /\ ScannerGoes("probe", "cancel")
  /\ UNCHANGED <<flags, bits, queued, hostVars, gapVars, probe, cleanup, attempt, history>>

(* cancel_pending_probe_connect: whether the cancellation is refused, or   *)
(* its outcome waited for, the attempt may be over or not.                 *)
CancelConnect ==
  /\ ScannerGoes("cancel", "check")
  /\ UNCHANGED <<flags, bits, queued, hostVars, gapVars, probe, cleanup, attempt, history>>

(* Mutant: only established links count.                                   *)
CheckConnectingIgnored ==
  /\ ScannerAt("check")
  /\ scanner' = "disconnect" /\ attempt' = 1
  /\ UNCHANGED <<flags, bits, queued, hostVars, gapVars, probe, cleanup, history>>

(* disconnect_probe: an attempt still active calls for a reset.            *)
CheckConnecting ==
  /\ ScannerAt("check")
  /\ IF connecting # NoBattery
       THEN scanner' = "reset" /\ UNCHANGED attempt
       ELSE scanner' = "disconnect" /\ attempt' = 1
  /\ UNCHANGED <<flags, bits, queued, hostVars, gapVars, probe, cleanup, history>>

(* ble_disconnect_peer: the link is gone...                                *)
Disconnected ==
  /\ scanner \in {"disconnect", "poll", "last_check"}
  /\ probe \notin links
  /\ scanner' = "scan" /\ cleanup' = FALSE
  /\ UNCHANGED <<flags, bits, queued, hostVars, gapVars, probe, attempt, history>>

(* ... or its termination is accepted, or already under way, and polled... *)
Terminate ==
  /\ ScannerGoes("disconnect", "poll") /\ probe \in links
  /\ UNCHANGED <<flags, bits, queued, hostVars, gapVars, probe, cleanup, attempt, history>>

(* ... until that is given up, or the termination is refused, or the table *)
(* cannot be read.                                                         *)
AttemptFails ==
  /\ \/ scanner = "disconnect" /\ (probe \in links \/ ~up)
     \/ scanner = "poll"
  /\ IF attempt < Attempts
       THEN scanner' = "disconnect" /\ attempt' = attempt + 1
       ELSE scanner' = "last_check" /\ UNCHANGED attempt
  /\ UNCHANGED <<flags, bits, queued, hostVars, gapVars, probe, cleanup, history>>

DisconnectFails ==
  /\ ScannerGoes("last_check", "reset") /\ (probe \in links \/ ~up)
  /\ UNCHANGED <<flags, bits, queued, hostVars, gapVars, probe, cleanup, attempt, history>>

(* ble_manager_reset                                                       *)
(* Mutant: the request is not marked.                                      *)
RequestUnmarked ==
  /\ ScannerGoes("reset", "clear")
  /\ resetSince' = FALSE
  /\ UNCHANGED <<flags, bits, queued, hostVars, gapVars, probe, cleanup, attempt, addressFailed, spontaneous>>

RequestReset ==
  /\ ScannerAt("reset")
  /\ scanner' = IF pending THEN "await" ELSE "clear"
  /\ pending' = TRUE
  /\ resetSince' = IF pending THEN resetSince ELSE FALSE
  /\ UNCHANGED <<synced, started, observed, bits, queued, hostVars, gapVars, probe, cleanup, attempt, addressFailed, spontaneous>>

ClearBits ==
  /\ ScannerGoes("clear", "post")
  /\ bits' = {}
  /\ UNCHANGED <<flags, queued, hostVars, gapVars, probe, cleanup, attempt, history>>

PostRequest ==
  /\ ScannerGoes("post", "await")
  /\ queued' = queued + 1
  /\ UNCHANGED <<flags, bits, hostVars, gapVars, probe, cleanup, attempt, history>>

SeeDoneBit ==
  /\ ScannerGoes("await", "verify") /\ "done" \in bits
  /\ UNCHANGED <<flags, bits, queued, hostVars, gapVars, probe, cleanup, attempt, history>>

(* Recovery is complete: g_probe may be used again...                      *)
ResetDone ==
  /\ ScannerGoes("verify", "scan") /\ IsSynced
  /\ cleanup' = FALSE
  /\ UNCHANGED <<flags, bits, queued, hostVars, gapVars, probe, attempt, history>>

(* ... or ESP_ERR_TIMEOUT: the scan ends, and cleanup remains to be done.  *)
ResetTimeout ==
  /\ \/ ScannerGoes("await", "gate")
     \/ ScannerGoes("verify", "gate") /\ ~IsSynced
  /\ UNCHANGED <<flags, bits, queued, hostVars, gapVars, probe, cleanup, attempt, history>>

Recovery ==
  \/ RequestReset
  \/ ClearBits
  \/ PostRequest
  \/ SeeDoneBit
  \/ ResetDone
  \/ ResetTimeout

Cleanup ==
  \/ EndProbe
  \/ CancelConnect
  \/ CheckConnecting
  \/ Disconnected
  \/ Terminate
  \/ AttemptFails
  \/ DisconnectFails

Scan ==
  \/ SeeSyncedBit
  \/ PassGate
  \/ GateTimesOut
  \/ EndScan
  \/ \E b \in Batteries : StartProbe(b) \/ ProbeRefused(b)

ScannerTask == Scan \/ Cleanup \/ Recovery

-----------------------------------------------------------------------------
Init ==
  /\ synced = FALSE /\ pending = FALSE /\ started = FALSE /\ observed = FALSE
  /\ bits = {} /\ queued = 0
  /\ host = "idle" /\ recovered = FALSE /\ up = FALSE /\ resetDue = FALSE
  /\ links = {} /\ connecting = NoBattery
  /\ advertising = FALSE /\ client = FALSE
  /\ scanner = "gate" /\ probe = NoBattery /\ cleanup = FALSE /\ attempt = 1
  /\ resetSince = FALSE /\ addressFailed = FALSE /\ spontaneous = 0

Next == HostTask \/ Air \/ ScannerTask

Spec == Init /\ [][Next]_vars

(* Both tasks run, and NimBLE works on a scheduled reset, and on coming    *)
(* into sync, until it is done.  Nothing on the air is sure to happen, and *)
(* nothing says that a scan ever finds a battery.                          *)
Fairness ==
  /\ WF_vars(ResetRequested \/ ScheduleReset \/ (resetDue /\ HostReset) \/ OnReset
             \/ ResetClearsBit \/ OnSync)
  /\ WF_vars(SeeSyncedBit) /\ WF_vars(PassGate)
  /\ WF_vars(Cleanup)
  /\ WF_vars(Recovery)

FairSpec == Spec /\ Fairness
=============================================================================
