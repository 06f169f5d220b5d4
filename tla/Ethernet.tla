------------------------------ MODULE Ethernet ------------------------------
(***************************************************************************)
(* The Ethernet settings of src/main/ethernet_manager.cpp: they are loaded *)
(* at boot, changed by the serial console through reconfigure, which puts  *)
(* the old ones back when something fails, and saved key by key.  Handlers *)
(* of driver events keep the link state that is shown; an event whose      *)
(* handler cannot get the mutex for 100 ms is lost.                        *)
(*                                                                         *)
(* An address stands for one of the subnet named by SubnetOf; the netmask  *)
(* and the name servers, which are saved and applied with the gateway, are *)
(* left out.  The driver, the network interface and the event loop are     *)
(* ESP-IDF's, modelled from how they are used.                             *)
(***************************************************************************)
EXTENDS Integers, Sequences, SequencesExt

CONSTANTS
  Addresses, Zero,
  SubnetOf,        \* [Addresses -> subnets]
  PhyModes, AutoMode,
  MaxEvents        \* bound: events that wait for their handler when another is posted or a call begins

Keys == <<"mode", "phy", "ip", "gateway">>     \* in the order they are saved
Absent == "absent"

ASSUME EthernetAssumption ==
  /\ AutoMode \in PhyModes
  /\ Zero \notin Addresses
  /\ Absent \notin Addresses \cup PhyModes \cup {Zero}
  /\ MaxEvents \in Nat

Default == [mode |-> "dhcp", phy |-> AutoMode, ip |-> Zero, gateway |-> Zero]

VARIABLES
  flash,           \* NVS: what each key holds
  settings,        \* g_settings
  initialized,     \* g_status.initialized
  call,            \* where reconfigure is; it holds g_mutex unless "idle"
  requested,       \* its argument
  saved,           \* keys it has written
  (* driver and interface *)
  applied,         \* the settings they have
  started,         \* g_driver_started
  link,            \* is there a link?
  events,          \* posted, not yet handled
  (* what is shown *)
  linkUp, hasIp,   \* g_status
  (* history *)
  unrestored,      \* a step of restoring failed
  torn,            \* a save was not completed
  dropped          \* an event was lost since the last link event handled

configVars == <<settings, initialized, requested>>
driverVars == <<applied, started>>
linkVars == <<link, events, linkUp, hasIp, dropped>>
ethernetVars == <<flash, configVars, call, saved, driverVars, linkVars, unrestored, torn>>

-----------------------------------------------------------------------------
(* validate_settings                                                       *)
SettingsValid(s) ==
  \/ s.mode = "dhcp"
  \/ /\ s.mode = "static" /\ s.ip \in Addresses
     /\ s.gateway = Zero \/ (s.gateway \in Addresses /\ SubnetOf[s.gateway] = SubnetOf[s.ip])

(* load_settings.  A static configuration needs every key; whatever cannot *)
(* be used is replaced by the defaults, PHY mode and all.                  *)
Load(f) ==
  LET needed == IF f["mode"] = "static" THEN {"phy", "ip", "gateway"} ELSE {"phy"}
      read == [mode |-> f["mode"], phy |-> f["phy"],
               ip |-> IF f["mode"] = "static" THEN f["ip"] ELSE Zero,
               gateway |-> IF f["mode"] = "static" THEN f["gateway"] ELSE Zero]
  IN IF f["mode"] = Absent \/ (\E k \in needed : f[k] = Absent) \/ ~SettingsValid(read)
       THEN Default
       ELSE read

-----------------------------------------------------------------------------
(* reconfigure.                                                            *)

Proceeds(from, to) == call = from /\ call' = to

(* ethernet_manager_set_dhcp, _set_static and _set_phy.                    *)
Requests ==
  {[Default EXCEPT !.phy = settings.phy]} \cup
  {[mode |-> "static", phy |-> settings.phy, ip |-> a, gateway |-> g] :
      a \in Addresses, g \in Addresses \cup {Zero}} \cup
  {[settings EXCEPT !.phy = m] : m \in PhyModes}

Reconfigure ==
  /\ Proceeds("idle", "stop") /\ initialized /\ Len(events) < MaxEvents
  /\ requested' \in {r \in Requests : SettingsValid(r)}
  /\ UNCHANGED <<flash, settings, initialized, saved, driverVars, linkVars, unrestored, torn>>

(* Stopping the driver takes the link down and posts an event.             *)
DriverStops ==
  /\ started' = FALSE
  /\ link' = FALSE
  /\ events' = IF started THEN Append(events, "stop") ELSE events
  /\ UNCHANGED <<applied, linkUp, hasIp, dropped>>

StopDriver ==
  /\ Proceeds("stop", "address")
  /\ DriverStops
  /\ UNCHANGED <<flash, configVars, saved, unrestored, torn>>

ApplyAddress ==
  /\ Proceeds("address", "phy")
  /\ applied' = [requested EXCEPT !.phy = applied.phy]
  /\ UNCHANGED <<flash, configVars, saved, started, linkVars, unrestored, torn>>

ApplyPhy ==
  /\ Proceeds("phy", "start")
  /\ applied' = [applied EXCEPT !.phy = requested.phy]
  /\ UNCHANGED <<flash, configVars, saved, started, linkVars, unrestored, torn>>

StartDriver ==
  /\ Proceeds("start", "save")
  /\ started' = TRUE
  /\ UNCHANGED <<flash, configVars, saved, applied, linkVars, unrestored, torn>>

(* Mutant: an address that is not set is not written.                      *)
SaveKeyIfSet ==
  /\ call = "save" /\ saved < Len(Keys)
  /\ LET k == Keys[saved + 1]
     IN flash' = IF requested[k] = Zero THEN flash ELSE [flash EXCEPT ![k] = requested[k]]
  /\ saved' = saved + 1 /\ torn' = TRUE
  /\ UNCHANGED <<configVars, call, driverVars, linkVars, unrestored>>

(* save_settings                                                           *)
SaveKey ==
  /\ call = "save" /\ saved < Len(Keys)
  /\ LET k == Keys[saved + 1] IN flash' = [flash EXCEPT ![k] = requested[k]]
  /\ saved' = saved + 1 /\ torn' = TRUE
  /\ UNCHANGED <<configVars, call, driverVars, linkVars, unrestored>>

Accept ==
  /\ Proceeds("save", "idle") /\ saved = Len(Keys)
  /\ settings' = requested
  /\ saved' = 0 /\ torn' = FALSE /\ unrestored' = FALSE
  /\ UNCHANGED <<flash, initialized, requested, driverVars, linkVars>>

(* Any step may fail; an address may have been set although the call that  *)
(* sets it fails.                                                          *)
StepFails ==
  /\ call \in {"stop", "address", "phy", "start", "save"} /\ call' = "restore_stop"
  /\ applied' \in {applied} \cup IF call = "address" THEN {[requested EXCEPT !.phy = applied.phy]} ELSE {}
  /\ unrestored' = FALSE
  /\ UNCHANGED <<flash, configVars, saved, started, linkVars, torn>>

(* The previous settings are put back as far as that succeeds: the result  *)
(* of no step is looked at, except that addresses come before PHY mode.    *)
RestoreStop ==
  /\ Proceeds("restore_stop", "restore_address")
  /\ \/ DriverStops /\ UNCHANGED unrestored
     \/ started /\ unrestored' = TRUE /\ UNCHANGED <<driverVars, linkVars>>
  /\ UNCHANGED <<flash, configVars, saved, torn>>

(* Mutant: what was requested is applied again.                            *)
RestoreRequested ==
  /\ Proceeds("restore_address", "restore_start")
  /\ applied' = requested
  /\ UNCHANGED <<flash, configVars, saved, started, linkVars, unrestored, torn>>

RestoreSettings ==
  /\ Proceeds("restore_address", "restore_start")
  /\ \/ ~started /\ applied' = settings /\ UNCHANGED unrestored
     \/ applied' \in {applied, [settings EXCEPT !.phy = applied.phy]} /\ unrestored' = TRUE
  /\ UNCHANGED <<flash, configVars, saved, started, linkVars, torn>>

RestoreStart ==
  /\ Proceeds("restore_start", "idle")
  /\ \/ started' = TRUE /\ UNCHANGED unrestored
     \/ ~started /\ unrestored' = TRUE /\ UNCHANGED started
  /\ saved' = 0
  /\ UNCHANGED <<flash, configVars, applied, linkVars, torn>>

SetEthernet ==
  \/ Reconfigure
  \/ StopDriver \/ ApplyAddress \/ ApplyPhy \/ StartDriver \/ SaveKey \/ Accept
  \/ StepFails
  \/ RestoreStop \/ RestoreSettings \/ RestoreStart

-----------------------------------------------------------------------------
(* The link and the handlers of its events.                                *)

LinkChanges ==
  /\ started /\ Len(events) < MaxEvents
  /\ link' = ~link
  /\ events' = Append(events, IF link THEN "disconnected" ELSE "connected")
  /\ UNCHANGED <<flash, configVars, call, saved, driverVars, linkUp, hasIp, dropped, unrestored, torn>>

(* Assumed of the driver and the interface: an address is reported as got  *)
(* only while the link stands.  One may be lost at any time.               *)
AddressChanges ==
  /\ Len(events) < MaxEvents
  /\ \E e \in {"got", "lost"} : (e = "got" => link) /\ events' = Append(events, e)
  /\ UNCHANGED <<flash, configVars, call, saved, driverVars, link, linkUp, hasIp, dropped, unrestored, torn>>

(* Mutant: only a disconnect takes the link down.                          *)
HandleNoStop ==
  /\ call = "idle" /\ events # << >> /\ events' = Tail(events)
  /\ linkUp' = IF Head(events) \in {"connected", "disconnected"} THEN Head(events) = "connected" ELSE linkUp
  /\ hasIp' = IF Head(events) \in {"disconnected", "lost"} THEN FALSE ELSE hasIp \/ Head(events) = "got"
  /\ dropped' = IF Head(events) \in {"connected", "disconnected", "stop"} THEN FALSE ELSE dropped
  /\ UNCHANGED <<flash, configVars, call, saved, driverVars, link, unrestored, torn>>

(* ethernet_event_handler, ip_event_handler                                *)
HandleEvent ==
  /\ call = "idle" /\ events # << >> /\ events' = Tail(events)
  /\ LET e == Head(events)
         down == e \in {"disconnected", "stop"}
     IN /\ linkUp' = IF down THEN FALSE ELSE linkUp \/ e = "connected"
        /\ hasIp' = IF down \/ e = "lost" THEN FALSE ELSE hasIp \/ e = "got"
        /\ dropped' = IF down \/ e = "connected" THEN FALSE ELSE dropped
  /\ UNCHANGED <<flash, configVars, call, saved, driverVars, link, unrestored, torn>>

LoseEvent ==
  /\ call # "idle" /\ events # << >> /\ events' = Tail(events)
  /\ dropped' = TRUE
  /\ UNCHANGED <<flash, configVars, call, saved, driverVars, link, linkUp, hasIp, unrestored, torn>>

-----------------------------------------------------------------------------
EthernetInit ==
  /\ flash = [k \in ToSet(Keys) |-> Absent]
  /\ settings = Default /\ applied = Default /\ requested = Default
  /\ initialized = TRUE /\ started = TRUE
  /\ call = "idle" /\ saved = 0
  /\ link = FALSE /\ events = << >> /\ linkUp = FALSE /\ hasIp = FALSE
  /\ unrestored = FALSE /\ torn = FALSE /\ dropped = FALSE

(* A reset, and ethernet_manager_start with what is in flash.  It may fail;*)
(* then there is no Ethernet until the next reset.                         *)
EthernetReset ==
  /\ settings' = Load(flash) /\ applied' = Load(flash) /\ requested' = Default
  /\ initialized' \in BOOLEAN /\ started' = initialized'
  /\ call' = "idle" /\ saved' = 0
  /\ link' = FALSE /\ events' = << >> /\ linkUp' = FALSE /\ hasIp' = FALSE
  /\ unrestored' = FALSE /\ dropped' = FALSE
  /\ UNCHANGED <<flash, torn>>

EthernetNext == SetEthernet \/ LinkChanges \/ AddressChanges \/ HandleEvent \/ LoseEvent \/ EthernetReset

EthernetSpec == EthernetInit /\ [][EthernetNext]_ethernetVars

-----------------------------------------------------------------------------
(* After a change that failed, interface and driver have the settings that *)
(* are shown and that were there before, and the driver runs, unless a step*)
(* of restoring failed too (ethernet_manager.cpp:314-318).                 *)
RestoredAfterFailure ==
  call = "idle" /\ initialized /\ ~unrestored => applied = settings /\ started

(* The next boot uses the settings that were last set, unless their save   *)
(* was cut off by a reset or a failure (ethernet_manager.cpp:119-195).     *)
SettingsSurvive == call = "idle" /\ ~torn => Load(flash) = settings

(* The state that is shown is that of the link when every event since has  *)
(* been handled, and shows an address only with a link                     *)
(* (ethernet_manager.cpp:325-369).                                         *)
LinkShown == events = << >> /\ ~dropped => linkUp = link /\ (hasIp => linkUp)
=============================================================================
