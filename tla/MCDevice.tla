------------------------------ MODULE MCDevice ------------------------------
(* Instances of the services that share nothing but the reset, and of what *)
(* surrounds them.  In a behavior only the one in focus moves: what they do*)
(* at the same time is independent, and their products would be too large. *)
EXTENDS ConsoleSafety, Ethernet, Clock, ToolSession, Probe

CONSTANTS x, m, n, pw, none, host1, host2, zero, auto, fixed, r1, r2, b1, b2

VARIABLE focus

Focuses == {"cycle", "sessions", "addresses", "modes", "link", "clock", "tools", "probe"}

deviceVars == <<focus, vars, ethernetVars, clockVars, toolSessionVars, probeVars>>

(* An upload of two lines, which compiles, or of one, which does not.      *)
SomeTexts == {<< >>, <<x>>, <<x, x>>}
SomeCompile == {<< >>, <<x, x>>}

(* Two hosts in different subnets.                                         *)
Subnets == [h \in {host1, host2} |-> h]

SomeReports == <<r1, r2>>

(* One battery with a number of cells there is room for, one without.      *)
SomeCells == [b \in {b1, b2} |-> IF b = b1 THEN 1 ELSE 3]

-----------------------------------------------------------------------------
(* The policy task, while the serial console uploads and accepts.          *)
CycleNext ==
  \/ PolicyTask /\ UNCHANGED consoleVars
  \/ EnterLine("serial") /\ command'["serial"] \in {"upload", "accept"}
  \/ TakeMutex("serial") \/ RunCommand("serial")
  \/ Reset

(* Both consoles, between two cycles.                                      *)
SessionsNext == cycle = "idle" /\ Next /\ cycle' = "idle"

(* Changes of the addresses, on a link that is down...                     *)
AddressesNext ==
  \/ Reconfigure /\ events = << >> /\ requested'.phy = settings.phy
  \/ call # "idle" /\ SetEthernet
  \/ HandleEvent \/ EthernetReset

(* ... of the PHY mode, with and without an address...                     *)
ModesNext ==
  \/ Reconfigure /\ events = << >> /\ requested'.ip # host2 /\ requested'.gateway = zero
  \/ call # "idle" /\ SetEthernet
  \/ HandleEvent \/ EthernetReset

(* ... and of the link, while the same settings are set again.             *)
LinkNext ==
  \/ Reconfigure /\ requested' = settings
  \/ call # "idle" /\ SetEthernet
  \/ HandleEvent \/ LoseEvent \/ LinkChanges \/ AddressChanges \/ EthernetReset

OthersStandStill ==
  /\ UNCHANGED focus
  /\ focus \notin {"cycle", "sessions"} => UNCHANGED vars
  /\ focus \notin {"addresses", "modes", "link"} => UNCHANGED ethernetVars
  /\ focus # "clock" => UNCHANGED clockVars
  /\ focus # "tools" => UNCHANGED toolSessionVars
  /\ focus # "probe" => UNCHANGED probeVars

DeviceNext ==
  /\ OthersStandStill
  /\ \/ focus = "cycle" /\ CycleNext
     \/ focus = "sessions" /\ SessionsNext
     \/ focus = "addresses" /\ AddressesNext
     \/ focus = "modes" /\ ModesNext
     \/ focus = "link" /\ LinkNext
     \/ focus = "clock" /\ ClockNext
     \/ focus = "tools" /\ ToolNext
     \/ focus = "probe" /\ ProbeNext

DeviceInit ==
  /\ focus \in Focuses
  /\ Init /\ EthernetInit /\ ClockInit /\ ToolInit /\ ProbeInit
  /\ focus # "sessions" => flashPassword = none
  /\ focus # "clock" => flaky
  /\ focus # "tools" => serial = FALSE

(* ClockFairness, when the clock is in focus.                              *)
FocusedClockFairness ==
  /\ WF_clockVars(focus = "clock" /\ SntpSynchronizes)
  /\ WF_clockVars(focus = "clock" /\ ReceiveSync)
  /\ WF_clockVars(focus = "clock" /\ (TakeAndRead("sync") \/ TakeTimesOut("sync")))
  /\ WF_clockVars(focus = "clock" /\ holder # "nobody" /\ SetRtc)

DeviceSpec == DeviceInit /\ [][DeviceNext]_deviceVars /\ Fairness /\ FocusedClockFairness
=============================================================================
