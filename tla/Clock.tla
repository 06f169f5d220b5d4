------------------------------- MODULE Clock -------------------------------
(***************************************************************************)
(* The system clock of src/main/time_manager.cpp and the battery-backed RTC*)
(* chip behind src/main/rtc_manager.cpp.  The RTC sets the clock at boot;  *)
(* SNTP and "set time" set both.                                           *)
(*                                                                         *)
(* A time is "right" or "wrong".  An RTC that does not run becomes wrong.  *)
(* Right is to within the few seconds an SNTP time may wait for its task   *)
(* and for mutexes before it is in the RTC: no wait is longer than 500 ms, *)
(* and a newer time replaces one that is still in the queue.               *)
(* The chip, its I2C bus and SNTP are modelled from how they are used; a   *)
(* transfer of a flaky bus may fail, done or not.                          *)
(***************************************************************************)
EXTENDS Integers

CONSTANT
  MaxResets        \* bound

VARIABLES
  (* the chip *)
  rtc,             \* its time
  stopBit,         \* Control_1: does it stand still?
  stopFlag,        \* was the oscillator stopped since the time was written?
  flaky,           \* may transfers fail?
  (* rtc_manager.cpp *)
  holder,          \* who holds its g_mutex
  at,              \* where set_datetime_unlocked is
  control,         \* the stop bit in what it read from Control_1
  writeFailed,     \* its err
  (* time_manager.cpp *)
  clock,           \* the system time
  valid,           \* g_clock_valid
  queue,           \* g_sync_queue: is a message in it?
  sync,            \* where sync_task_main is; "missed": the last one was dropped
  manual,          \* where time_manager_set_utc is
  given,           \* its argument
  (* history and bound *)
  wrongGiven,      \* a wrong time was set by hand
  spoiled,         \* setting the RTC was given up or cut off half way
  resets

chipVars == <<rtc, stopBit, stopFlag, flaky>>
setVars == <<holder, at, control, writeFailed>>
timeVars == <<clock, valid, queue>>
callerVars == <<sync, manual, given>>
clockHistory == <<wrongGiven, spoiled, resets>>
clockVars == <<chipVars, setVars, timeVars, callerVars, clockHistory>>

-----------------------------------------------------------------------------
(* rtc_manager_set, by the SNTP task or by a console.                      *)

Value == IF holder = "manual" THEN given ELSE "right"

(* The caller goes on when the set succeeded...                            *)
SetSucceeds ==
  /\ sync' = IF holder = "sync" THEN "idle" ELSE sync
  /\ manual' = IF holder = "manual" THEN "clock" ELSE manual

(* ... and gives up when it failed.                                        *)
SetGivenUp ==
  /\ sync' = IF holder = "sync" THEN "idle" ELSE sync
  /\ manual' = IF holder = "manual" THEN "idle" ELSE manual
  /\ spoiled' = (spoiled \/ stopBit' \/ writeFailed)

Release == holder' = "nobody" /\ at' = "idle" /\ control' = FALSE /\ writeFailed' = FALSE

Waits(u) == (IF u = "sync" THEN sync ELSE manual) = "set"

(* The mutex is had within 500 ms: Control_1 is read and kept, but for the *)
(* bits this code sets.                                                    *)
TakeAndRead(u) ==
  /\ holder = "nobody" /\ Waits(u)
  /\ holder' = u /\ at' = "stop"
  /\ control' = stopBit
  /\ UNCHANGED <<chipVars, writeFailed, timeVars, callerVars, clockHistory>>

(* It is not, as the other caller or a reader (rtc_manager_read) has it:   *)
(* the task drops the synchronization, "set time" reports an error.        *)
TakeTimesOut(u) ==
  /\ holder # u /\ Waits(u)
  /\ sync' = IF u = "sync" THEN "missed" ELSE sync
  /\ manual' = IF u = "manual" THEN "idle" ELSE manual
  /\ UNCHANGED <<chipVars, setVars, timeVars, given, clockHistory>>

StopRtc ==
  /\ at = "stop" /\ at' = "write"
  /\ stopBit' = TRUE
  /\ UNCHANGED <<rtc, stopFlag, flaky, holder, control, writeFailed, timeVars, callerVars, clockHistory>>

(* The seconds register also holds the oscillator flag.                    *)
WriteTime ==
  /\ at = "write" /\ at' = "restart"
  /\ rtc' = Value /\ stopFlag' = FALSE
  /\ UNCHANGED <<stopBit, flaky, holder, control, writeFailed, timeVars, callerVars, clockHistory>>

WriteTimeFails ==
  /\ flaky /\ at = "write" /\ at' = "restart"
  /\ writeFailed' = TRUE
  /\ \/ UNCHANGED <<rtc, stopFlag>>
     \/ rtc' = Value /\ stopFlag' = FALSE
     \/ rtc' = "wrong" /\ stopFlag' = FALSE /\ Value = "right"
  /\ UNCHANGED <<stopBit, flaky, holder, control, timeVars, callerVars, clockHistory>>

Restart ==
  /\ at = "restart" /\ ~writeFailed /\ at' = "verify"
  /\ stopBit' = control
  /\ UNCHANGED <<rtc, stopFlag, flaky, holder, control, writeFailed, timeVars, callerVars, clockHistory>>

RestartAfterFailure ==
  /\ at = "restart" /\ writeFailed
  /\ stopBit' = control
  /\ SetGivenUp /\ Release
  /\ UNCHANGED <<rtc, stopFlag, flaky, timeVars, given, wrongGiven, resets>>

(* Reading back finds the time just written, whether it runs or not.       *)
Verify ==
  /\ at = "verify" /\ ~stopFlag
  /\ SetSucceeds /\ Release
  /\ UNCHANGED <<chipVars, timeVars, given, clockHistory>>

(* Control_1 cannot be read, written, or written back, or the time cannot  *)
(* be read back.                                                           *)
TransferFails ==
  /\ flaky /\ at \in {"stop", "restart", "verify"}
  /\ stopBit' \in {stopBit} \cup (IF at = "stop" THEN {TRUE} ELSE {}) \cup (IF at = "restart" THEN {control} ELSE {})
  /\ SetGivenUp /\ Release
  /\ UNCHANGED <<rtc, stopFlag, flaky, timeVars, given, wrongGiven, resets>>

SetRtc ==
  \/ \E u \in {"sync", "manual"} : TakeAndRead(u)
  \/ StopRtc \/ WriteTime \/ WriteTimeFails \/ Restart \/ RestartAfterFailure \/ Verify \/ TransferFails

(* An RTC that stands still loses time; the moment it does while it is set *)
(* does not count.                                                         *)
RtcStandsStill ==
  /\ stopBit /\ holder = "nobody" /\ rtc' = "wrong"
  /\ UNCHANGED <<stopBit, stopFlag, flaky, setVars, timeVars, callerVars, clockHistory>>

-----------------------------------------------------------------------------
(* SNTP sets the clock and calls sntp_sync_callback, which overwrites what *)
(* is in the queue.                                                        *)
(* Mutant: only the first synchronization after boot reaches the RTC.      *)
SntpOnce ==
  /\ clock' = "right" /\ queue' = (queue \/ ~valid)
  /\ UNCHANGED <<chipVars, setVars, valid, callerVars, clockHistory>>

SntpSynchronizes ==
  /\ clock' = "right" /\ queue' = TRUE
  /\ UNCHANGED <<chipVars, setVars, valid, callerVars, clockHistory>>

(* sync_task_main; it, too, waits only 500 ms to mark the clock valid.     *)
ReceiveSync ==
  /\ sync # "set" /\ queue /\ sync' = "set" /\ queue' = FALSE
  /\ valid' \in {valid, TRUE}
  /\ UNCHANGED <<chipVars, setVars, clock, manual, given, clockHistory>>

(* time_manager_set_utc: the RTC first, then the clock.                    *)
SetTime ==
  /\ manual = "idle" /\ manual' = "set"
  /\ given' \in {"right", "wrong"}
  /\ wrongGiven' = (wrongGiven \/ given' = "wrong")
  /\ UNCHANGED <<chipVars, setVars, timeVars, sync, spoiled, resets>>

(* set_system_time; if its wait is in vain the clock is set all the same.  *)
SetClock ==
  /\ manual = "clock" /\ manual' = "idle"
  /\ clock' = given /\ valid' \in {valid, TRUE}
  /\ UNCHANGED <<chipVars, setVars, queue, sync, given, clockHistory>>

-----------------------------------------------------------------------------
ClockInit ==
  /\ rtc = "wrong" /\ stopBit = FALSE /\ stopFlag = TRUE
  /\ flaky \in BOOLEAN
  /\ holder = "nobody" /\ at = "idle" /\ control = FALSE /\ writeFailed = FALSE
  /\ clock = "unset" /\ valid = FALSE /\ queue = FALSE
  /\ sync = "idle" /\ manual = "idle" /\ given = "right"
  /\ wrongGiven = FALSE /\ spoiled = FALSE /\ resets = 0

(* Mutant: the oscillator flag is not looked at.                           *)
SeedAnyway(time, flag) ==
  \/ clock' = "unset" /\ valid' = FALSE
  \/ clock' = time /\ valid' = TRUE

(* time_manager_seed_from_rtc, from the time and the flag in the chip.     *)
Seed(time, flag) ==
  \/ (flag \/ flaky) /\ clock' = "unset" /\ valid' = FALSE
  \/ ~flag /\ clock' = time /\ valid' = TRUE

(* A reset; the RTC may lose its power too.                                *)
ClockReset ==
  /\ resets < MaxResets /\ resets' = resets + 1
  /\ \/ UNCHANGED <<rtc, stopBit, stopFlag>> /\ spoiled' = (spoiled \/ stopBit)
     \/ rtc' = "wrong" /\ stopBit' = FALSE /\ stopFlag' = TRUE /\ UNCHANGED spoiled
  /\ Seed(rtc', stopFlag')
  /\ holder' = "nobody" /\ at' = "idle" /\ control' = FALSE /\ writeFailed' = FALSE
  /\ queue' = FALSE /\ sync' = "idle" /\ manual' = "idle" /\ given' = "right"
  /\ UNCHANGED <<flaky, wrongGiven>>

ClockNext ==
  \/ SetRtc
  \/ \E u \in {"sync", "manual"} : TakeTimesOut(u)
  \/ RtcStandsStill
  \/ SntpSynchronizes \/ ReceiveSync
  \/ SetTime \/ SetClock
  \/ ClockReset

(* SNTP synchronizes again and again, its task runs, and its wait for the  *)
(* mutex of the RTC ends one way or the other.                             *)
ClockFairness ==
  /\ WF_clockVars(SntpSynchronizes)
  /\ WF_clockVars(ReceiveSync)
  /\ WF_clockVars(TakeAndRead("sync") \/ TakeTimesOut("sync"))
  /\ WF_clockVars(holder # "nobody" /\ SetRtc)

ClockSpec == ClockInit /\ [][ClockNext]_clockVars

-----------------------------------------------------------------------------
(* The clock, and an RTC that claims to be valid, are right unless a wrong *)
(* time was given by hand or the setting of the RTC ended half way: "a     *)
(* valid RTC seeds the POSIX system clock" (README.md:294).                *)
TimeIsRight ==
  ~wrongGiven /\ ~spoiled =>
    /\ valid => clock = "right"
    /\ holder = "nobody" /\ ~stopFlag => rtc = "right"

(* "each successful synchronization updates the system clock and writes UTC*)
(* back to the RTC" (README.md:296-297), whatever was set by hand meanwhile*)
(* and however many time-outs have dropped a synchronization before, if    *)
(* only they do not go on for ever; on a bus that works.                   *)
RtcFollowsSntp ==
  <>[](sync # "missed") => (~flaky /\ rtc = "wrong" ~> rtc = "right" \/ spoiled)

(* When setting the RTC reports success, the RTC has the time and keeps it:*)
(* "writes UTC back to the RTC" (README.md:297).                           *)
SetRtcRuns == [][Verify => ~stopBit]_clockVars
=============================================================================
