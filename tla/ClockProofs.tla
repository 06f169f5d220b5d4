----------------------------- MODULE ClockProofs -----------------------------
(***************************************************************************)
(* The clock and a valid RTC are right, for any number of resets, on a bus *)
(* that works and on one that does not.                                    *)
(***************************************************************************)
EXTENDS Clock, TLAPS

ClockTyped ==
  /\ rtc \in {"right", "wrong"} /\ clock \in {"right", "wrong", "unset"}
  /\ given \in {"right", "wrong"}
  /\ stopBit \in BOOLEAN /\ stopFlag \in BOOLEAN /\ flaky \in BOOLEAN
  /\ control \in BOOLEAN /\ writeFailed \in BOOLEAN
  /\ valid \in BOOLEAN /\ queue \in BOOLEAN
  /\ wrongGiven \in BOOLEAN /\ spoiled \in BOOLEAN
  /\ holder \in {"nobody", "sync", "manual"}
  /\ at \in {"idle", "stop", "write", "restart", "verify"}
  /\ holder = "nobody" <=> at = "idle"

(* What the RTC and its registers hold, given where setting it has got to. *)
(* Only in the middle of it does the RTC stand still, and only between a   *)
(* failed write and its report may its time be wrong and seem valid; a     *)
(* reset at either moment counts as spoiled.                               *)
SettingIsSound ==
  /\ stopBit <=> at \in {"write", "restart"}
  /\ ~control
  /\ writeFailed => at = "restart"
  /\ ~stopFlag /\ ~writeFailed => rtc = "right"

ClockInv ==
  /\ ClockTyped
  /\ ~wrongGiven /\ ~spoiled =>
       /\ SettingIsSound
       /\ given = "right"
       /\ valid \/ queue => clock = "right"

(* Every step of setting the RTC keeps the invariant.                      *)
LEMMA SetRtcSound == ASSUME ClockInv, SetRtc PROVE ClockInv'
<1> USE DEF ClockInv, ClockTyped, SettingIsSound, chipVars, timeVars, callerVars, clockHistory
<1>1. ASSUME NEW u \in {"sync", "manual"}, TakeAndRead(u) PROVE ClockInv'
  BY <1>1 DEF TakeAndRead
<1>2. CASE StopRtc
  BY <1>2 DEF StopRtc
<1>3. CASE WriteTime
  BY <1>3 DEF WriteTime, Value
<1>4. CASE WriteTimeFails
  BY <1>4 DEF WriteTimeFails, Value
<1>5. CASE Restart
  BY <1>5 DEF Restart
<1>6. CASE RestartAfterFailure
  BY <1>6 DEF RestartAfterFailure, SetGivenUp, Release
<1>7. CASE Verify
  BY <1>7 DEF Verify, SetSucceeds, Release
<1>8. CASE TransferFails
  BY <1>8 DEF TransferFails, SetGivenUp, Release
<1>9. QED
  BY <1>1, <1>2, <1>3, <1>4, <1>5, <1>6, <1>7, <1>8 DEF SetRtc

(* So does everything else; a reset seeds the clock from the RTC.          *)
LEMMA ClockSound == ASSUME ClockInv, [ClockNext]_clockVars PROVE ClockInv'
<1> USE DEF ClockInv, ClockTyped, SettingIsSound, chipVars, setVars, timeVars, callerVars, clockHistory
<1>1. CASE SetRtc
  BY <1>1, SetRtcSound
<1>2. CASE RtcStandsStill
  <2>1. at' = at /\ ClockTyped'
    BY <1>2 DEF RtcStandsStill
  <2>2. QED
    BY <1>2, <2>1 DEF RtcStandsStill
<1>3. CASE SntpSynchronizes \/ ReceiveSync
  <2>1. ClockTyped'
    BY <1>3 DEF SntpSynchronizes, ReceiveSync
  <2>2. UNCHANGED <<wrongGiven, spoiled, given>> /\ (SettingIsSound => SettingIsSound')
    <3>1. UNCHANGED <<chipVars, at, control, writeFailed, wrongGiven, spoiled, given>>
      BY <1>3 DEF SntpSynchronizes, ReceiveSync
    <3>2. QED
      BY <3>1
  <2>3. CASE SntpSynchronizes
    BY <2>1, <2>2, <2>3 DEF SntpSynchronizes
  <2>4. CASE ReceiveSync
    <3>1. (valid' \/ queue') => valid \/ queue
      BY <2>4 DEF ReceiveSync
    <3>2. clock' = clock
      BY <2>4 DEF ReceiveSync
    <3>3. QED
      BY <2>1, <2>2, <3>1, <3>2
  <2>5. QED
    BY <1>3, <2>3, <2>4
<1>4. CASE SetTime \/ SetClock
  <2>1. ClockTyped' /\ spoiled' = spoiled
    BY <1>4 DEF SetTime, SetClock
  <2>2. SettingIsSound => SettingIsSound'
    BY <1>4 DEF SetTime, SetClock
  <2>3. CASE SetTime
    <3>1. ~wrongGiven' => ~wrongGiven /\ given' = "right"
      BY <2>3 DEF SetTime
    <3>2. UNCHANGED <<clock, valid, queue>>
      BY <2>3 DEF SetTime
    <3>3. QED
      BY <2>1, <2>2, <3>1, <3>2
  <2>4. CASE SetClock
    BY <2>1, <2>2, <2>4 DEF SetClock
  <2>5. QED
    BY <1>4, <2>3, <2>4
<1>5. ASSUME NEW u \in {"sync", "manual"}, TakeTimesOut(u) PROVE ClockInv'
  BY <1>5 DEF TakeTimesOut
<1>6. CASE ClockReset
  <2>1. ClockTyped'
    BY <1>6 DEF ClockReset, Seed
  <2>2. CASE UNCHANGED <<rtc, stopBit, stopFlag>> /\ spoiled' = (spoiled \/ stopBit)
    BY <1>6, <2>1, <2>2 DEF ClockReset, Seed
  <2>3. CASE rtc' = "wrong" /\ stopBit' = FALSE /\ stopFlag' = TRUE /\ UNCHANGED spoiled
    BY <1>6, <2>1, <2>3 DEF ClockReset, Seed
  <2>4. QED
    BY <1>6, <2>2, <2>3 DEF ClockReset
<1>7. CASE UNCHANGED clockVars
  BY <1>7 DEF clockVars
<1>8. QED
  BY <1>1, <1>2, <1>3, <1>4, <1>5, <1>6, <1>7 DEF ClockNext

(* Unless a wrong time was given by hand or setting the RTC was cut off or *)
(* given up half way, the clock is right once it is valid, and so is an RTC*)
(* that says so (set_datetime_unlocked, time_manager_seed_from_rtc).       *)
THEOREM ClockIsRight == ClockSpec => []TimeIsRight
<1>1. ClockInit => ClockInv
  BY DEF ClockInit, ClockInv, ClockTyped, SettingIsSound
<1>2. ClockInv /\ [ClockNext]_clockVars => ClockInv'
  BY ClockSound
<1>3. ClockInv => TimeIsRight
  BY DEF ClockInv, ClockTyped, SettingIsSound, TimeIsRight
<1>4. QED
  BY <1>1, <1>2, <1>3, PTL DEF ClockSpec
=============================================================================
