----------------------------- MODULE BatteryStore -----------------------------
(***************************************************************************)
(* The observed batteries: src/main/battery_store.cpp.                     *)
(*                                                                         *)
(* An array of slots in RAM, one per battery.  Every operation holds the   *)
(* store's mutex, so each is one step.  The scanner records observations,  *)
(* and the policy, the console and the state report read them.             *)
(***************************************************************************)
EXTENDS Integers, Sequences, FiniteSets

CONSTANTS
  Names,         \* the batteries in range
  Capacity,      \* CONFIG_POWER4_MAX_BATTERIES
  Alarms,        \* JBD protection bits
  Observations,  \* Observations[n]: what a probe of battery n may yield
  MaxTime,       \* bound: the time reached
  NoName         \* no battery

(* The fields of JBD basic information that the code interprets.           *)
Basic == [volts : Int, amps : Int, soc : 0..100, alarms : SUBSET Alarms, count : Nat]

(* No cells: the cell request failed, or its answer was not valid.         *)
Observation ==
  {o \in [basic : Basic, cells : Seq(Nat)] : o.cells # <<>> => Len(o.cells) = o.basic.count}

ASSUME BatteryAssumption ==
  /\ Capacity \in Nat \ {0}
  /\ MaxTime \in Nat
  /\ NoName \notin Names
  /\ Observations \in [Names -> SUBSET Observation]

VARIABLES
  slots,     \* g_batteries; a slot that is not occupied is NoRecord
  now        \* esp_timer_get_time

storeVars == <<slots, now>>

Slots == 1..Capacity

NoRecord ==
  [name |-> NoName,
   basic |-> [volts |-> 0, amps |-> 0, soc |-> 0, alarms |-> {}, count |-> 0],
   cells |-> <<>>, cellsAt |-> 0, seen |-> 0]

Stored == {n \in Names : \E s \in Slots : slots[s].name = n}

-----------------------------------------------------------------------------
First(s, S) == s \in S /\ \A t \in S : s <= t

(* Mutant: the slot seen last is taken.                                    *)
LeastRecentlySeenReversed(s) ==
  First(s, {t \in Slots : \A u \in Slots : slots[u].seen <= slots[t].seen})

LeastRecentlySeen(s) ==
  First(s, {t \in Slots : \A u \in Slots : slots[t].seen <= slots[u].seen})

Occupied(name) == {s \in Slots : slots[s].name = name}

(* Where the observation of n goes: to its slot, to an empty one, or to    *)
(* the one not written for the longest time.                               *)
Place(n, s) ==
  IF Occupied(n) # {} THEN First(s, Occupied(n))
  ELSE IF Occupied(NoName) # {} THEN First(s, Occupied(NoName))
  ELSE LeastRecentlySeen(s)

(* write_record: the cells in the slot stay if the count agrees.           *)
Written(r, n, o) ==
  LET fresh == o.cells # <<>>
      preserve == r.name # NoName /\ r.cells # <<>> /\ r.basic.count = o.basic.count
  IN
  [name |-> n,
   basic |-> o.basic,
   cells |-> IF fresh THEN o.cells ELSE IF preserve THEN r.cells ELSE <<>>,
   cellsAt |-> IF fresh THEN now ELSE IF preserve THEN r.cellsAt ELSE 0,
   seen |-> now]

RecordObservation(n, o) ==
  /\ \E s \in Slots : Place(n, s) /\ slots' = [slots EXCEPT ![s] = Written(@, n, o)]
  /\ UNCHANGED now

-----------------------------------------------------------------------------
Observe == \E n \in Names : \E o \in Observations[n] : RecordObservation(n, o)

Tick ==
  /\ now < MaxTime
  /\ now' = now + 1
  /\ UNCHANGED slots

(* The store is in RAM, and the timer counts from the reset.               *)
ResetStore ==
  /\ slots' = [s \in Slots |-> NoRecord]
  /\ now' = 0

InitStore ==
  /\ slots = [s \in Slots |-> NoRecord]
  /\ now = 0

NextStore ==
  \/ Observe
  \/ Tick
  \/ ResetStore

StoreSpec == InitStore /\ [][NextStore]_storeVars

-----------------------------------------------------------------------------
(* What is remembered of n is what stands in its slot.                     *)
RecordOf(n) == IF n \in Stored THEN slots[CHOOSE s \in Slots : slots[s].name = n] ELSE NoRecord

Promise == INSTANCE BatteryMemory WITH memory <- [n \in Names |-> RecordOf(n)], Unknown <- NoRecord

(* The store remembers per battery, and gives up only the batteries seen   *)
(* least recently (README.md:369-376).  Of what it remembers only the cells*)
(* may be another's: those of the battery displaced, if it has as many.    *)
(* RetainedCellsAreItsOwn says that they are not.                          *)
ImplementsMemory == Promise!Spec

(* Cells in a record that were not read just now were in the record of     *)
(* the same battery before: "a failed cell request retains the last valid  *)
(* readings" (README.md:374-375).                                          *)
RetainedCellsAreItsOwn ==
  [][\A s \in Slots :
       slots'[s].cells # <<>> /\ slots'[s].cellsAt < now =>
         \E t \in Slots : /\ slots[t].name = slots'[s].name
                          /\ slots[t].cells = slots'[s].cells
                          /\ slots[t].cellsAt = slots'[s].cellsAt]_storeVars
=============================================================================
