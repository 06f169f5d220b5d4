---------------------------- MODULE BatteryMemory ----------------------------
(***************************************************************************)
(* What the battery store promises: it remembers, per battery, the last    *)
(* observation and cell readings, for the Capacity batteries seen most     *)
(* recently.  There are no slots here.                                     *)
(***************************************************************************)
EXTENDS Integers, FiniteSets

CONSTANTS Names, Capacity, Observations, MaxTime, Unknown

VARIABLES
  memory,    \* memory[n]: what is remembered of battery n, or Unknown
  now

Known == {n \in Names : memory[n] # Unknown}

(* Cells that the battery does not report now are those it had, as long as *)
(* it has as many.  Of the previous record nothing else is left.           *)
Remembered(previous, n, o) ==
  LET fresh == o.cells # <<>>
      kept == /\ previous # Unknown /\ previous.cells # <<>>
              /\ previous.basic.count = o.basic.count
  IN
  [name |-> n,
   basic |-> o.basic,
   cells |-> IF fresh THEN o.cells ELSE IF kept THEN previous.cells ELSE <<>>,
   cellsAt |-> IF fresh THEN now ELSE IF kept THEN previous.cellsAt ELSE 0,
   seen |-> now]

(* An observation of a new battery takes the place of one of those not     *)
(* seen for the longest time, but only when there is no room; and it gets  *)
(* the cells of the one it displaces, if it has as many.  That they are its*)
(* own nobody can promise: RetainedCellsAreItsOwn.                         *)
Remember(n, o) ==
  /\ \/ /\ n \in Known \/ Cardinality(Known) < Capacity
        /\ memory' = [memory EXCEPT ![n] = Remembered(memory[n], n, o)]
     \/ /\ n \notin Known /\ Cardinality(Known) = Capacity
        /\ \E old \in Known :
             /\ \A other \in Known : memory[old].seen <= memory[other].seen
             /\ memory' = [memory EXCEPT ![old] = Unknown, ![n] = Remembered(memory[old], n, o)]
  /\ UNCHANGED now

Pass ==
  /\ now < MaxTime
  /\ now' = now + 1
  /\ UNCHANGED memory

(* A reset forgets everything.                                             *)
Forget ==
  /\ memory' = [n \in Names |-> Unknown]
  /\ now' = 0

Init ==
  /\ memory = [n \in Names |-> Unknown]
  /\ now = 0

Next ==
  \/ \E n \in Names : \E o \in Observations[n] : Remember(n, o)
  \/ Pass
  \/ Forget

Spec == Init /\ [][Next]_<<memory, now>>
=============================================================================
