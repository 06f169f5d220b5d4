---------------------------- MODULE MCBatteries ----------------------------
(* Instances of BatteryBank: three batteries, one more than the store      *)
(* remembers.                                                              *)
EXTENDS BatteryBank, TLC

CONSTANTS a, b, c, house, boat, policy

Reported(volts, amps, soc, alarms, count, cells) ==
  [basic |-> [volts |-> volts, amps |-> amps, soc |-> soc, alarms |-> alarms, count |-> count],
   cells |-> cells]

(* The last has as many cells as the first, and never reports them.        *)
Mixed == [n \in Names |->
  CASE n = a -> {Reported(26, 5, 90, {}, 2, <<3300, 3200>>), Reported(25, -3, 80, {}, 2, <<>>)}
    [] n = b -> {Reported(13, -1, 85, {"undervoltage"}, 1, <<3250>>)}
    [] n = c -> {Reported(39, -2, 70, {}, 2, <<>>)}]

(* Batteries of one kind.                                                  *)
Alike == [n \in Names |->
  {Reported(13, 1, 90, {}, 1, <<3300>>), Reported(12, 1, 90, {}, 1, <<>>)}]

(* The two banks are interchangeable.                                      *)
BankSymmetry == Permutations({house, boat})

Lists == {<<a, b>>, <<c, a>>}
=============================================================================
