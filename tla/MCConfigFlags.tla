---------------------------- MODULE MCConfigFlags ----------------------------
(* Instances of ConfigFlags: the calls its clients make.                   *)
EXTENDS ConfigSafety

CONSTANTS a, b, c, p, console, ble

Call(op, n, life) == [op |-> op, name |-> n, life |-> life]

(* a, b and c are always given the same lifetime, and are one more than    *)
(* the tables hold; p never has one.                                       *)
Ordinary == [w \in Clients |->
  IF w = console
    THEN {Call("define", a, 2), Call("define", b, 1), Call("remove", a, 0), Call("list", b, 0),
          Call("define", c, 1)}
    ELSE {Call("define", p, 0), Call("remove", b, 0), Call("remove", p, 0), Call("list", a, 0)}]

(* The console makes a parameter that has a lifetime permanent.            *)
MadePermanent == [w \in Clients |-> {Call("define", a, 1), Call("define", a, 0)}]

(* The console turns the dead-man switch a on.                             *)
DeadMan == [w \in Clients |-> {Call("define", a, 1)}]
=============================================================================
