--------------------------- MODULE MCRelayHealthy ---------------------------
(* Two relays on an expander that acknowledges every write; the policy     *)
(* grants, extends and cancels holds of relay 1 and reads it, the console  *)
(* forces either relay and reads.                                          *)
EXTENDS RelaySafety

CONSTANTS policy, console

Msg(t, r, h) == [type |-> t, relay |-> r, hold |-> h]

MCRepertoire == [c \in Clients |->
  IF c = policy
    THEN {Msg("OnFor", 1, h) : h \in 0 .. 2} \cup {Msg("Query", 1, 0), Msg("Query", 2, 0)}
    ELSE {Msg("ForceOn", 1, 0), Msg("ForceOff", 1, 0), Msg("ClearForce", 1, 0),
          Msg("OnFor", 2, 1)}]
=============================================================================
