--------------------------- MODULE MCRelayFaults ---------------------------
(* Two relays on an expander whose writes fail, and a queue and time-outs  *)
(* short enough that callers give up, on the queue and on the answer.      *)
EXTENDS RelaySafety

CONSTANTS policy, console

Msg(t, r, h) == [type |-> t, relay |-> r, hold |-> h]

MCRepertoire == [c \in Clients |->
  IF c = policy
    THEN {Msg("OnFor", 1, 0), Msg("OnFor", 1, 1), Msg("Query", 1, 0), Msg("Query", 2, 0)}
    ELSE {Msg("ForceOn", 2, 0), Msg("ForceOff", 2, 0)}]
=============================================================================
