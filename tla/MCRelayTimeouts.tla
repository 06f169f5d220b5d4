--------------------------- MODULE MCRelayTimeouts ---------------------------
(* The firmware's own figures in units of 100 ms: a queue of 16, a second  *)
(* for a reply, a tenth of a second for a write on a bus that is stuck.    *)
(* One policy program keeps turning a relay on and asks for two states.    *)
EXTENDS RelaySafety

CONSTANTS policy

Msg(t, r, h) == [type |-> t, relay |-> r, hold |-> h]

MCRepertoire == [c \in Clients |->
  {Msg("OnFor", 1, 100), Msg("Query", 1, 0), Msg("Query", 2, 0)}]
=============================================================================
