--------------------------- MODULE MCBleRecovery ---------------------------
(* Three batteries.                                                    *)
EXTENDS BleSafety

CONSTANTS a, b, c
=============================================================================
