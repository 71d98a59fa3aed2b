---------------------------- MODULE MCExhaustion ----------------------------
(* The instance of Exhaustion for TLC: two cores that run guests.          *)
EXTENDS Exhaustion

CONSTANTS c1, c2

MCCores == {c1, c2}

=============================================================================
