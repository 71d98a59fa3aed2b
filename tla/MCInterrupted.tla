---------------------------- MODULE MCInterrupted ---------------------------
(* The instance of Interrupted for TLC: a single core.                     *)
EXTENDS Interrupted

CONSTANTS c1

MCCores == {c1}

=============================================================================
