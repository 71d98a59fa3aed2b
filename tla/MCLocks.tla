------------------------------ MODULE MCLocks -------------------------------
(* The instance of Locks for TLC: the boot core, which runs guests, and a  *)
(* management core.                                                        *)
EXTENDS Locks

CONSTANTS c1, c2

MCCores == {c1, c2}
MCSmodeCores == {c1}

=============================================================================
