------------------------------ MODULE MCService -----------------------------
(***************************************************************************)
(* Instances of Service for TLC.                                           *)
(***************************************************************************)
EXTENDS Service, TLC

\* The cores, the services and the messages are interchangeable.
MCSymmetry ==
  Permutations(PhysicalCores) \cup Permutations(ServiceIDs) \cup Permutations(Messages)
=============================================================================
