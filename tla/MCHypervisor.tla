---------------------------- MODULE MCHypervisor ----------------------------
(***************************************************************************)
(* Instances of Hypervisor for TLC: the boot core b, another core that can *)
(* run supervisors, and a management core that cannot.                     *)
(***************************************************************************)
EXTENDS Hypervisor, TLC

CONSTANTS b, p2, m, r1, r2

MCPriority == [c \in CapsuleIDs |-> "High"]

\* The second and later capsules get normal-priority virtual cores.
MCMixedPriority == [c \in CapsuleIDs |-> IF c = 1 THEN "High" ELSE "Normal"]

MCRegionSymmetry == Permutations(Regions)
=============================================================================
