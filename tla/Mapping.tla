------------------------------ MODULE Mapping -------------------------------
(***************************************************************************)
(* A capsule's mapping of supervisor virtual addresses to a region of RAM  *)
(* (virtmem.rs).                                                           *)
(***************************************************************************)
EXTENDS Naturals

CONSTANT None   \* Rust's None

\* Mapping::new
NewMapping == [virtual_base |-> None, physical_region |-> None]

SetVirtual(m, vbase) == [m EXCEPT !.virtual_base = vbase]

SetPhysical(m, region) == [m EXCEPT !.physical_region = region]

\* identity_mapping; without a region it is an error and changes nothing.
IdentityMapping(m) ==
  IF m.physical_region = None THEN m ELSE SetVirtual(m, m.physical_region.base)

Configured(m) == m.virtual_base # None /\ m.physical_region # None

PhysicalToVirtual(m, physaddr) ==
  IF /\ Configured(m)
     /\ physaddr >= m.physical_region.base
     /\ physaddr < m.physical_region.base + m.physical_region.size
  THEN (physaddr - m.physical_region.base) + m.virtual_base
  ELSE None

\* Mutant: the address after the last one is in the mapping too.
VirtualToPhysical_Inclusive(m, virtaddr) ==
  IF /\ Configured(m)
     /\ virtaddr >= m.virtual_base
     /\ virtaddr <= m.virtual_base + m.physical_region.size
  THEN (virtaddr - m.virtual_base) + m.physical_region.base
  ELSE None

VirtualToPhysical(m, virtaddr) ==
  IF /\ Configured(m)
     /\ virtaddr >= m.virtual_base
     /\ virtaddr < m.virtual_base + m.physical_region.size
  THEN (virtaddr - m.virtual_base) + m.physical_region.base
  ELSE None

=============================================================================
