--------------------------- MODULE CapsuleMemory ----------------------------
(***************************************************************************)
(* How a capsule gets its memory (create_boot_capsule): a region of RAM    *)
(* from PhysMem, a Mapping of it, and a supervisor image that Loader puts  *)
(* there.  Other regions are held and freed around it as PhysMem allows.   *)
(***************************************************************************)
EXTENDS PhysMem, Loader, Mapping

CONSTANTS
  Images,         \* the supervisor images that may be loaded
  VirtualBases    \* the virtual addresses a mapping may start at

ASSUME CapsuleMemoryAssumption ==
  /\ Images \subseteq Image
  /\ VirtualBases \subseteq Nat
  /\ None \notin Nat \cup Region

\* "map that physical memory into the capsule" ...
CapsuleMapping(r) == IdentityMapping(SetPhysical(NewMapping, r))

\* ... or elsewhere.
Mappings(r) == {CapsuleMapping(r)} \cup {SetVirtual(CapsuleMapping(r), v) : v \in VirtualBases}

\* An image whose headers are stored at or above the place where they are to be
\* in RAM, and are not larger in the file than in memory.
WellPlaced(image) ==
  \A i \in LoadHeaders(image) :
    image.headers[i].paddr <= image.headers[i].offset /\ image.headers[i].filesz <= image.headers[i].memsz

\* Loading an image that is well placed writes to the region that alloc_region
\* has just handed out and nowhere else, also when load gives up at a later
\* header: never to free RAM or to RAM that another capsule holds, although
\* load compares other numbers with the end of the region than those it copies
\* with.
LoadStaysInside ==
  [][\A r \in held' \ held, image \in Images :
       image.elf /\ WellPlaced(image) =>
         \A i \in Copied(r, image) : Destination(r, image.headers[i]) \subseteq Addresses(r)]_vars

\* load copies the image's entry point to the address it returns plus the
\* physical address of the header that has it: the two agree for a header that
\* goes to the start of the region, and for no other.  The entry has to be part
\* of what is stored in the file, and no later header may be copied over it.
EntryIsLoaded ==
  [][\A r \in held' \ held, image \in Images :
       Loads(r, image) =>
         LET i == Max(Homes(r, image))
             h == image.headers[i]
             a == EntryPhysical(r, image) + h.paddr
         IN  (/\ image.entry < h.vaddr + h.filesz
              /\ \A j \in Copied(r, image) : j > i => a \notin Destination(r, image.headers[j]))
             => /\ a \in Destination(r, h)
                /\ ByteAt(r, image, a) = h.offset + (image.entry - h.vaddr)]_vars

\* What the virtual addresses lead to, up to some beyond the end of the mapping.
Reached(m) == {VirtualToPhysical(m, v) : v \in 0 .. m.virtual_base + Top} \ {None}

\* A capsule reaches the RAM that it holds through its mapping, all of it and
\* nothing that adjoins it, wherever the mapping starts; and the translations
\* of virtual and of physical addresses are inverse to each other.
MappingExact ==
  \A r \in held : \A m \in Mappings(r) :
    /\ Reached(m) = Addresses(r)
    /\ \A a \in Addresses(r) : VirtualToPhysical(m, PhysicalToVirtual(m, a)) = a

=============================================================================
