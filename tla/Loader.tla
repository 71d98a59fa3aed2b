------------------------------- MODULE Loader -------------------------------
(***************************************************************************)
(* The loader of supervisor images (loader.rs): the copies that load makes *)
(* into the region of RAM it is given, and the entry point it returns.     *)
(*                                                                         *)
(* An image is what the ELF parser (external) makes of the binary: whether *)
(* it is one, its entry point, a virtual address, and its program headers. *)
(* A header is of type "load" or "other", or "bad" if it cannot be read.   *)
(* Addresses do not wrap around.                                           *)
(***************************************************************************)
EXTENDS Naturals, Sequences, FiniteSetsExt

\* What the ELF parser returns.
ProgramHeader ==
  [type : {"load", "other", "bad"}, offset : Nat, vaddr : Nat, paddr : Nat, filesz : Nat, memsz : Nat]

Image == [elf : BOOLEAN, entry : Nat, headers : Seq(ProgramHeader)]

\* load ends its loop at the first header that cannot be read, and passes over
\* those that are not to be loaded.
LoadHeaders(image) ==
  {i \in DOMAIN image.headers :
     /\ image.headers[i].type = "load"
     /\ \A j \in 1 .. i : image.headers[j].type # "bad"}

\* Mutant: where the header lies in the image is not counted.
TooLarge_OffsetIgnored(target, h) == target.base + h.memsz > target.base + target.size

\* "sanity check: target must be able to hold supervisor"
TooLarge(target, h) == target.base + h.offset + h.memsz > target.base + target.size

\* The headers that load gets to copy: it stops at one that is too large.
Copied(target, image) ==
  {i \in LoadHeaders(image) :
     \A j \in LoadHeaders(image) : j <= i => ~TooLarge(target, image.headers[j])}

\* Where a header's bytes go.
Destination(target, h) == {h.paddr + target.base + k : k \in 0 .. h.filesz - 1}

\* "is this program header home to the entry point?"
IsHome(image, h) == h.vaddr <= image.entry /\ image.entry < h.vaddr + h.memsz

Homes(target, image) == {i \in Copied(target, image) : IsHome(image, image.headers[i])}

\* load returns Ok: the image is an ELF, every header fits, one has the entry.
Loads(target, image) ==
  /\ image.elf
  /\ Copied(target, image) = LoadHeaders(image)
  /\ Homes(target, image) # {}

\* Mutant: the entry point is taken relative to the image, not to its header.
EntryPhysical_NoBase(target, image) == image.entry - image.headers[1].vaddr + target.base

\* The last header that is home to the entry point decides.
EntryPhysical(target, image) ==
  image.entry - image.headers[Max(Homes(target, image))].vaddr + target.base

\* The byte of the image that is at address a once load is done: the last copy
\* counts.  Only for addresses some copy reaches.
ByteAt(target, image, a) ==
  LET reaching == {i \in Copied(target, image) : a \in Destination(target, image.headers[i])}
      h == image.headers[Max(reaching)]
  IN  h.offset + (a - (h.paddr + target.base))

=============================================================================
