------------------------------ MODULE MCPhysMem -----------------------------
(***************************************************************************)
(* An instance of CapsuleMemory for TLC: three sections of RAM, listed out *)
(* of order, two of which adjoin; and images of one, two or three headers, *)
(* with the entry point in each of them or in none.                        *)
(***************************************************************************)
EXTENDS CapsuleMemory, TLC

MCSections ==
  <<[base |-> 8, size |-> 6], [base |-> 0, size |-> 7], [base |-> 14, size |-> 5]>>

Header(type, offset, vaddr, paddr, filesz, memsz) ==
  [type |-> type, offset |-> offset, vaddr |-> vaddr, paddr |-> paddr, filesz |-> filesz, memsz |-> memsz]

Text == {Header("load", offset, 40, paddr, filesz, 2) : offset \in {0, 1}, paddr \in {0, 1}, filesz \in {1, 2}}
Data == {Header("load", 2, 50, paddr, 1, memsz) : paddr \in {1, 2}, memsz \in {1, 2}}
Note == Header("other", 0, 40, 0, 8, 8)
Bad == Header("bad", 0, 40, 0, 8, 8)

MCHeaders ==
  {<<t>> : t \in Text} \cup {<<t, d>> : t \in Text, d \in Data} \cup {<<d, t>> : d \in Data, t \in Text}
    \cup {<<Note, t, Bad>> : t \in Text} \cup {<<t, Bad, d>> : t \in Text, d \in Data}

MCImages ==
  {[elf |-> TRUE, entry |-> e, headers |-> hs] : e \in {41, 50}, hs \in MCHeaders}
    \cup {[elf |-> FALSE, entry |-> 0, headers |-> <<>>]}
=============================================================================
