------------------------------ MODULE RamPool -------------------------------
(***************************************************************************)
(* What physmem.rs promises its callers: a pool of RAM, address by         *)
(* address.  A region that is handed out is taken from the free addresses  *)
(* and is its holder's alone until it is given back.  How the free RAM is  *)
(* kept, cut and glued together again is not seen from outside.            *)
(***************************************************************************)
EXTENDS Naturals

CONSTANT Top   \* every address is below Top

Region == [base : 0 .. Top, size : 1 .. Top]

\* The addresses of a region.
Addresses(r) == {a \in 0 .. Top - 1 : r.base <= a /\ a < r.base + r.size}

VARIABLES
  free,   \* the free addresses
  held    \* the regions that are handed out

poolVars == <<free, held>>

Init == free = {} /\ held = {}

\* RAM that was not known before becomes available.
Register(r) ==
  /\ Addresses(r) \cap free = {}
  /\ \A h \in held : Addresses(r) \cap Addresses(h) = {}
  /\ free' = free \cup Addresses(r)
  /\ UNCHANGED held

Alloc(r) ==
  /\ Addresses(r) \subseteq free
  /\ r \notin held
  /\ free' = free \ Addresses(r)
  /\ held' = held \cup {r}

Dealloc(r) ==
  /\ r \in held
  /\ held' = held \ {r}
  /\ free' = free \cup Addresses(r)

Next == \E r \in Region : r.base + r.size <= Top /\ (Register(r) \/ Alloc(r) \/ Dealloc(r))

Spec == Init /\ [][Next]_poolVars
=============================================================================
