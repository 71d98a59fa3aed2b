----------------------------- MODULE Exhaustion -----------------------------
(***************************************************************************)
(* The console of module Locks when the heap runs out while the debug      *)
(* queue grows: nothing bounds the queue, which only housekeeping and      *)
(* unhandled exceptions drain, and the memory for its text comes from the  *)
(* heap of the core that prints.                                           *)
(***************************************************************************)
EXTENDS Locks

\* HVallocator::alloc prints when the heap has no block, and returns null; Rust
\* then calls kalloc_error, which prints and halts the core.
ReportFailure == hvprint

kalloc_error == hvprint \o Stop

\* push_str finds no memory for the longer text, with the guard on DEBUG_QUEUE held.
AllocFails(p) ==
  /\ At(p, "push")
  /\ holder["DEBUG_QUEUE"] = None
  /\ holder' = [holder EXCEPT !["DEBUG_QUEUE"] = p]
  /\ Continue(p, ReportFailure \o kalloc_error)
  /\ UNCHANGED <<thread, irqs, hardware, owner, initDone, queue, written, resumed>>

ExhaustionNext == Next \/ \E p \in Cores : AllocFails(p)

ExhaustionSpec ==
  /\ Init /\ [][ExhaustionNext]_vars
  /\ \A p \in Cores : SF_vars(Step(p) \/ AllocFails(p))

\* A core that fails to allocate memory reports it and halts, as the messages
\* of HVallocator::alloc and kalloc_error say ("Halting...").
FailureReported ==
  \A p \in Cores :
    holder["DEBUG_QUEUE"] = p /\ code[p] = ReportFailure \o kalloc_error ~> At(p, "stop")

=============================================================================
