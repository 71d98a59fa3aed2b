---------------------------- MODULE Interrupted -----------------------------
(***************************************************************************)
(* hvmain of module Locks with the interrupts on that it assumes to be on  *)
(* ("Assumes hardware and exception interrupts are enabled and handlers    *)
(* installed"): one that is not the timer's may come before the timer is   *)
(* on, between any two steps of hvmain.  At most one does on each core.    *)
(***************************************************************************)
EXTENDS Locks

VARIABLE hvmainIRQs   \* whether a core has still to take its interrupt in hvmain

allVars == <<vars, hvmainIRQs>>

InterruptedInit == Init /\ hvmainIRQs = [p \in Cores |-> TRUE]

\* The handler runs on hvmain's stack, and hvmain goes on when it is done.
InterruptHvmain(p) ==
  /\ hvmainIRQs[p]
  /\ code[p] # <<>>
  /\ hvmainIRQs' = [hvmainIRQs EXCEPT ![p] = FALSE]
  /\ \E h \in interrupt : Continue(p, h \o code[p])
  /\ UNCHANGED <<thread, irqs, holder, hardware, owner, initDone, queue, written, resumed>>

\* A core with its timer on has left this part of hvmain.
LocksStep ==
  /\ Next
  /\ hvmainIRQs' = [p \in Cores |-> hvmainIRQs[p] /\ ~irqs'[p]]

InterruptedNext == LocksStep \/ \E p \in Cores : InterruptHvmain(p)

InterruptedSpec ==
  /\ InterruptedInit /\ [][InterruptedNext]_allVars
  /\ \A p \in Cores : SF_allVars(LocksStep /\ Step(p))

\* hvmain sets the core up and falls through to the idle loop, with the interrupts
\* on that its comment asks for (main.rs: "return to infinite loop, waiting for
\* interrupts"): it gets to turn the timer on, unless the set-up fails or the core
\* waits for another one to finish it.
HvmainReturns ==
  \A p \in Cores : <>(irqs[p] \/ At(p, "stop") \/ At(p, "await"))

=============================================================================
