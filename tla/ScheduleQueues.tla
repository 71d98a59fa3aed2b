--------------------------- MODULE ScheduleQueues ---------------------------
(***************************************************************************)
(* The two-level queues of virtual cores of scheduler.rs: one instance is  *)
(* shared by all physical cores (GLOBAL_QUEUES), one belongs to each       *)
(* physical core.  The operations are operators on the struct's value; the *)
(* modules that own a queue say under which lock they are applied.         *)
(*                                                                         *)
(* ScheduleQueues::run is the only code that writes high_timeslices after  *)
(* new(), and nothing in the hypervisor calls it: run_next() calls         *)
(* pcore::context_switch directly.                                         *)
(***************************************************************************)
EXTENDS Naturals, Sequences, Functions

CONSTANTS
  HIGH_PRIO_TIMESLICES_MAX,  \* high-priority slices before a normal core is due
  None                       \* Rust's None

ASSUME TimeslicesAssumption == HIGH_PRIO_TIMESLICES_MAX \in Nat

Priority == {"High", "Normal"}

\* ScheduleQueues::new
EmptyQueues == [high |-> <<>>, low |-> <<>>, high_timeslices |-> 0]

\* ScheduleQueues::queue: to the back of the queue of its priority.
Enqueue(q, vcore) ==
  IF vcore.priority = "High"
  THEN [q EXCEPT !.high = Append(q.high, vcore)]
  ELSE [q EXCEPT !.low  = Append(q.low, vcore)]

\* ScheduleQueues::total_queued
TotalQueued(q) == Len(q.high) + Len(q.low)

\* Mutant: the count of slices is compared the wrong way round.
PopsLow_Inverted(q) ==
  \/ q.high_timeslices <= HIGH_PRIO_TIMESLICES_MAX /\ q.low # <<>>
  \/ q.high = <<>>

\* The branch of dequeue that pops the normal queue: it is due, or there is
\* nothing of high priority.
PopsLow(q) ==
  \/ q.high_timeslices > HIGH_PRIO_TIMESLICES_MAX /\ q.low # <<>>
  \/ q.high = <<>>

\* ScheduleQueues::dequeue of queues that are not empty: the virtual core it
\* returns, and the queues it leaves.
Dequeued(q) == IF PopsLow(q) THEN Head(q.low) ELSE Head(q.high)

\* Mutant: the virtual core is looked at and not taken out.
AfterDequeue_Peek(q) == q

AfterDequeue(q) ==
  IF PopsLow(q)
  THEN [q EXCEPT !.low  = Tail(q.low)]
  ELSE [q EXCEPT !.high = Tail(q.high)]

-----------------------------------------------------------------------------
\* Vocabulary of the properties.
Queued(q) == Range(q.high) \cup Range(q.low)

QueuesType(V) == [high : Seq(V), low : Seq(V), high_timeslices : Nat]

\* No virtual core is queued twice, and each waits in the queue of its priority.
WellQueued(q) ==
  /\ IsInjective(q.high) /\ IsInjective(q.low)
  /\ \A v \in Range(q.high) : v.priority = "High"
  /\ \A v \in Range(q.low)  : v.priority # "High"
=============================================================================
