---------------------------- MODULE LocksProofs -----------------------------
(***************************************************************************)
(* The spin locks, the debug console and the lock on the hardware, for any *)
(* number of cores and any interleaving of hvmain and the handlers.        *)
(*                                                                         *)
(* What a core has yet to do is a sequence of steps, and the proof reads   *)
(* it as a program: Runs(s, u, v) says that s takes a core from state u to *)
(* state v, where a state is the locks the core holds and how far it is in *)
(* a line of text or with the hardware.  Sequences that run can be put one *)
(* after the other and inside a lock, so that each handler runs because    *)
(* its parts do, and every core always has the rest of a sequence that     *)
(* runs from the state it is in.                                           *)
(***************************************************************************)
EXTENDS Locks, SequenceTheorems, TLAPS

\* The provers a leaf that names none is tried with, in this order.
USE SMTT(20), ZenonT(60), Z3T(60), SMTT(40)

-----------------------------------------------------------------------------
(* States of a core, and what its steps do to them. *)

\* Where the core is: nowhere in particular, between the pieces of a line, with
\* HARDWARE locked (to read something or start the timer, to drain the queue),
\* before or after the text is written, with the timer on, after the last step
\* of hvmain.
Modes == {"idle", "line", "multiple", "once", "wrote", "sent", "started", "ended"}

States == [held : SUBSET SpinLocks, mode : Modes]

State(locks, m) == [held |-> locks, mode |-> m]

\* All that is held ranks below r, and the core is not in the middle of anything.
Low(u, r) == u \in States /\ u.mode = "idle" /\ \A M \in u.held : Rank[M] < r

With(u, L) == State(u.held \cup {L}, "idle")

Between(u, v, m, n) == u.mode = m /\ v = State(u.held, n)

\* The steps on locks ...
LockEffect(x, u, v) ==
  \E L \in SpinLocks :
    \/ x = Lock(L) /\ Low(u, Rank[L]) /\ v = With(u, L)
    \/ x = Unlock(L) /\ u.mode = "idle" /\ L \in u.held /\ v = State(u.held \ {L}, "idle")
    \/ x = Use(L) /\ Low(u, Rank[L]) /\ v = u

\* ... on the debug queue ...
QueueEffect(x, u, v) ==
  \/ /\ "DEBUG_LOCK" \in u.held /\ \A M \in u.held : Rank[M] < Rank["DEBUG_QUEUE"]
     /\ \/ x = <<"push", "first">> /\ Between(u, v, "idle", "line")
        \/ x = <<"push", "last">> /\ Between(u, v, "line", "idle")
  \/ /\ "DEBUG_QUEUE" \in u.held
     /\ \/ x = Hardware("Once") /\ Between(u, v, "idle", "once")
        \/ x = <<"write", "text">> /\ Between(u, v, "once", "wrote")
        \/ x = Release /\ Between(u, v, "wrote", "sent")
        \/ x = <<"clear", "text">> /\ Between(u, v, "sent", "idle")

\* ... on the hardware ...
HardwareEffect(x, u, v) ==
  \/ x = Hardware("Multiple") /\ Between(u, v, "idle", "multiple")
  \/ x = Release /\ Between(u, v, "multiple", "idle")
  \/ x = <<"start", "timer">> /\ Between(u, v, "multiple", "started")
  \/ x = Release /\ Between(u, v, "started", "ended")

Quiet == State({}, "idle")

\* ... and those that a core takes while it holds nothing.
Others == {<<"publish", "INIT_DONE">>, <<"await", "INIT_DONE">>, <<"stop", "forever">>,
           <<"run_next", "may return">>, <<"run_next", "must switch">>}

Effect(x, u, v) ==
  \/ LockEffect(x, u, v) \/ QueueEffect(x, u, v) \/ HardwareEffect(x, u, v)
  \/ x \in Others /\ u = Quiet /\ v = Quiet

\* s takes a core from state u to state v, through the states of a.
RunsThrough(s, a, u, v) ==
  /\ a \in [1 .. Len(s) + 1 -> States]
  /\ a[1] = u /\ a[Len(s) + 1] = v
  /\ \A i \in 1 .. Len(s) : Effect(s[i], a[i], a[i + 1])

Runs(s, u, v) ==
  s \in Seq(Steps) /\ \E a \in [1 .. Len(s) + 1 -> States] : RunsThrough(s, a, u, v)

-----------------------------------------------------------------------------
(* Sequences that run. *)

LEMMA RunsEmpty ==
  ASSUME NEW u \in States
  PROVE  Runs(<<>>, u, u)
<1> DEFINE a == [i \in 1 .. 1 |-> u]
<1>1. <<>> \in Seq(Steps) /\ Len(<<>>) = 0
  BY EmptySeq
<1>2. RunsThrough(<<>>, a, u, u)
  BY <1>1 DEF RunsThrough
<1>3. QED BY ZenonT(60), <1>1, <1>2 DEF Runs, RunsThrough

LEMMA RunsStates ==
  ASSUME NEW s, NEW u, NEW v, Runs(s, u, v)
  PROVE  u \in States /\ v \in States /\ s \in Seq(Steps)
BY DEF Runs, RunsThrough

LEMMA EmptyRuns ==
  ASSUME NEW u, NEW v, Runs(<<>>, u, v)
  PROVE  u = v
BY EmptySeq DEF Runs, RunsThrough

LEMMA RunsStep ==
  ASSUME NEW x \in Steps, NEW u \in States, NEW v \in States, Effect(x, u, v)
  PROVE  Runs(<<x>>, u, v)
<1> DEFINE a == [i \in 1 .. 2 |-> IF i = 1 THEN u ELSE v]
<1>1. <<x>> \in Seq(Steps) /\ Len(<<x>>) = 1 /\ <<x>>[1] = x
  OBVIOUS
<1> HIDE DEF Effect
<1>2. RunsThrough(<<x>>, a, u, v)
  BY <1>1 DEF RunsThrough
<1>3. QED BY ZenonT(60), <1>1, <1>2 DEF Runs, RunsThrough

\* One after the other.
LEMMA RunsConcat ==
  ASSUME NEW s, NEW t, NEW u, NEW v, NEW w, Runs(s, u, v), Runs(t, v, w)
  PROVE  Runs(s \o t, u, w)
<1>1. PICK a \in [1 .. Len(s) + 1 -> States] : RunsThrough(s, a, u, v)
  BY DEF Runs
<1>2. PICK b \in [1 .. Len(t) + 1 -> States] : RunsThrough(t, b, v, w)
  BY DEF Runs
<1>3. /\ s \in Seq(Steps) /\ t \in Seq(Steps) /\ Len(s) \in Nat /\ Len(t) \in Nat
  BY LenProperties DEF Runs
<1>4. /\ s \o t \in Seq(Steps) /\ Len(s \o t) = Len(s) + Len(t)
      /\ \A i \in 1 .. Len(s) + Len(t) :
           (s \o t)[i] = IF i <= Len(s) THEN s[i] ELSE t[i - Len(s)]
  BY ConcatProperties, <1>3
<1> DEFINE c == [i \in 1 .. Len(s) + Len(t) + 1 |-> IF i <= Len(s) THEN a[i] ELSE b[i - Len(s)]]
<1>5. c \in [1 .. Len(s) + Len(t) + 1 -> States]
  BY <1>1, <1>2, <1>3
<1>6. c[1] = u /\ c[Len(s) + Len(t) + 1] = w
  BY <1>1, <1>2, <1>3 DEF RunsThrough
<1>7. ASSUME NEW i \in 1 .. Len(s) + Len(t) PROVE Effect((s \o t)[i], c[i], c[i + 1])
  <2>1. CASE i < Len(s)
    <3>1. (s \o t)[i] = s[i] /\ c[i] = a[i] /\ c[i + 1] = a[i + 1] /\ i \in 1 .. Len(s)
      BY <1>3, <1>4, <2>1
    <3>2. QED BY <1>1, <3>1 DEF RunsThrough
  <2>2. CASE i = Len(s)
    <3>1. (s \o t)[i] = s[i] /\ c[i] = a[i] /\ c[i + 1] = b[1] /\ i \in 1 .. Len(s)
      BY <1>3, <1>4, <2>2
    <3>2. b[1] = a[i + 1]
      BY <1>1, <1>2, <2>2 DEF RunsThrough
    <3>3. QED BY <1>1, <3>1, <3>2 DEF RunsThrough
  <2>3. CASE i > Len(s)
    <3> DEFINE j == i - Len(s)
    <3>1. j \in 1 .. Len(t) /\ (s \o t)[i] = t[j] /\ c[i] = b[j] /\ c[i + 1] = b[j + 1]
      BY <1>3, <1>4, <2>3
    <3> HIDE DEF j
    <3>2. QED BY <1>2, <3>1 DEF RunsThrough
  <2>4. QED BY <1>3, <2>1, <2>2, <2>3
<1> HIDE DEF c
<1>8. RunsThrough(s \o t, c, u, w)
  BY ZenonT(60), <1>4, <1>5, <1>6, <1>7 DEF RunsThrough
<1>9. QED BY <1>4, <1>5, <1>8 DEF Runs

\* A core in the middle of a sequence takes its first step, and then has the rest.
LEMMA RunsHead ==
  ASSUME NEW s, NEW u, NEW w, Runs(s, u, w), s # <<>>
  PROVE  \E v \in States : Effect(Head(s), u, v) /\ Runs(Tail(s), v, w)
<1>1. PICK a \in [1 .. Len(s) + 1 -> States] : RunsThrough(s, a, u, w)
  BY DEF Runs
<1>2. s \in Seq(Steps) /\ Len(s) \in Nat \ {0} /\ Head(s) = s[1]
  BY EmptySeq DEF Runs
<1>3. /\ Tail(s) \in Seq(Steps) /\ Len(Tail(s)) = Len(s) - 1
      /\ \A i \in 1 .. Len(Tail(s)) : Tail(s)[i] = s[i + 1]
  BY <1>2, HeadTailProperties
<1> DEFINE b == [i \in 1 .. Len(s) |-> a[i + 1]]
<1>4. b \in [1 .. Len(Tail(s)) + 1 -> States] /\ b[1] = a[2] /\ b[Len(Tail(s)) + 1] = w
  BY <1>1, <1>2, <1>3 DEF RunsThrough
<1>5. ASSUME NEW i \in 1 .. Len(Tail(s)) PROVE Effect(Tail(s)[i], b[i], b[i + 1])
  <2>1. /\ Tail(s)[i] = s[i + 1] /\ b[i] = a[i + 1] /\ b[i + 1] = a[i + 2]
        /\ i + 1 \in 1 .. Len(s) /\ i + 2 = (i + 1) + 1
    BY <1>2, <1>3
  <2>2. QED BY <1>1, <2>1 DEF RunsThrough
<1> HIDE DEF b
<1>6. Runs(Tail(s), a[2], w)
  BY <1>3, <1>4, <1>5 DEF Runs, RunsThrough
<1>7. Effect(Head(s), u, a[2]) /\ a[2] \in States
  <2>1. 1 \in 1 .. Len(s) /\ 1 + 1 = 2 /\ 2 \in 1 .. Len(s) + 1
    BY <1>2
  <2>2. QED BY <1>1, <1>2, <2>1 DEF RunsThrough
<1>8. QED BY <1>6, <1>7

-----------------------------------------------------------------------------
(* The steps one by one. *)

LEMMA Ranks ==
  /\ Rank["GLOBAL_QUEUES"] = 1 /\ Rank["WORKLOAD"] = 2 /\ Rank["VCORES"] = 3
  /\ Rank["CAPSULE_ID_NEXT"] = 3 /\ Rank["CAPSULES"] = 4 /\ Rank["PCORES"] = 5
  /\ Rank["REGIONS"] = 5 /\ Rank["SERVICES"] = 5 /\ Rank["MAILBOXES"] = 5
  /\ Rank["DEBUG_LOCK"] = 6 /\ Rank["DEBUG_QUEUE"] = 7
  /\ \A L \in SpinLocks : Rank[L] \in 1 .. 7
<1>1. Rank["GLOBAL_QUEUES"] = 1 /\ Rank["WORKLOAD"] = 2 /\ Rank["VCORES"] = 3
  BY DEF Rank, SpinLocks
<1>2. Rank["CAPSULE_ID_NEXT"] = 3 /\ Rank["CAPSULES"] = 4 /\ Rank["PCORES"] = 5
  BY DEF Rank, SpinLocks
<1>3. Rank["REGIONS"] = 5 /\ Rank["SERVICES"] = 5 /\ Rank["MAILBOXES"] = 5
  BY DEF Rank, SpinLocks
<1>4. Rank["DEBUG_LOCK"] = 6 /\ Rank["DEBUG_QUEUE"] = 7
  BY DEF Rank, SpinLocks
<1>5. QED BY <1>1, <1>2, <1>3, <1>4 DEF SpinLocks

LEMMA StepTypes ==
  /\ \A L \in SpinLocks : Lock(L) \in Steps /\ Unlock(L) \in Steps /\ Use(L) \in Steps
  /\ Hardware("Once") \in Steps /\ Hardware("Multiple") \in Steps /\ Release \in Steps
  /\ Others \subseteq Steps
  /\ <<"push", "first">> \in Steps /\ <<"push", "last">> \in Steps
  /\ <<"write", "text">> \in Steps /\ <<"clear", "text">> \in Steps /\ <<"start", "timer">> \in Steps
<1>1. \A L \in SpinLocks : Lock(L) \in Steps /\ Unlock(L) \in Steps /\ Use(L) \in Steps
  BY ZenonT(60) DEF Lock, Unlock, Use, Steps
<1>2. Hardware("Once") \in Steps /\ Hardware("Multiple") \in Steps /\ Release \in Steps
  BY ZenonT(60) DEF Hardware, Release, Steps
<1>3. /\ <<"publish", "INIT_DONE">> \in Steps /\ <<"await", "INIT_DONE">> \in Steps
      /\ <<"stop", "forever">> \in Steps /\ <<"run_next", "may return">> \in Steps
      /\ <<"run_next", "must switch">> \in Steps
  BY ZenonT(60) DEF Steps
<1>4. /\ <<"push", "first">> \in Steps /\ <<"push", "last">> \in Steps
      /\ <<"write", "text">> \in Steps /\ <<"clear", "text">> \in Steps
      /\ <<"start", "timer">> \in Steps
  BY ZenonT(60) DEF Steps
<1>5. QED BY ZenonT(60), <1>1, <1>2, <1>3, <1>4 DEF Others

\* Within a lock of rank r, locks above r can be taken.
LEMMA LowWith ==
  ASSUME NEW u, NEW L \in SpinLocks, Low(u, Rank[L]), NEW r \in Nat, Rank[L] < r
  PROVE  Low(With(u, L), r) /\ With(u, L) \in States
<1>1. \A M \in SpinLocks : Rank[M] \in Nat
  BY Ranks
<1>2. With(u, L) \in States /\ With(u, L).mode = "idle" /\ With(u, L).held = u.held \cup {L}
  BY DEF With, State, States, Low, Modes
<1>3. \A M \in u.held \cup {L} : Rank[M] < r
  BY <1>1 DEF Low, States
<1>4. QED BY <1>2, <1>3 DEF Low

LEMMA LowQuiet == \A r : Low(Quiet, r) /\ Quiet \in States
BY DEF Low, Quiet, State, States, Modes

\* A lock that is taken and released around s.
LEMMA RunsWithin ==
  ASSUME NEW u, NEW L \in SpinLocks, Low(u, Rank[L]), NEW s, Runs(s, With(u, L), With(u, L))
  PROVE  Runs(Within(L, s), u, u)
<1>1. u \in States /\ With(u, L) \in States
  BY RunsStates DEF Low
<1>2. Runs(<<Lock(L)>>, u, With(u, L))
  <2>1. Effect(Lock(L), u, With(u, L))
    BY DEF Effect, LockEffect
  <2>2. QED BY <1>1, <2>1, RunsStep, StepTypes
<1>3. Runs(<<Unlock(L)>>, With(u, L), u)
  <2>1. L \notin u.held
    BY Ranks DEF Low
  <2>2. /\ With(u, L).mode = "idle" /\ With(u, L).held = u.held \cup {L}
        /\ u = State((u.held \cup {L}) \ {L}, "idle")
    BY <2>1 DEF With, State, Low, States
  <2>3. Effect(Unlock(L), With(u, L), u)
    BY ZenonT(60), <2>2 DEF Effect, LockEffect
  <2>4. QED BY <1>1, <2>3, RunsStep, StepTypes
<1>4. Runs(<<Lock(L)>> \o s, u, With(u, L))
  BY <1>2, RunsConcat
<1>5. QED BY <1>3, <1>4, RunsConcat DEF Within

LEMMA RunsUse ==
  ASSUME NEW u, NEW L \in SpinLocks, Low(u, Rank[L])
  PROVE  Runs(<<Use(L)>>, u, u)
<1>1. Effect(Use(L), u, u)
  BY DEF Effect, LockEffect
<1>2. QED BY <1>1, RunsStep, StepTypes DEF Low

LEMMA RunsOther ==
  ASSUME NEW x \in Others
  PROVE  Runs(<<x>>, Quiet, Quiet)
<1>1. Effect(x, Quiet, Quiet)
  BY DEF Effect
<1>2. QED BY <1>1, RunsStep, StepTypes, LowQuiet

LEMMA RunsUseHardware ==
  ASSUME NEW u \in States, u.mode = "idle"
  PROVE  Runs(UseHardware, u, u)
<1> DEFINE v == State(u.held, "multiple")
<1>1. v \in States /\ v.held = u.held /\ v.mode = "multiple" /\ u = State(v.held, "idle")
  BY DEF State, States, Modes
<1>2. Effect(Hardware("Multiple"), u, v)
  BY DEF Effect, HardwareEffect, Between
<1>3. Effect(Release, v, u)
  BY <1>1 DEF Effect, HardwareEffect, Between
<1> HIDE DEF v
<1>4. Runs(<<Hardware("Multiple")>> \o <<Release>>, u, u)
  BY <1>1, <1>2, <1>3, RunsStep, RunsConcat, StepTypes
<1>5. UseHardware = <<Hardware("Multiple")>> \o <<Release>>
  BY DEF UseHardware
<1>6. QED BY <1>4, <1>5

\* The two pieces of a line.
LEMMA RunsPieces ==
  ASSUME NEW u, Low(u, 7), "DEBUG_LOCK" \in u.held
  PROVE  Runs(Pieces, u, u)
<1> DEFINE v == State(u.held, "line")
<1>1. /\ u \in States /\ v \in States /\ v.held = u.held /\ v.mode = "line"
      /\ u.mode = "idle" /\ u = State(v.held, "idle")
  BY DEF State, States, Modes, Low
<1>2. Effect(<<"push", "first">>, u, v)
  BY <1>1, Ranks DEF Effect, QueueEffect, Between, Low
<1>3. Effect(<<"push", "last">>, v, u)
  BY <1>1, Ranks DEF Effect, QueueEffect, Between, Low
<1> HIDE DEF v
<1>4. Runs(<<<<"push", "first">>>> \o <<<<"push", "last">>>>, u, u)
  BY <1>1, <1>2, <1>3, RunsStep, RunsConcat, StepTypes
<1>5. Pieces = <<<<"push", "first">>>> \o <<<<"push", "last">>>>
  BY DEF Pieces
<1>6. QED BY <1>4, <1>5

LEMMA RunsHvprint ==
  ASSUME NEW u, Low(u, 6)
  PROVE  Runs(hvprint, u, u)
<1>1. "DEBUG_LOCK" \in SpinLocks /\ Low(u, Rank["DEBUG_LOCK"])
  BY Ranks DEF SpinLocks
<1>2. Low(With(u, "DEBUG_LOCK"), 7) /\ "DEBUG_LOCK" \in With(u, "DEBUG_LOCK").held
  BY <1>1, LowWith, Ranks DEF With, State
<1>3. QED BY <1>1, <1>2, RunsPieces, RunsWithin DEF hvprint

LEMMA RunsTimerStart == Runs(scheduler_timer_start, Quiet, State({}, "ended"))
<1> DEFINE a == State({}, "multiple")
           b == State({}, "started")
           c == State({}, "ended")
<1>1. a \in States /\ b \in States /\ c \in States
  BY DEF State, States, Modes
<1>2. Effect(Hardware("Multiple"), Quiet, a) /\ Effect(<<"start", "timer">>, a, b) /\ Effect(Release, b, c)
  BY DEF Effect, HardwareEffect, Between, State, Quiet
<1> HIDE DEF a, b, c
<1>3. Runs(<<Hardware("Multiple")>> \o <<<<"start", "timer">>>>, Quiet, b)
  BY <1>1, <1>2, RunsStep, RunsConcat, StepTypes, LowQuiet
<1>4. Runs((<<Hardware("Multiple")>> \o <<<<"start", "timer">>>>) \o <<Release>>, Quiet, c)
  BY <1>1, <1>2, <1>3, RunsStep, RunsConcat, StepTypes
<1>5. scheduler_timer_start = (<<Hardware("Multiple")>> \o <<<<"start", "timer">>>>) \o <<Release>>
  BY DEF scheduler_timer_start
<1>6. QED BY <1>4, <1>5 DEF c

LEMMA RunsDrainQueue == Runs(drain_queue, Quiet, Quiet)
<1> DEFINE u == With(Quiet, "DEBUG_QUEUE")
           a == State(u.held, "once")
           b == State(u.held, "wrote")
           c == State(u.held, "sent")
<1>1. u.held = {"DEBUG_QUEUE"} /\ u.mode = "idle" /\ u = State({"DEBUG_QUEUE"}, "idle")
  BY DEF With, Quiet, State
<1>2. u \in States /\ a \in States /\ b \in States /\ c \in States
  BY <1>1 DEF State, States, Modes, SpinLocks
<1>3. Effect(Hardware("Once"), u, a)
  BY <1>1 DEF Effect, QueueEffect, Between
<1>4. Effect(<<"write", "text">>, a, b)
  BY <1>1 DEF Effect, QueueEffect, Between, State
<1>5. Effect(Release, b, c)
  BY <1>1 DEF Effect, QueueEffect, Between, State
<1>6. Effect(<<"clear", "text">>, c, u)
  BY <1>1 DEF Effect, QueueEffect, Between, State
<1> HIDE DEF u, a, b, c
<1>7. Runs(<<Hardware("Once")>> \o <<<<"write", "text">>>>, u, b)
  BY <1>2, <1>3, <1>4, RunsStep, RunsConcat, StepTypes
<1>8. Runs(<<Release>> \o <<<<"clear", "text">>>>, b, u)
  BY <1>2, <1>5, <1>6, RunsStep, RunsConcat, StepTypes
<1> DEFINE body == <<Hardware("Once"), <<"write", "text">>, Release, <<"clear", "text">>>>
<1>9. body = (<<Hardware("Once")>> \o <<<<"write", "text">>>>) \o (<<Release>> \o <<<<"clear", "text">>>>)
  OBVIOUS
<1>10. Runs(body, u, u)
  BY ZenonT(60), <1>7, <1>8, <1>9, RunsConcat
<1>11. "DEBUG_QUEUE" \in SpinLocks /\ Low(Quiet, Rank["DEBUG_QUEUE"])
  BY LowQuiet DEF SpinLocks
<1> HIDE DEF body
<1>12. Runs(Within("DEBUG_QUEUE", body), Quiet, Quiet)
  BY <1>10, <1>11, RunsWithin DEF u
<1>13. QED BY <1>12 DEF drain_queue, body

-----------------------------------------------------------------------------
(* The handlers and hvmain. *)

LEMMA RunsUseTwo ==
  ASSUME NEW u, NEW L \in SpinLocks, NEW M \in SpinLocks, Low(u, Rank[L]), Low(u, Rank[M])
  PROVE  Runs(<<Use(L), Use(M)>>, u, u)
<1>1. Runs(<<Use(L)>> \o <<Use(M)>>, u, u)
  BY RunsUse, RunsConcat
<1>2. <<Use(L), Use(M)>> = <<Use(L)>> \o <<Use(M)>>
  OBVIOUS
<1>3. QED BY ZenonT(60), <1>1, <1>2

\* What holds only locks below r holds only locks below any higher rank.
LEMMA LowHigher ==
  ASSUME NEW u, NEW r \in Nat, NEW t \in Nat, r <= t, Low(u, r)
  PROVE  Low(u, t)
<1>1. \A M \in SpinLocks : Rank[M] \in Nat
  BY Ranks
<1>2. QED BY <1>1 DEF Low, States

\* A line printed inside a lock.
LEMMA RunsHvprintWithin ==
  ASSUME NEW u, NEW L \in SpinLocks, Low(u, Rank[L]), Rank[L] < 6
  PROVE  Runs(hvprint, With(u, L), With(u, L))
<1>1. Low(With(u, L), 6)
  BY LowWith
<1>2. QED BY <1>1, RunsHvprint

LEMMA RunsEnforce ==
  ASSUME NEW u, Low(u, 4), NEW e \in enforce
  PROVE  Runs(e, u, u)
<1>1. "CAPSULES" \in SpinLocks /\ Low(u, Rank["CAPSULES"]) /\ Rank["CAPSULES"] = 4
  BY Ranks DEF SpinLocks
<1>2. Runs(Within("CAPSULES", hvprint), u, u)
  BY <1>1, RunsHvprintWithin, RunsWithin
<1>3. Runs(<<Use("CAPSULES")>>, u, u)
  BY <1>1, RunsUse
<1>4. QED BY <1>2, <1>3 DEF enforce

LEMMA RunsContextSwitch ==
  ASSUME NEW u, Low(u, 3), NEW s \in context_switch
  PROVE  Runs(s, u, u)
<1>1. PICK e \in enforce \cup {<<>>} :
        s = Within("VCORES", hvprint \o e) \o <<Use("PCORES"), Use("VCORES")>>
  BY ZenonT(60) DEF context_switch
<1>2. /\ "VCORES" \in SpinLocks /\ Rank["VCORES"] = 3 /\ Low(u, Rank["VCORES"])
      /\ "PCORES" \in SpinLocks /\ Rank["PCORES"] = 5
  BY Ranks DEF SpinLocks
<1>3. Low(u, Rank["PCORES"])
  BY <1>2, LowHigher
<1> DEFINE v == With(u, "VCORES")
<1>4. Low(v, 4) /\ v \in States
  BY <1>2, LowWith
<1>5. Runs(hvprint, v, v)
  BY <1>2, RunsHvprintWithin
<1> HIDE DEF v
<1>6. Runs(e, v, v)
  <2>1. CASE e \in enforce
    BY <1>4, <2>1, RunsEnforce
  <2>2. CASE e = <<>>
    BY <1>4, <2>2, RunsEmpty
  <2>3. QED BY <1>1, <2>1, <2>2
<1>7. Runs(hvprint \o e, v, v)
  BY <1>5, <1>6, RunsConcat
<1>8. Runs(Within("VCORES", hvprint \o e), u, u)
  BY <1>2, <1>7, RunsWithin DEF v
<1>9. Runs(<<Use("PCORES"), Use("VCORES")>>, u, u)
  BY <1>2, <1>3, RunsUseTwo
<1>10. QED BY <1>1, <1>8, <1>9, RunsConcat

LEMMA RunsSwitches ==
  ASSUME NEW s \in Switches
  PROVE  Runs(s, Quiet, Quiet)
<1>1. /\ "GLOBAL_QUEUES" \in SpinLocks /\ "WORKLOAD" \in SpinLocks
      /\ Rank["GLOBAL_QUEUES"] = 1 /\ Rank["WORKLOAD"] = 2
  BY Ranks DEF SpinLocks
<1> DEFINE u == With(Quiet, "GLOBAL_QUEUES")
           v == With(u, "WORKLOAD")
<1>2. Low(Quiet, Rank["GLOBAL_QUEUES"])
  BY LowQuiet
<1>3. Low(u, 2) /\ Low(u, 3)
  BY <1>1, <1>2, LowWith
<1> HIDE DEF u
<1>4. Low(v, 3)
  BY <1>1, <1>3, LowWith
<1> HIDE DEF v
<1>5. ASSUME NEW t \in context_switch PROVE Runs(Within("GLOBAL_QUEUES", t), Quiet, Quiet)
  <2>1. Runs(t, u, u)
    BY <1>3, RunsContextSwitch
  <2>2. QED BY <1>1, <1>2, <2>1, RunsWithin DEF u
<1>6. ASSUME NEW t \in context_switch
      PROVE  Runs(Within("GLOBAL_QUEUES", Within("WORKLOAD", t)), Quiet, Quiet)
  <2>1. Runs(t, v, v)
    BY <1>4, RunsContextSwitch
  <2>2. Runs(Within("WORKLOAD", t), u, u)
    BY <1>1, <1>3, <2>1, RunsWithin DEF v
  <2>3. QED BY <1>1, <1>2, <2>2, RunsWithin DEF u
<1>7. QED BY <1>5, <1>6 DEF Switches

LEMMA RunsUseQuiet ==
  ASSUME NEW L \in SpinLocks
  PROVE  Runs(<<Use(L)>>, Quiet, Quiet)
BY LowQuiet, RunsUse

\* With one lock held, one that ranks above it.
LEMMA RunsUseWithin ==
  ASSUME NEW L \in SpinLocks, NEW M \in SpinLocks, Rank[L] < Rank[M]
  PROVE  Runs(<<Use(M)>>, With(Quiet, L), With(Quiet, L))
<1>1. Rank[M] \in Nat
  BY Ranks
<1>2. Low(With(Quiet, L), Rank[M])
  BY <1>1, LowQuiet, LowWith
<1>3. QED BY <1>2, RunsUse

LEMMA RunsHousekeeping ==
  ASSUME NEW h \in housekeeping
  PROVE  Runs(h, Quiet, Quiet)
<1>1. /\ "GLOBAL_QUEUES" \in SpinLocks /\ "WORKLOAD" \in SpinLocks
      /\ "REGIONS" \in SpinLocks /\ "MAILBOXES" \in SpinLocks
      /\ Rank["GLOBAL_QUEUES"] < Rank["WORKLOAD"] /\ Rank["GLOBAL_QUEUES"] < Rank["MAILBOXES"]
  BY Ranks DEF SpinLocks
<1> DEFINE tails == {<<Use("GLOBAL_QUEUES")>>,
                     Within("GLOBAL_QUEUES", <<Use("WORKLOAD")>>),
                     Within("GLOBAL_QUEUES", <<Use("WORKLOAD"), Use("MAILBOXES")>>)}
           u == With(Quiet, "GLOBAL_QUEUES")
<1>2. PICK t \in tails : h = drain_queue \o <<Use("REGIONS")>> \o t
  BY ZenonT(60) DEF housekeeping
<1>3. Low(Quiet, Rank["GLOBAL_QUEUES"])
  BY LowQuiet
<1>4. Runs(<<Use("WORKLOAD")>>, u, u) /\ Runs(<<Use("MAILBOXES")>>, u, u)
  BY <1>1, RunsUseWithin
<1>5. Runs(<<Use("WORKLOAD"), Use("MAILBOXES")>>, u, u)
  <2>1. Runs(<<Use("WORKLOAD")>> \o <<Use("MAILBOXES")>>, u, u)
    BY <1>4, RunsConcat
  <2>2. <<Use("WORKLOAD"), Use("MAILBOXES")>> = <<Use("WORKLOAD")>> \o <<Use("MAILBOXES")>>
    OBVIOUS
  <2>3. QED BY ZenonT(60), <2>1, <2>2
<1>6. /\ Runs(Within("GLOBAL_QUEUES", <<Use("WORKLOAD")>>), Quiet, Quiet)
      /\ Runs(Within("GLOBAL_QUEUES", <<Use("WORKLOAD"), Use("MAILBOXES")>>), Quiet, Quiet)
  BY <1>1, <1>3, <1>4, <1>5, RunsWithin
<1>7. Runs(<<Use("GLOBAL_QUEUES")>>, Quiet, Quiet) /\ Runs(<<Use("REGIONS")>>, Quiet, Quiet)
  BY <1>1, RunsUseQuiet
<1>8. Runs(t, Quiet, Quiet)
  BY <1>2, <1>6, <1>7
<1>9. Runs(drain_queue \o <<Use("REGIONS")>>, Quiet, Quiet)
  BY <1>7, RunsDrainQueue, RunsConcat
<1>10. QED BY <1>2, <1>8, <1>9, RunsConcat

LEMMA RunsDestroy ==
  ASSUME NEW d \in destroy
  PROVE  Runs(d, Quiet, Quiet)
<1>1. /\ "CAPSULES" \in SpinLocks /\ "REGIONS" \in SpinLocks /\ "SERVICES" \in SpinLocks
      /\ Rank["CAPSULES"] = 4 /\ Rank["REGIONS"] = 5 /\ Rank["SERVICES"] = 5
  BY Ranks DEF SpinLocks
<1> DEFINE u == With(Quiet, "CAPSULES")
<1>2. Low(Quiet, Rank["CAPSULES"]) /\ Low(Quiet, 6)
  BY LowQuiet
<1>3. Runs(hvprint, u, u)
  BY <1>1, <1>2, RunsHvprintWithin
<1>4. Low(u, Rank["REGIONS"]) /\ Low(u, Rank["SERVICES"])
  BY <1>1, <1>2, LowWith
<1> HIDE DEF u
<1>5. Runs(hvprint \o <<Use("REGIONS"), Use("SERVICES")>>, u, u)
  BY <1>1, <1>3, <1>4, RunsUseTwo, RunsConcat
<1>6. Runs(Within("CAPSULES", hvprint \o <<Use("REGIONS"), Use("SERVICES")>>), Quiet, Quiet)
  BY <1>1, <1>2, <1>5, RunsWithin DEF u
<1>7. Runs(<<Use("CAPSULES")>> \o hvprint, Quiet, Quiet)
  BY <1>1, <1>2, RunsUseQuiet, RunsHvprint, RunsConcat
<1>8. QED BY ZenonT(60), <1>6, <1>7 DEF destroy

LEMMA RunsPrint == Runs(hvprint, Quiet, Quiet)
BY LowQuiet, RunsHvprint

LEMMA RunsStop == Runs(Stop, Quiet, Quiet)
BY ZenonT(60), RunsOther DEF Stop, Others

LEMMA RunsRunNext ==
  ASSUME NEW a \in {"may return", "must switch"}
  PROVE  Runs(RunNext(a), Quiet, Quiet)
BY ZenonT(60), RunsOther DEF RunNext, Others

LEMMA RunsHardware == Runs(UseHardware, Quiet, Quiet)
BY LowQuiet, RunsUseHardware DEF Low

LEMMA RunsHandler ==
  ASSUME NEW h \in interrupt \cup exception
  PROVE  Runs(h, Quiet, Quiet)
<1>1. Runs(<<Use("VCORES")>>, Quiet, Quiet)
  BY RunsUseQuiet DEF SpinLocks
<1>2. Runs(<<Use("VCORES")>> \o hvprint, Quiet, Quiet) /\ Runs(hvprint \o <<Use("VCORES")>>, Quiet, Quiet)
  BY <1>1, RunsPrint, RunsConcat
<1>3. ASSUME NEW d \in destroy \cup {hvprint}
      PROVE  Runs(hvprint \o <<Use("VCORES")>> \o d \o RunNext("must switch"), Quiet, Quiet)
  <2>1. Runs(d, Quiet, Quiet)
    BY RunsDestroy, RunsPrint
  <2>2. Runs(hvprint \o <<Use("VCORES")>> \o d, Quiet, Quiet)
    BY <1>2, <2>1, RunsConcat
  <2>3. Runs(RunNext("must switch"), Quiet, Quiet)
    BY ZenonT(60), RunsRunNext
  <2>4. QED BY ZenonT(60), <2>2, <2>3, RunsConcat
<1>4. Runs(hvprint \o drain_queue, Quiet, Quiet)
  BY RunsPrint, RunsDrainQueue, RunsConcat
<1>5. Runs(hvprint \o drain_queue \o Stop, Quiet, Quiet)
  BY <1>4, RunsStop, RunsConcat
<1>6. QED BY ZenonT(60), <1>2, <1>3, <1>4, <1>5, RunsPrint DEF interrupt, exception

LEMMA RunsInit == Runs(init, Quiet, Quiet)
BY RunsUseQuiet DEF init, SpinLocks

LEMMA RunsPhysmemInit == Runs(physmem_init, Quiet, Quiet)
<1>1. "REGIONS" \in SpinLocks /\ Low(Quiet, Rank["REGIONS"]) /\ Rank["REGIONS"] < 6
  BY Ranks, LowQuiet DEF SpinLocks
<1>2. Runs(Within("REGIONS", hvprint), Quiet, Quiet)
  BY <1>1, RunsHvprintWithin, RunsWithin
<1>3. Runs(UseHardware \o UseHardware, Quiet, Quiet)
  BY RunsHardware, RunsConcat
<1>4. QED BY <1>2, <1>3, RunsConcat DEF physmem_init

LEMMA RunsWelcome == Runs(Welcome, Quiet, Quiet)
<1>1. "DEBUG_LOCK" \in SpinLocks /\ Low(Quiet, Rank["DEBUG_LOCK"]) /\ Rank["DEBUG_LOCK"] < 7
  BY Ranks, LowQuiet DEF SpinLocks
<1> DEFINE u == With(Quiet, "DEBUG_LOCK")
<1>2. Low(u, 7) /\ "DEBUG_LOCK" \in u.held /\ u \in States /\ u.mode = "idle"
  BY <1>1, LowWith DEF With, State
<1> HIDE DEF u
<1>3. Runs(UseHardware \o Pieces, u, u)
  BY <1>2, RunsUseHardware, RunsPieces, RunsConcat
<1>4. Runs(Within("DEBUG_LOCK", UseHardware \o Pieces), Quiet, Quiet)
  BY <1>1, <1>3, RunsWithin DEF u
<1>5. QED BY <1>4, RunsPrint, RunsConcat DEF Welcome

LEMMA RunsReserve == Runs(reserve, Quiet, Quiet)
<1>1. /\ "CAPSULE_ID_NEXT" \in SpinLocks /\ "CAPSULES" \in SpinLocks /\ "REGIONS" \in SpinLocks
      /\ Rank["CAPSULE_ID_NEXT"] < Rank["CAPSULES"] /\ Low(Quiet, Rank["CAPSULE_ID_NEXT"])
  BY Ranks, LowQuiet DEF SpinLocks
<1>2. Runs(Within("CAPSULE_ID_NEXT", <<Use("CAPSULES")>>), Quiet, Quiet)
  BY <1>1, RunsUseWithin, RunsWithin
<1>3. Runs(<<Use("REGIONS")>>, Quiet, Quiet)
  BY <1>1, RunsUseQuiet
<1>4. QED BY <1>2, <1>3, RunsConcat DEF reserve

LEMMA RunsMapAndLoad == Runs(map_and_load, Quiet, Quiet)
<1>1. Runs(<<Use("CAPSULES")>>, Quiet, Quiet)
  BY RunsUseQuiet DEF SpinLocks
<1>2. Runs(<<Use("CAPSULES")>> \o hvprint, Quiet, Quiet)
  BY <1>1, RunsPrint, RunsConcat
<1>3. QED BY <1>2, RunsPrint, RunsConcat DEF map_and_load

LEMMA RunsCreateAndAdd == Runs(create_and_add_vcore, Quiet, Quiet)
<1>1. "GLOBAL_QUEUES" \in SpinLocks /\ "CAPSULES" \in SpinLocks
  BY DEF SpinLocks
<1>2. QED BY <1>1, LowQuiet, RunsUseTwo DEF create_and_add_vcore

\* Nothing is held when hvmain is through.
Ended == State({}, "ended")

LEMMA RunsHvmain ==
  ASSUME NEW p \in Cores, NEW s \in hvmain(p)
  PROVE  \E f \in {Quiet, Ended} : Runs(s, Quiet, f)
<1> DEFINE a == init \o physmem_init \o Welcome \o reserve
<1>1. Runs(init \o physmem_init, Quiet, Quiet)
  BY RunsInit, RunsPhysmemInit, RunsConcat
<1>2. Runs(init \o physmem_init \o Welcome, Quiet, Quiet)
  BY <1>1, RunsWelcome, RunsConcat
<1>3. Runs(a, Quiet, Quiet)
  BY <1>2, RunsReserve, RunsConcat
<1>4. Runs(a \o map_and_load, Quiet, Quiet)
  BY <1>3, RunsMapAndLoad, RunsConcat
<1>5. Runs(SetUp, Quiet, Quiet)
  BY <1>4, RunsCreateAndAdd, RunsConcat DEF SetUp
<1>6. ASSUME NEW f \in FailedSetUps PROVE Runs(f \o hvprint \o Stop, Quiet, Quiet)
  <2>1. Runs(init \o UseHardware, Quiet, Quiet)
    BY RunsInit, RunsHardware, RunsConcat
  <2>2. Runs(init \o UseHardware \o UseHardware, Quiet, Quiet)
    BY <2>1, RunsHardware, RunsConcat
  <2>3. Runs(f, Quiet, Quiet)
    BY ZenonT(60), <1>3, <1>4, <2>1, <2>2, RunsInit DEF FailedSetUps
  <2>4. Runs(f \o hvprint, Quiet, Quiet)
    BY <2>3, RunsPrint, RunsConcat
  <2>5. QED BY <2>4, RunsStop, RunsConcat
<1>7. Runs(Ready, Quiet, Ended)
  BY RunsPrint, RunsTimerStart, RunsConcat DEF Ready, Ended
<1>8. Runs(<<<<"publish", "INIT_DONE">>>>, Quiet, Quiet) /\ Runs(<<<<"await", "INIT_DONE">>>>, Quiet, Quiet)
  BY ZenonT(60), RunsOther DEF Others
<1>9. Runs(SetUp \o <<<<"publish", "INIT_DONE">>>>, Quiet, Quiet)
  BY <1>5, <1>8, RunsConcat
<1>10. Runs(SetUp \o <<<<"publish", "INIT_DONE">>>> \o Ready, Quiet, Ended)
  BY <1>7, <1>9, RunsConcat
<1>11. Runs(init \o <<<<"await", "INIT_DONE">>>>, Quiet, Quiet)
  BY <1>8, RunsInit, RunsConcat
<1>12. Runs(init \o <<<<"await", "INIT_DONE">>>> \o Ready, Quiet, Ended)
  BY <1>7, <1>11, RunsConcat
<1>13. QED BY ZenonT(60), <1>6, <1>10, <1>12 DEF hvmain

\* What run_next goes on with.
LEMMA RunsRunNextBranches ==
  /\ \A s \in Switches : Runs(s \o UseHardware, Quiet, Quiet)
  /\ Runs(<<Use("GLOBAL_QUEUES")>> \o UseHardware, Quiet, Quiet)
  /\ \A h \in housekeeping :
       /\ Runs(h \o UseHardware, Quiet, Quiet)
       /\ Runs(<<Use("GLOBAL_QUEUES")>> \o h \o RunNext("must switch"), Quiet, Quiet)
<1>1. \A s \in Switches : Runs(s \o UseHardware, Quiet, Quiet)
  BY RunsSwitches, RunsHardware, RunsConcat
<1>2. Runs(<<Use("GLOBAL_QUEUES")>>, Quiet, Quiet)
  BY RunsUseQuiet DEF SpinLocks
<1>3. Runs(<<Use("GLOBAL_QUEUES")>> \o UseHardware, Quiet, Quiet)
  BY <1>2, RunsHardware, RunsConcat
<1>4. ASSUME NEW h \in housekeeping
      PROVE  /\ Runs(h \o UseHardware, Quiet, Quiet)
             /\ Runs(<<Use("GLOBAL_QUEUES")>> \o h \o RunNext("must switch"), Quiet, Quiet)
  <2>1. Runs(h, Quiet, Quiet)
    BY RunsHousekeeping
  <2>2. Runs(<<Use("GLOBAL_QUEUES")>> \o h, Quiet, Quiet)
    BY <1>2, <2>1, RunsConcat
  <2>3. Runs(RunNext("must switch"), Quiet, Quiet)
    BY ZenonT(60), RunsRunNext
  <2>4. QED BY ZenonT(60), <2>1, <2>2, <2>3, RunsHardware, RunsConcat
<1>5. QED BY ZenonT(60), <1>1, <1>3, <1>4

-----------------------------------------------------------------------------
(* The invariant. *)

HeldBy(p) == {L \in SpinLocks : holder[L] = p}

\* The shared state is as a core in mode m expects it: its unfinished line is the
\* last text in the queue, unless that was drained; what it has written is what
\* is in the queue, and nothing else is written; it has HARDWARE.
Fits(p, m) ==
  /\ m = "line" => queue = <<>> \/ queue[Len(queue)] = <<p, "first">>
  /\ m # "line" /\ queue # <<>> => queue[Len(queue)] # <<p, "first">>
  /\ m \in {"wrote", "sent"} => written = queue
  /\ m \notin {"wrote", "sent"} /\ holder["DEBUG_QUEUE"] = p => written = <<>>
  /\ m \in {"multiple", "once", "wrote", "started"} => resumed \/ hardware = p

\* s is the rest of a sequence that runs from what core p holds.
Rests(p, s, m, f) ==
  /\ m \in Modes /\ f \in {Quiet, Ended}
  /\ Runs(s, State(HeldBy(p), m), f)

CoreInv(p) == \E m \in Modes, f \in {Quiet, Ended} : Rests(p, code[p], m, f) /\ Fits(p, m)

\* Interrupts are off, except after the last step of a handler, and before the
\* last one of hvmain.
IrqInv == \A p \in Cores : irqs[p] => code[p] \in {<<>>, <<Release>>}

Text == Cores \X {"first", "last"}

\* All but the code.
SharedTypes ==
  /\ DOMAIN code = Cores /\ code = [p \in Cores |-> code[p]]
  /\ thread \in [Cores -> {<<>>, <<Release>>}]
  /\ irqs \in [Cores -> BOOLEAN]
  /\ holder \in [SpinLocks -> Cores \cup {None}]
  /\ hardware \in Cores \cup {None} /\ owner \in Cores
  /\ queue \in Seq(Text) /\ Len(queue) <= QueueBound
  /\ initDone \in BOOLEAN /\ resumed \in BOOLEAN

SharedInv ==
  /\ holder["DEBUG_QUEUE"] = None => written = <<>>
  /\ hardware # None => owner = hardware
  /\ written \in {<<>>, queue}
  /\ LinesWhole

LocksInv == SharedTypes /\ SharedInv /\ IrqInv /\ \A p \in Cores : CoreInv(p)

\* What a step on its way tells about the core, by the kind of the step.
Does(op, a, u, v) ==
  /\ op = "lock" => a \in SpinLocks /\ Low(u, Rank[a]) /\ v = With(u, a)
  /\ op = "unlock" => a \in SpinLocks /\ u.mode = "idle" /\ a \in u.held /\ v = State(u.held \ {a}, "idle")
  /\ op = "use" => a \in SpinLocks /\ Low(u, Rank[a]) /\ v = u
  /\ op = "push" => /\ "DEBUG_LOCK" \in u.held /\ \A M \in u.held : Rank[M] < Rank["DEBUG_QUEUE"]
                    /\ \/ a = "first" /\ Between(u, v, "idle", "line")
                       \/ a = "last" /\ Between(u, v, "line", "idle")
  /\ op = "hardware" => \/ a = "Multiple" /\ Between(u, v, "idle", "multiple")
                        \/ a = "Once" /\ "DEBUG_QUEUE" \in u.held /\ Between(u, v, "idle", "once")
  /\ op = "write" => "DEBUG_QUEUE" \in u.held /\ Between(u, v, "once", "wrote")
  /\ op = "clear" => "DEBUG_QUEUE" \in u.held /\ Between(u, v, "sent", "idle")
  /\ op = "start" => Between(u, v, "multiple", "started")
  /\ op = "release" => \/ Between(u, v, "multiple", "idle") \/ Between(u, v, "started", "ended")
                       \/ "DEBUG_QUEUE" \in u.held /\ Between(u, v, "wrote", "sent")
  /\ op \in {"publish", "await", "stop", "run_next"} => u = Quiet /\ v = Quiet

LEMMA EffectOf ==
  ASSUME NEW x, NEW u \in States, NEW v, Effect(x, u, v)
  PROVE  Does(x[1], x[2], u, v)
<1>1. CASE LockEffect(x, u, v)
  BY <1>1 DEF LockEffect, Lock, Unlock, Use, Does
<1>2. CASE QueueEffect(x, u, v)
  BY <1>2 DEF QueueEffect, Hardware, Release, Does
<1>3. CASE HardwareEffect(x, u, v)
  BY <1>3 DEF HardwareEffect, Hardware, Release, Does
<1>4. CASE x \in Others /\ u = Quiet /\ v = Quiet
  <2>1. \/ x = <<"publish", "INIT_DONE">> \/ x = <<"await", "INIT_DONE">> \/ x = <<"stop", "forever">>
        \/ x = <<"run_next", "may return">> \/ x = <<"run_next", "must switch">>
    BY ZenonT(60), <1>4 DEF Others
  <2>2. /\ <<"publish", "INIT_DONE">>[1] = "publish" /\ <<"await", "INIT_DONE">>[1] = "await"
        /\ <<"stop", "forever">>[1] = "stop" /\ <<"run_next", "may return">>[1] = "run_next"
        /\ <<"run_next", "must switch">>[1] = "run_next"
    OBVIOUS
  <2>3. x[1] \in {"publish", "await", "stop", "run_next"}
    BY ZenonT(60), <2>1, <2>2
  <2>4. QED BY <1>4, <2>3 DEF Does
<1>5. QED BY <1>1, <1>2, <1>3, <1>4 DEF Effect

\* A core in the middle of something has the step that follows ahead of it.
LEMMA ModeSteps ==
  ASSUME NEW x, NEW u \in States, NEW v, Effect(x, u, v)
  PROVE  /\ u.mode = "line" => "DEBUG_LOCK" \in u.held
         /\ u.mode \in {"once", "wrote", "sent"} => "DEBUG_QUEUE" \in u.held
         /\ u.mode = "once" => x = <<"write", "text">>
         /\ u.mode = "wrote" => x = Release
         /\ u.mode = "sent" => x = <<"clear", "text">>
         /\ u.mode = "started" => x = Release
         /\ u.mode # "ended"
<1>1. CASE LockEffect(x, u, v)
  BY <1>1 DEF LockEffect, Low
<1>2. CASE QueueEffect(x, u, v)
  BY <1>2 DEF QueueEffect, Between
<1>3. CASE HardwareEffect(x, u, v)
  BY <1>3 DEF HardwareEffect, Between
<1>4. CASE x \in Others /\ u = Quiet /\ v = Quiet
  BY <1>4 DEF Quiet, State
<1>5. QED BY <1>1, <1>2, <1>3, <1>4 DEF Effect

LEMMA StateFields ==
  ASSUME NEW K \in SUBSET SpinLocks, NEW m \in Modes
  PROVE  State(K, m) \in States /\ State(K, m).held = K /\ State(K, m).mode = m
BY DEF State, States

LEMMA FinalStates ==
  /\ Quiet \in States /\ Ended \in States
  /\ Quiet.held = {} /\ Ended.held = {} /\ Quiet.mode = "idle" /\ Ended.mode = "ended"
BY DEF Quiet, Ended, State, States, Modes

\* What a core holds in the middle of something.
LEMMA ModeHolds ==
  ASSUME NEW p, NEW s, NEW m, NEW f, Rests(p, s, m, f)
  PROVE  /\ m = "line" => holder["DEBUG_LOCK"] = p
         /\ m \in {"once", "wrote", "sent"} => holder["DEBUG_QUEUE"] = p
         /\ s = <<>> => HeldBy(p) = {} /\ m \in {"idle", "ended"}
<1> DEFINE u == State(HeldBy(p), m)
<1>1. u \in States /\ u.held = HeldBy(p) /\ u.mode = m
  BY StateFields DEF Rests, HeldBy
<1> HIDE DEF u
<1>2. CASE s = <<>>
  <2>1. u = f
    BY <1>2, EmptyRuns DEF Rests, u
  <2>2. QED BY <1>1, <1>2, <2>1, FinalStates DEF Rests
<1>3. CASE s # <<>>
  <2>1. PICK v \in States : Effect(Head(s), u, v)
    BY <1>3, RunsHead DEF Rests, u
  <2>2. /\ m = "line" => "DEBUG_LOCK" \in HeldBy(p)
        /\ m \in {"once", "wrote", "sent"} => "DEBUG_QUEUE" \in HeldBy(p)
    BY <1>1, <2>1, ModeSteps
  <2>3. QED BY <1>3, <2>2 DEF HeldBy
<1>4. QED BY <1>2, <1>3

\* After the timer is started there is only the release of HARDWARE to come.
LEMMA StartedRest ==
  ASSUME NEW s, NEW u, NEW f \in {Quiet, Ended}, Runs(s, u, f), u.mode = "started"
  PROVE  s = <<Release>>
<1>1. u \in States /\ s \in Seq(Steps)
  BY RunsStates
<1>2. s # <<>>
  BY EmptyRuns, FinalStates
<1>3. PICK v \in States : Effect(Head(s), u, v) /\ Runs(Tail(s), v, f)
  BY <1>2, RunsHead
<1>4. Head(s) = Release
  BY ZenonT(60), <1>1, <1>3, ModeSteps
<1>5. v.mode = "ended"
  <2>1. Head(s)[1] = "release"
    BY <1>4 DEF Release
  <2>2. Between(u, v, "started", "ended")
    <3>1. Does(Head(s)[1], Head(s)[2], u, v)
      BY <1>1, <1>3, EffectOf
    <3>2. QED BY <2>1, <3>1 DEF Does, Between
  <2>3. v = State(u.held, "ended") /\ u.held \in SUBSET SpinLocks /\ "ended" \in Modes
    BY <1>1, <2>2 DEF Between, States, Modes
  <2>4. QED BY <2>3, StateFields
<1>6. Tail(s) = <<>>
  <2>1. SUFFICES ASSUME Tail(s) # <<>> PROVE FALSE
    OBVIOUS
  <2>2. PICK w \in States : Effect(Head(Tail(s)), v, w)
    BY ZenonT(60), <1>3, <2>1, RunsHead
  <2>3. QED BY ZenonT(60), <1>5, <2>2, ModeSteps
<1>7. Len(s) = 1 /\ s[1] = Release
  <2>1. Len(s) \in Nat \ {0} /\ Len(Tail(s)) = Len(s) - 1 /\ Head(s) = s[1]
    BY <1>1, <1>2, HeadTailProperties, EmptySeq
  <2>2. QED BY <1>4, <1>6, <2>1, EmptySeq
<1>8. <<Release>> \in Seq(Steps) /\ Len(<<Release>>) = 1 /\ <<Release>>[1] = Release
  BY StepTypes
<1>9. QED BY <1>1, <1>7, <1>8, SeqEqual

-----------------------------------------------------------------------------
(* A step of one core. *)

\* The state a core is in, and what its next step makes of it.
LEMMA Advance ==
  ASSUME NEW p, CoreInv(p), code[p] # <<>>
  PROVE  \E m \in Modes, f \in {Quiet, Ended}, v \in States :
           /\ Fits(p, m) /\ Rests(p, code[p], m, f)
           /\ Effect(Head(code[p]), State(HeldBy(p), m), v)
           /\ Runs(Tail(code[p]), v, f)
<1>1. PICK m \in Modes, f \in {Quiet, Ended} : Rests(p, code[p], m, f) /\ Fits(p, m)
  BY DEF CoreInv
<1>2. Runs(code[p], State(HeldBy(p), m), f)
  BY <1>1 DEF Rests
<1>3. PICK v \in States : Effect(Head(code[p]), State(HeldBy(p), m), v) /\ Runs(Tail(code[p]), v, f)
  BY ZenonT(60), <1>2, RunsHead
<1>4. QED BY ZenonT(60), <1>1, <1>3

\* What core p must do, and not do to the other cores, for CoreInv to last.
LEMMA CoresStep ==
  ASSUME LocksInv, NEW p \in Cores, NEW s, Continue(p, s),
         NEW n \in Modes, NEW g \in {Quiet, Ended}, Runs(s, State(HeldBy(p)', n), g), Fits(p, n)',
         \A q \in Cores \ {p} :
           /\ HeldBy(q)' = HeldBy(q)
           /\ \A m \in Modes, f \in {Quiet, Ended} : Rests(q, code[q], m, f) /\ Fits(q, m) => Fits(q, m)'
  PROVE  \A q \in Cores : CoreInv(q)'
<1>1. code'[p] = s /\ \A q \in Cores \ {p} : code'[q] = code[q]
  BY DEF LocksInv, SharedTypes, Continue
<1>2. CoreInv(p)'
  BY <1>1 DEF CoreInv, Rests
<1>3. ASSUME NEW q \in Cores, q # p PROVE CoreInv(q)'
  <2>1. PICK m \in Modes, f \in {Quiet, Ended} : Rests(q, code[q], m, f) /\ Fits(q, m)
    BY DEF LocksInv, CoreInv
  <2>2. Fits(q, m)'
    BY <1>3, <2>1
  <2>3. HeldBy(q)' = HeldBy(q) /\ code'[q] = code[q]
    BY <1>1, <1>3
  <2>4. Rests(q, code[q], m, f)'
    BY <2>1, <2>3 DEF Rests
  <2>5. QED BY <2>2, <2>4 DEF CoreInv
<1>4. QED BY <1>2, <1>3

\* Core p is in mode m, and a step of this kind takes it from u to v.
Stands(p, op, m, f, u, v) ==
  /\ u = State(HeldBy(p), m) /\ u.held = HeldBy(p) /\ u.mode = m
  /\ Fits(p, m) /\ Rests(p, code[p], m, f)
  /\ Does(op, Arg(p), u, v) /\ Runs(Rest(p), v, f)

LEMMA AdvanceAt ==
  ASSUME LocksInv, NEW p \in Cores, NEW op, At(p, op)
  PROVE  \E m \in Modes, f \in {Quiet, Ended}, u \in States, v \in States : Stands(p, op, m, f, u, v)
<1>1. code[p] # <<>> /\ Head(code[p])[1] = op /\ Head(code[p])[2] = Arg(p)
  BY DEF At, Arg
<1>2. PICK m \in Modes, f \in {Quiet, Ended}, v \in States :
        /\ Fits(p, m) /\ Rests(p, code[p], m, f)
        /\ Effect(Head(code[p]), State(HeldBy(p), m), v)
        /\ Runs(Tail(code[p]), v, f)
  BY <1>1, Advance DEF LocksInv
<1>4. HeldBy(p) \in SUBSET SpinLocks
  BY DEF HeldBy
<1> DEFINE u == State(HeldBy(p), m)
<1>5. u \in States /\ u.held = HeldBy(p) /\ u.mode = m
  BY <1>4, StateFields
<1>6. Does(op, Arg(p), u, v) /\ Runs(Rest(p), v, f)
  BY <1>1, <1>2, <1>5, EffectOf DEF Rest
<1>7. u = State(HeldBy(p), m)
  OBVIOUS
<1> HIDE DEF u
<1>8. QED BY ZenonT(60), <1>2, <1>5, <1>6, <1>7 DEF Stands

LEMMA AcquireStep ==
  ASSUME LocksInv, NEW p \in Cores, Acquire(p)
  PROVE  SharedInv' /\ \A q \in Cores : CoreInv(q)'
<1> DEFINE L == Arg(p)
<1>1. PICK m \in Modes, f \in {Quiet, Ended}, u \in States, v \in States :
        Stands(p, "lock", m, f, u, v)
  BY AdvanceAt DEF Acquire
<1>2. L \in SpinLocks /\ Low(u, Rank[L]) /\ v = With(u, L)
  BY <1>1 DEF Does, Stands
<1>3. /\ holder[L] = None /\ holder' = [holder EXCEPT ![L] = p] /\ holder \in [SpinLocks -> Cores \cup {None}]
      /\ None \notin Cores /\ UNCHANGED <<queue, written, hardware, owner, resumed>>
      /\ Continue(p, Rest(p))
  BY LocksAssumption DEF LocksInv, SharedTypes, Acquire
<1> HIDE DEF L
<1>4. HeldBy(p)' = HeldBy(p) \cup {L} /\ \A q \in Cores \ {p} : HeldBy(q)' = HeldBy(q)
  BY <1>2, <1>3 DEF HeldBy
<1>5. m = "idle" /\ v = State(HeldBy(p)', "idle")
  BY <1>1, <1>2, <1>4 DEF With, Low, Stands
<1>6. "DEBUG_QUEUE" \in SpinLocks /\ (holder["DEBUG_QUEUE"] = None => written = <<>>)
  BY DEF SpinLocks, LocksInv, SharedInv
<1>7. Fits(p, "idle")'
  BY <1>1, <1>2, <1>3, <1>5, <1>6 DEF Fits, Stands
<1>8. ASSUME NEW q \in Cores \ {p}, NEW n \in Modes, Fits(q, n) PROVE Fits(q, n)'
  BY <1>2, <1>3, <1>6, <1>8 DEF Fits
<1>9. SharedInv'
  BY <1>2, <1>3, <1>6 DEF LocksInv, SharedInv, LinesWhole
<1>10. "idle" \in Modes
  BY DEF Modes
<1>11. \A q \in Cores : CoreInv(q)'
  <2>1. \A q \in Cores \ {p} :
          /\ HeldBy(q)' = HeldBy(q)
          /\ \A n \in Modes, g \in {Quiet, Ended} : Rests(q, code[q], n, g) /\ Fits(q, n) => Fits(q, n)'
    BY <1>4, <1>8
  <2>2. Runs(Rest(p), State(HeldBy(p)', "idle"), f)
    BY <1>1, <1>5 DEF Stands
  <2>3. QED BY <1>3, <1>7, <1>10, <2>1, <2>2, CoresStep
<1>12. QED BY <1>9, <1>11

LEMMA DropStep ==
  ASSUME LocksInv, NEW p \in Cores, Drop(p)
  PROVE  SharedInv' /\ \A q \in Cores : CoreInv(q)'
<1> DEFINE L == Arg(p)
<1>1. PICK m \in Modes, f \in {Quiet, Ended}, u \in States, v \in States :
        Stands(p, "unlock", m, f, u, v)
  BY AdvanceAt DEF Drop
<1>2. L \in SpinLocks /\ u.mode = "idle" /\ L \in u.held /\ v = State(u.held \ {L}, "idle")
  BY <1>1 DEF Does, Stands
<1>3. /\ holder' = [holder EXCEPT ![L] = None] /\ holder \in [SpinLocks -> Cores \cup {None}]
      /\ None \notin Cores /\ UNCHANGED <<queue, written, hardware, owner, resumed>>
      /\ Continue(p, Rest(p))
  BY LocksAssumption DEF LocksInv, SharedTypes, Drop
<1> HIDE DEF L
<1>4. holder[L] = p
  BY <1>1, <1>2 DEF HeldBy, Stands
<1>5. HeldBy(p)' = HeldBy(p) \ {L} /\ \A q \in Cores \ {p} : HeldBy(q)' = HeldBy(q)
  BY <1>2, <1>3, <1>4 DEF HeldBy
<1>6. m = "idle" /\ v = State(HeldBy(p)', "idle")
  BY <1>1, <1>2, <1>5 DEF Stands
<1>7. "DEBUG_QUEUE" \in SpinLocks /\ (holder["DEBUG_QUEUE"] \in {None, p} => written = <<>>)
  BY <1>1, <1>6 DEF SpinLocks, LocksInv, SharedInv, Fits, Stands
<1>8. Fits(p, "idle")'
  BY <1>1, <1>2, <1>3, <1>6, <1>7 DEF Fits, Stands
<1>9. ASSUME NEW q \in Cores \ {p}, NEW n \in Modes, Fits(q, n) PROVE Fits(q, n)'
  BY <1>2, <1>3, <1>4, <1>7, <1>9 DEF Fits
<1>10. SharedInv'
  BY <1>2, <1>3, <1>4, <1>7 DEF LocksInv, SharedInv, LinesWhole
<1>11. "idle" \in Modes
  BY DEF Modes
<1>12. \A q \in Cores : CoreInv(q)'
  <2>1. \A q \in Cores \ {p} :
          /\ HeldBy(q)' = HeldBy(q)
          /\ \A n \in Modes, g \in {Quiet, Ended} : Rests(q, code[q], n, g) /\ Fits(q, n) => Fits(q, n)'
    BY <1>5, <1>9
  <2>2. Runs(Rest(p), State(HeldBy(p)', "idle"), f)
    BY <1>1, <1>6 DEF Stands
  <2>3. QED BY <1>3, <1>8, <1>11, <2>1, <2>2, CoresStep
<1>13. QED BY <1>10, <1>12

\* A core that moves on and leaves all that the other cores see alone.
LEMMA CodeStep ==
  ASSUME LocksInv, NEW p \in Cores, NEW s, Continue(p, s),
         UNCHANGED <<holder, queue, written, hardware, owner, resumed>>,
         NEW n \in Modes, NEW g \in {Quiet, Ended}, Runs(s, State(HeldBy(p), n), g), Fits(p, n)
  PROVE  SharedInv' /\ \A q \in Cores : CoreInv(q)'
<1>1. SharedInv'
  BY ZenonT(60) DEF LocksInv, SharedInv, LinesWhole
<1>2. \A q \in Cores : HeldBy(q)' = HeldBy(q)
  BY DEF HeldBy
<1>3. \A q \in Cores, m \in Modes : Fits(q, m) => Fits(q, m)'
  BY DEF Fits
<1>4. Runs(s, State(HeldBy(p)', n), g) /\ Fits(p, n)'
  BY <1>2, <1>3
<1>5. \A q \in Cores \ {p} :
        /\ HeldBy(q)' = HeldBy(q)
        /\ \A m \in Modes, f \in {Quiet, Ended} : Rests(q, code[q], m, f) /\ Fits(q, m) => Fits(q, m)'
  BY <1>2, <1>3
<1>6. \A q \in Cores : CoreInv(q)'
  BY <1>4, <1>5, CoresStep
<1>7. QED BY <1>1, <1>6

LEMMA UseLockStep ==
  ASSUME LocksInv, NEW p \in Cores, UseLock(p)
  PROVE  SharedInv' /\ \A q \in Cores : CoreInv(q)'
<1>1. PICK m \in Modes, f \in {Quiet, Ended}, u \in States, v \in States :
        Stands(p, "use", m, f, u, v)
  BY AdvanceAt DEF UseLock
<1>2. Runs(Rest(p), State(HeldBy(p), m), f) /\ Fits(p, m)
  BY <1>1 DEF Stands, Does
<1>3. Continue(p, Rest(p)) /\ UNCHANGED <<holder, queue, written, hardware, owner, resumed>>
  BY DEF UseLock
<1>4. QED BY <1>2, <1>3, CodeStep

LEMMA StartTimerStep ==
  ASSUME LocksInv, NEW p \in Cores, StartTimer(p)
  PROVE  /\ SharedInv' /\ \A q \in Cores : CoreInv(q)'
         /\ Rest(p) = <<Release>>
<1>1. PICK m \in Modes, f \in {Quiet, Ended}, u \in States, v \in States :
        Stands(p, "start", m, f, u, v)
  BY AdvanceAt DEF StartTimer
<1>2. m = "multiple" /\ v = State(HeldBy(p), "started") /\ Runs(Rest(p), v, f)
  BY <1>1 DEF Stands, Does, Between
<1>3. Fits(p, "started")
  BY <1>1, <1>2 DEF Stands, Fits
<1>4. Continue(p, Rest(p)) /\ UNCHANGED <<holder, queue, written, hardware, owner, resumed>>
  BY DEF StartTimer
<1>5. "started" \in Modes /\ HeldBy(p) \in SUBSET SpinLocks
  BY DEF Modes, HeldBy
<1>6. v.mode = "started"
  BY <1>2, <1>5, StateFields
<1>7. Rest(p) = <<Release>>
  BY <1>2, <1>6, StartedRest
<1>8. SharedInv' /\ \A q \in Cores : CoreInv(q)'
  BY <1>2, <1>3, <1>4, <1>5, CodeStep
<1>9. QED BY <1>7, <1>8

LEMMA WaitStep ==
  ASSUME LocksInv, NEW p \in Cores, Publish(p) \/ Await(p)
  PROVE  SharedInv' /\ \A q \in Cores : CoreInv(q)'
<1>1. PICK op \in {"publish", "await"} : At(p, op)
  BY DEF Publish, Await
<1>2. PICK m \in Modes, f \in {Quiet, Ended}, u \in States, v \in States :
        Stands(p, op, m, f, u, v)
  BY <1>1, AdvanceAt
<1>3. Runs(Rest(p), State(HeldBy(p), m), f) /\ Fits(p, m)
  BY ZenonT(60), <1>1, <1>2 DEF Stands, Does
<1>4. Continue(p, Rest(p)) /\ UNCHANGED <<holder, queue, written, hardware, owner, resumed>>
  BY DEF Publish, Await
<1>5. QED BY <1>3, <1>4, CodeStep

\* A core at run_next holds nothing.
LEMMA RunNextQuiet ==
  ASSUME LocksInv, NEW p \in Cores, At(p, "run_next")
  PROVE  State(HeldBy(p), "idle") = Quiet /\ Fits(p, "idle")
<1>1. PICK m \in Modes, f \in {Quiet, Ended}, u \in States, v \in States :
        Stands(p, "run_next", m, f, u, v)
  BY AdvanceAt
<1>2. u = Quiet
  BY ZenonT(60), <1>1 DEF Stands, Does
<1>3. m = "idle"
  BY <1>1, <1>2, FinalStates DEF Stands
<1>4. QED BY ZenonT(60), <1>1, <1>2, <1>3 DEF Stands

LEMMA SwitchStep ==
  ASSUME LocksInv, NEW p \in Cores, Switch(p) \/ NoSwitch(p)
  PROVE  SharedInv' /\ \A q \in Cores : CoreInv(q)'
<1>1. State(HeldBy(p), "idle") = Quiet /\ Fits(p, "idle")
  BY ZenonT(60), RunNextQuiet DEF Switch, NoSwitch
<1>2. \E s : Continue(p, s) /\ Runs(s, Quiet, Quiet)
  <2>1. CASE Switch(p)
    BY ZenonT(60), <2>1, RunsRunNextBranches DEF Switch
  <2>2. CASE NoSwitch(p)
    BY ZenonT(60), <2>2, RunsRunNextBranches DEF NoSwitch
  <2>3. QED BY <2>1, <2>2
<1>3. UNCHANGED <<holder, queue, written, hardware, owner, resumed>>
  BY ZenonT(60) DEF Switch, NoSwitch
<1>4. "idle" \in Modes
  BY DEF Modes
<1>5. QED BY <1>1, <1>2, <1>3, <1>4, CodeStep

\* A core that takes interrupts, or has nothing left to do, holds nothing.
LEMMA RestingQuiet ==
  ASSUME LocksInv, NEW p \in Cores, code[p] \in {<<>>, <<Release>>}
  PROVE  State(HeldBy(p), "idle") = Quiet /\ Fits(p, "idle")
<1>1. PICK m \in Modes, f \in {Quiet, Ended} : Rests(p, code[p], m, f) /\ Fits(p, m)
  BY DEF LocksInv, CoreInv
<1>2. HeldBy(p) = {} /\ m \notin {"line", "wrote", "sent"}
  <2>1. CASE code[p] = <<>>
    BY <1>1, <2>1, ModeHolds
  <2>2. CASE code[p] = <<Release>>
    <3> DEFINE u == State(HeldBy(p), m)
    <3>1. u \in States /\ u.held = HeldBy(p) /\ u.mode = m
      BY <1>1, StateFields DEF HeldBy
    <3>2. Runs(code[p], u, f)
      BY <1>1 DEF Rests
    <3> HIDE DEF u
    <3>3. code[p] # <<>> /\ Head(code[p]) = Release /\ Tail(code[p]) = <<>>
      BY <2>2
    <3>4. PICK v \in States : Effect(Release, u, v) /\ Runs(<<>>, v, f)
      BY ZenonT(60), <3>2, <3>3, RunsHead
    <3>5. v = f
      BY <3>4, EmptyRuns
    <3>6. Does("release", "HARDWARE", u, v)
      BY <3>1, <3>4, EffectOf DEF Release
    <3>7. \/ u.mode \in {"multiple", "started"} /\ v.held = u.held
          \/ u.mode = "wrote" /\ v.mode = "sent"
      BY <3>1, <3>6 DEF Does, Between, State
    <3>8. QED BY <3>1, <3>5, <3>7, FinalStates
  <2>3. QED BY <2>1, <2>2
<1>3. Fits(p, "idle")
  BY <1>1, <1>2 DEF Fits
<1>4. QED BY <1>2, <1>3 DEF Quiet

LEMMA InterruptStep ==
  ASSUME LocksInv, NEW p \in Cores, TimerInterrupt(p) \/ OtherIRQ(p)
  PROVE  SharedInv' /\ \A q \in Cores : CoreInv(q)'
<1>1. code[p] \in {<<>>, <<Release>>}
  BY ZenonT(60) DEF LocksInv, IrqInv, TimerInterrupt, OtherIRQ
<1>2. State(HeldBy(p), "idle") = Quiet /\ Fits(p, "idle")
  BY <1>1, RestingQuiet
<1>3. \E s : Continue(p, s) /\ Runs(s, Quiet, Quiet)
  <2>1. CASE TimerInterrupt(p)
    BY ZenonT(60), <2>1, RunsRunNext DEF TimerInterrupt
  <2>2. CASE OtherIRQ(p)
    BY <2>2, RunsHandler DEF OtherIRQ
  <2>3. QED BY <2>1, <2>2
<1>4. UNCHANGED <<holder, queue, written, hardware, owner, resumed>>
  BY ZenonT(60) DEF TimerInterrupt, OtherIRQ
<1>5. "idle" \in Modes
  BY DEF Modes
<1>6. QED BY <1>2, <1>3, <1>4, <1>5, CodeStep

\* A handler that interrupted hvmain leaves it with HARDWARE to release, and maybe
\* unlocked by force since then: resumed remembers.
LEMMA ReturnStep ==
  ASSUME LocksInv, NEW p \in Cores, Return(p)
  PROVE  SharedInv' /\ \A q \in Cores : CoreInv(q)'
<1>1. State(HeldBy(p), "idle") = Quiet /\ Fits(p, "idle")
  BY RestingQuiet DEF Return
<1>2. thread[p] \in {<<>>, <<Release>>}
  BY DEF LocksInv, SharedTypes
<1>3. Continue(p, thread[p]) /\ UNCHANGED <<holder, queue, written, hardware, owner>>
  BY DEF Return
<1>4. "idle" \in Modes /\ "started" \in Modes
  BY DEF Modes
<1>5. CASE thread[p] = <<>>
  <2>1. Runs(<<>>, Quiet, Quiet)
    BY RunsEmpty, FinalStates
  <2>2. resumed' = resumed
    BY <1>5 DEF Return, LocksInv, SharedTypes
  <2>3. QED BY <1>1, <1>3, <1>4, <1>5, <2>1, <2>2, CodeStep
<1>6. CASE thread[p] = <<Release>>
  <2>1. Runs(<<Release>>, State({}, "started"), Ended)
    <3>1. Effect(Release, State({}, "started"), Ended)
      BY <1>4, StateFields DEF Effect, HardwareEffect, Between, Ended
    <3>2. QED BY <1>4, <3>1, FinalStates, StateFields, StepTypes, RunsStep
  <2>2. resumed'
    <3>1. thread[p] # <<>>
      BY <1>6
    <3>2. QED BY ZenonT(60), <3>1 DEF Return
  <2>3. HeldBy(p) = {}
    BY <1>1, FinalStates, StateFields, <1>4 DEF HeldBy
  <2>4. \A q \in Cores : HeldBy(q)' = HeldBy(q)
    BY <1>3 DEF HeldBy
  <2>5. Fits(p, "started")'
    BY <1>1, <1>3, <2>2 DEF Fits
  <2>6. \A q \in Cores, m \in Modes : Fits(q, m) => Fits(q, m)'
    BY <1>3, <2>2 DEF Fits
  <2>7. SharedInv'
    BY ZenonT(60), <1>3 DEF LocksInv, SharedInv, LinesWhole
  <2>8. Runs(<<Release>>, State(HeldBy(p)', "started"), Ended) /\ Continue(p, <<Release>>)
    BY <1>3, <1>6, <2>1, <2>3, <2>4
  <2>9. \A q \in Cores \ {p} :
          /\ HeldBy(q)' = HeldBy(q)
          /\ \A m \in Modes, f \in {Quiet, Ended} : Rests(q, code[q], m, f) /\ Fits(q, m) => Fits(q, m)'
    BY <2>4, <2>6
  <2>10. \A q \in Cores : CoreInv(q)'
    BY <1>4, <2>5, <2>8, <2>9, CoresStep
  <2>11. QED BY <2>7, <2>10
<1>7. QED BY <1>2, <1>5, <1>6

\* Between the lock on HARDWARE and the end of a drain, the steps are in order.
LEMMA DrainRest ==
  ASSUME NEW s, NEW u, NEW f \in {Quiet, Ended}, Runs(s, u, f)
  PROVE  /\ u.mode = "once" => s # <<>> /\ Runs(Tail(s), State(u.held, "wrote"), f)
         /\ u.mode = "wrote" => s # <<>> /\ Runs(Tail(s), State(u.held, "sent"), f)
         /\ u.mode = "sent" => s # <<>> /\ Runs(Tail(s), State(u.held, "idle"), f)
<1> SUFFICES ASSUME u.mode \in {"once", "wrote", "sent"}
             PROVE  s # <<>> /\ \/ u.mode = "once" /\ Runs(Tail(s), State(u.held, "wrote"), f)
                                \/ u.mode = "wrote" /\ Runs(Tail(s), State(u.held, "sent"), f)
                                \/ u.mode = "sent" /\ Runs(Tail(s), State(u.held, "idle"), f)
  OBVIOUS
<1>1. u \in States
  BY RunsStates
<1>2. s # <<>>
  BY EmptyRuns, FinalStates
<1>3. PICK v \in States : Effect(Head(s), u, v) /\ Runs(Tail(s), v, f)
  BY <1>2, RunsHead
<1>4. Does(Head(s)[1], Head(s)[2], u, v)
  BY <1>1, <1>3, EffectOf
<1>5. /\ u.mode = "once" => Head(s) = <<"write", "text">>
      /\ u.mode = "wrote" => Head(s) = Release
      /\ u.mode = "sent" => Head(s) = <<"clear", "text">>
  BY ZenonT(60), <1>1, <1>3, ModeSteps
<1>6. CASE u.mode = "once"
  <2>1. Head(s)[1] = "write"
    BY <1>5, <1>6
  <2>2. QED BY <1>2, <1>3, <1>4, <1>6, <2>1 DEF Does, Between
<1>7. CASE u.mode = "wrote"
  <2>1. Head(s)[1] = "release"
    BY <1>5, <1>7 DEF Release
  <2>2. QED BY ZenonT(60), <1>2, <1>3, <1>4, <1>7, <2>1 DEF Does, Between
<1>8. CASE u.mode = "sent"
  <2>1. Head(s)[1] = "clear"
    BY <1>5, <1>8
  <2>2. QED BY ZenonT(60), <1>2, <1>3, <1>4, <1>8, <2>1 DEF Does, Between
<1>9. QED BY <1>6, <1>7, <1>8

LEMMA FifthTail ==
  ASSUME NEW s \in Seq(Steps), s # <<>>, Tail(s) # <<>>, Tail(Tail(s)) # <<>>, Tail(Tail(Tail(s))) # <<>>
  PROVE  Tail(Tail(Tail(Tail(s)))) = SubSeq(s, 5, Len(s))
<1> DEFINE t == Tail(s)  w == Tail(t)  x == Tail(w)  y == Tail(x)
<1>1. t \in Seq(Steps) /\ Len(t) = Len(s) - 1 /\ \A i \in 1 .. Len(t) : t[i] = s[i + 1]
  BY HeadTailProperties
<1>2. w \in Seq(Steps) /\ Len(w) = Len(t) - 1 /\ \A i \in 1 .. Len(w) : w[i] = t[i + 1]
  BY <1>1, HeadTailProperties
<1>3. x \in Seq(Steps) /\ Len(x) = Len(w) - 1 /\ \A i \in 1 .. Len(x) : x[i] = w[i + 1]
  BY ZenonT(60), <1>2, HeadTailProperties
<1>4. y \in Seq(Steps) /\ Len(y) = Len(x) - 1 /\ \A i \in 1 .. Len(y) : y[i] = x[i + 1]
  BY ZenonT(60), <1>3, HeadTailProperties
<1> HIDE DEF t, w, x, y
<1>5. /\ Len(s) \in Nat /\ Len(t) \in Nat /\ Len(w) \in Nat /\ Len(x) \in Nat /\ Len(y) \in Nat
      /\ \A i \in 5 .. Len(s) : s[i] \in Steps
  BY <1>1, <1>2, <1>3, <1>4, LenProperties, ElementOfSeq
<1>6. /\ SubSeq(s, 5, Len(s)) \in Seq(Steps)
      /\ Len(SubSeq(s, 5, Len(s))) = IF 5 <= Len(s) THEN Len(s) - 5 + 1 ELSE 0
      /\ \A i \in 1 .. Len(s) - 5 + 1 : SubSeq(s, 5, Len(s))[i] = s[5 + i - 1]
  BY <1>5, SubSeqProperties
<1>7. Len(y) = Len(s) - 4 /\ Len(SubSeq(s, 5, Len(s))) = Len(y)
  <2>1. Len(t) = Len(s) - 1 /\ Len(w) = Len(t) - 1 /\ Len(x) = Len(w) - 1 /\ Len(y) = Len(x) - 1
    BY ZenonT(60), <1>1, <1>2, <1>3, <1>4
  <2>2. Len(y) = Len(s) - 4
    BY <1>5, <2>1
  <2>3. QED BY <1>5, <1>6, <2>2
<1>8. ASSUME NEW i \in 1 .. Len(y) PROVE y[i] = SubSeq(s, 5, Len(s))[i]
  <2>1. y[i] = x[i + 1] /\ x[i + 1] = w[i + 1 + 1] /\ w[i + 1 + 1] = t[i + 1 + 1 + 1]
        /\ t[i + 1 + 1 + 1] = s[i + 1 + 1 + 1 + 1]
    BY Z3T(60), <1>1, <1>2, <1>3, <1>4, <1>5
  <2>2. QED BY <1>5, <1>6, <1>7, <2>1
<1>9. y = SubSeq(s, 5, Len(s))
  BY ZenonT(60), <1>4, <1>6, <1>7, <1>8, SeqEqual
<1>10. QED BY <1>9 DEF t, w, x, y

\* A drain that writes nothing goes on with the release of the queue.
LEMMA SkipRuns ==
  ASSUME NEW s, NEW u, NEW f \in {Quiet, Ended}, Runs(s, u, f), s # <<>>, Head(s)[1] = "hardware", Head(s)[2] = "Once"
  PROVE  Runs(SubSeq(s, 5, Len(s)), u, f)
<1>1. u \in States /\ u.held \in SUBSET SpinLocks /\ s \in Seq(Steps)
  BY RunsStates DEF States
<1>2. PICK v \in States : Effect(Head(s), u, v) /\ Runs(Tail(s), v, f)
  BY RunsHead
<1>3. Does(Head(s)[1], Head(s)[2], u, v)
  BY <1>1, <1>2, EffectOf
<1>4. Between(u, v, "idle", "once")
  BY <1>3 DEF Does
<1>5. {"idle", "once", "wrote", "sent"} \subseteq Modes
  BY DEF Modes
<1>6. v.mode = "once" /\ v.held = u.held /\ u = State(u.held, "idle")
  BY <1>1, <1>4 DEF Between, State, States
<1> DEFINE w == State(u.held, "wrote")  x == State(u.held, "sent")
<1>7. w.mode = "wrote" /\ x.mode = "sent" /\ w.held = u.held /\ x.held = u.held
  BY DEF State
<1> HIDE DEF w, x
<1>8. Tail(s) # <<>> /\ Runs(Tail(Tail(s)), w, f)
  BY ZenonT(60), <1>2, <1>6, DrainRest DEF w
<1>9. Tail(Tail(s)) # <<>> /\ Runs(Tail(Tail(Tail(s))), x, f)
  BY ZenonT(60), <1>7, <1>8, DrainRest DEF x
<1>10. Tail(Tail(Tail(s))) # <<>> /\ Runs(Tail(Tail(Tail(Tail(s)))), u, f)
  BY ZenonT(60), <1>6, <1>7, <1>9, DrainRest
<1>11. QED BY ZenonT(60), <1>1, <1>8, <1>9, <1>10, FifthTail

LEMMA SkipWriteStep ==
  ASSUME LocksInv, NEW p \in Cores, SkipWrite(p)
  PROVE  SharedInv' /\ \A q \in Cores : CoreInv(q)'
<1>1. PICK m \in Modes, f \in {Quiet, Ended} : Rests(p, code[p], m, f) /\ Fits(p, m)
  BY DEF LocksInv, CoreInv
<1>2. code[p] # <<>> /\ Head(code[p])[1] = "hardware" /\ Head(code[p])[2] = "Once"
  BY DEF SkipWrite, At, Arg
<1>3. Runs(SubSeq(code[p], 5, Len(code[p])), State(HeldBy(p), m), f)
  BY ZenonT(60), <1>1, <1>2, SkipRuns DEF Rests
<1>4. /\ Continue(p, SubSeq(code[p], 5, Len(code[p])))
      /\ UNCHANGED <<holder, queue, written, hardware, owner, resumed>>
  BY DEF SkipWrite
<1>5. QED BY <1>1, <1>3, <1>4, CodeStep

\* A core that leaves the spin locks and the text alone.
LEMMA HardwareStep ==
  ASSUME LocksInv, NEW p \in Cores, NEW s, Continue(p, s), UNCHANGED <<holder, queue, written, resumed>>,
         hardware' # None => owner' = hardware',
         \A q \in Cores \ {p} : hardware = q => hardware' = q \/ resumed,
         NEW n \in Modes, NEW g \in {Quiet, Ended}, Runs(s, State(HeldBy(p), n), g), Fits(p, n)'
  PROVE  SharedInv' /\ \A q \in Cores : CoreInv(q)'
<1>1. SharedInv'
  BY ZenonT(60) DEF LocksInv, SharedInv, LinesWhole
<1>2. \A q \in Cores : HeldBy(q)' = HeldBy(q)
  BY DEF HeldBy
<1>3. \A q \in Cores \ {p}, m \in Modes : Fits(q, m) => Fits(q, m)'
  BY DEF Fits
<1>4. Runs(s, State(HeldBy(p)', n), g)
  BY <1>2
<1>5. \A q \in Cores \ {p} :
        /\ HeldBy(q)' = HeldBy(q)
        /\ \A m \in Modes, f \in {Quiet, Ended} : Rests(q, code[q], m, f) /\ Fits(q, m) => Fits(q, m)'
  BY <1>2, <1>3
<1>6. \A q \in Cores : CoreInv(q)'
  BY <1>4, <1>5, CoresStep
<1>7. QED BY <1>1, <1>6

LEMMA AcquireHardwareStep ==
  ASSUME LocksInv, NEW p \in Cores, AcquireHardware(p)
  PROVE  SharedInv' /\ \A q \in Cores : CoreInv(q)'
<1>1. PICK m \in Modes, f \in {Quiet, Ended}, u \in States, v \in States :
        Stands(p, "hardware", m, f, u, v)
  BY AdvanceAt DEF AcquireHardware
<1>2. PICK n \in {"multiple", "once"} : m = "idle" /\ v = State(HeldBy(p), n) /\ Runs(Rest(p), v, f)
  BY ZenonT(60), <1>1 DEF Stands, Does, Between
<1>3. /\ Continue(p, Rest(p)) /\ UNCHANGED <<holder, queue, written, resumed>>
      /\ hardware = None /\ hardware' = p /\ owner' = p
  BY DEF AcquireHardware
<1>4. Fits(p, n)'
  BY <1>1, <1>2, <1>3 DEF Stands, Fits
<1>5. n \in Modes
  BY <1>2 DEF Modes
<1>6. \A q \in Cores \ {p} : hardware = q => hardware' = q \/ resumed
  BY <1>3, LocksAssumption
<1>7. QED BY <1>2, <1>3, <1>4, <1>5, <1>6, HardwareStep

\* The owner that unlocks HARDWARE by force is the one that has it locked.
LEMMA ForceUnlockStep ==
  ASSUME LocksInv, NEW p \in Cores, ForceUnlock(p)
  PROVE  SharedInv' /\ \A q \in Cores : CoreInv(q)'
<1>1. PICK m \in Modes, f \in {Quiet, Ended}, u \in States, v \in States :
        Stands(p, "hardware", m, f, u, v)
  BY AdvanceAt DEF ForceUnlock
<1>2. m = "idle" /\ Runs(code[p], State(HeldBy(p), m), f)
  BY ZenonT(60), <1>1 DEF Stands, Does, Between, Rests
<1>3. /\ UNCHANGED <<code, holder, queue, written, resumed>>
      /\ hardware = p /\ hardware' = None
  BY DEF ForceUnlock, LocksInv, SharedInv
<1>4. Continue(p, code[p])
  BY <1>3 DEF LocksInv, SharedTypes, Continue
<1>5. Fits(p, m)'
  BY <1>1, <1>2, <1>3 DEF Stands, Fits
<1>6. \A q \in Cores \ {p} : hardware = q => hardware' = q \/ resumed
  BY <1>3
<1>7. QED BY <1>2, <1>3, <1>4, <1>5, <1>6, HardwareStep

LEMMA ReleaseHardwareStep ==
  ASSUME LocksInv, NEW p \in Cores, ReleaseHardware(p)
  PROVE  SharedInv' /\ \A q \in Cores : CoreInv(q)'
<1>1. PICK m \in Modes, f \in {Quiet, Ended}, u \in States, v \in States :
        Stands(p, "release", m, f, u, v)
  BY AdvanceAt DEF ReleaseHardware
<1>2. PICK n \in {"idle", "ended", "sent"} :
        /\ m = CASE n = "idle" -> "multiple" [] n = "ended" -> "started" [] n = "sent" -> "wrote"
        /\ v = State(HeldBy(p), n) /\ Runs(Rest(p), v, f)
  BY <1>1 DEF Stands, Does, Between
<1>3. /\ Continue(p, Rest(p)) /\ UNCHANGED <<holder, queue, written, resumed>>
      /\ hardware' = None
  BY DEF ReleaseHardware
<1>4. Fits(p, n)'
  BY <1>1, <1>2, <1>3 DEF Stands, Fits
<1>5. n \in Modes
  BY <1>2 DEF Modes
<1>6. resumed \/ hardware = p
  BY <1>1, <1>2 DEF Stands, Fits
<1>7. \A q \in Cores \ {p} : hardware = q => hardware' = q \/ resumed
  BY <1>6
<1>8. QED BY <1>2, <1>3, <1>4, <1>5, <1>7, HardwareStep

\* The queue after a call of write_str: the new fragment is the last one, and
\* what is next to each other was, or is the old and the new end.
LEMMA PushedProperties ==
  ASSUME NEW x \in Text, queue \in Seq(Text), Len(queue) <= QueueBound
  PROVE  LET q == Pushed(x) IN
         /\ q \in Seq(Text) /\ Len(q) <= QueueBound
         /\ q # <<>> /\ q[Len(q)] = x
         /\ \A i \in 1 .. Len(q) - 1 :
              \/ \E j \in 1 .. Len(queue) - 1 : q[i] = queue[j] /\ q[i + 1] = queue[j + 1]
              \/ queue # <<>> /\ q[i] = queue[Len(queue)] /\ q[i + 1] = x
<1> DEFINE a == Append(queue, x)
<1>1. /\ a \in Seq(Text) /\ Len(a) = Len(queue) + 1 /\ a[Len(queue) + 1] = x
      /\ \A i \in 1 .. Len(queue) : a[i] = queue[i]
  BY AppendProperties
<1>2. Len(queue) \in Nat /\ QueueBound \in Nat \ {0, 1} /\ a # <<>> /\ Len(a) \in Nat
  BY <1>1, EmptySeq, LenProperties, LocksAssumption
<1>3. \A i \in 1 .. Len(a) - 1 :
        \/ i \in 1 .. Len(queue) - 1 /\ a[i] = queue[i] /\ a[i + 1] = queue[i + 1]
        \/ i = Len(queue) /\ queue # <<>> /\ a[i] = queue[Len(queue)] /\ a[i + 1] = x
  BY <1>1, <1>2, EmptySeq
<1> HIDE DEF a
<1>4. Pushed(x) = IF Len(a) > QueueBound THEN Tail(a) ELSE a
  BY DEF Pushed, a
<1>5. CASE Len(a) > QueueBound
  <2> DEFINE t == Tail(a)
  <2>1. t \in Seq(Text) /\ Len(t) = Len(queue) /\ \A i \in 1 .. Len(t) : t[i] = a[i + 1]
    BY <1>1, <1>2, HeadTailProperties
  <2> HIDE DEF t
  <2>2. t # <<>> /\ t[Len(t)] = x
    BY <1>1, <1>2, <1>5, <2>1, EmptySeq
  <2>3. ASSUME NEW i \in 1 .. Len(t) - 1
        PROVE  \/ \E j \in 1 .. Len(queue) - 1 : t[i] = queue[j] /\ t[i + 1] = queue[j + 1]
               \/ queue # <<>> /\ t[i] = queue[Len(queue)] /\ t[i + 1] = x
    <3>1. i + 1 \in 1 .. Len(a) - 1 /\ t[i] = a[i + 1] /\ t[i + 1] = a[i + 1 + 1]
      BY <1>1, <1>2, <2>1
    <3>2. QED BY ZenonT(60), <1>3, <3>1
  <2>4. Pushed(x) = t
    BY <1>4, <1>5 DEF t
  <2>5. QED BY <2>1, <2>2, <2>3, <2>4
<1>6. CASE ~(Len(a) > QueueBound)
  <2>1. Pushed(x) = a /\ Len(a) <= QueueBound /\ a[Len(a)] = x
    BY <1>1, <1>2, <1>4, <1>6
  <2>2. \A i \in 1 .. Len(a) - 1 :
          \/ \E j \in 1 .. Len(queue) - 1 : a[i] = queue[j] /\ a[i + 1] = queue[j + 1]
          \/ queue # <<>> /\ a[i] = queue[Len(queue)] /\ a[i + 1] = x
    BY ZenonT(60), <1>3
  <2>3. QED BY <1>1, <1>2, <2>1, <2>2
<1>7. QED BY <1>5, <1>6

LEMMA PushStep ==
  ASSUME LocksInv, NEW p \in Cores, write_str(p)
  PROVE  SharedInv' /\ (\A q \in Cores : CoreInv(q)') /\ Arg(p) \in {"first", "last"}
<1> DEFINE a == Arg(p)  x == <<p, a>>
<1>1. PICK m \in Modes, f \in {Quiet, Ended}, u \in States, v \in States :
        Stands(p, "push", m, f, u, v)
  BY AdvanceAt DEF write_str
<1>2. /\ holder["DEBUG_LOCK"] = p
      /\ Runs(Rest(p), v, f)
      /\ \/ a = "first" /\ m = "idle" /\ v = State(HeldBy(p), "line")
         \/ a = "last" /\ m = "line" /\ v = State(HeldBy(p), "idle")
  BY ZenonT(60), <1>1 DEF Stands, Does, Between, HeldBy
<1>3. /\ holder["DEBUG_QUEUE"] = None /\ queue' = Pushed(x)
      /\ UNCHANGED <<holder, hardware, owner, written, resumed>> /\ Continue(p, Rest(p))
  BY DEF write_str
<1>4. /\ None \notin Cores /\ written = <<>> /\ LinesWhole
      /\ queue \in Seq(Text) /\ Len(queue) <= QueueBound /\ x \in Text /\ Len(queue) \in Nat
  BY <1>2, <1>3, LocksAssumption, LenProperties DEF LocksInv, SharedInv, SharedTypes, Text
<1>5. /\ queue' # <<>> /\ queue'[Len(queue')] = x
      /\ \A i \in 1 .. Len(queue') - 1 :
           \/ \E j \in 1 .. Len(queue) - 1 : queue'[i] = queue[j] /\ queue'[i + 1] = queue[j + 1]
           \/ queue # <<>> /\ queue'[i] = queue[Len(queue)] /\ queue'[i + 1] = x
  BY ZenonT(60), <1>3, <1>4, PushedProperties
<1>6. a \in {"first", "last"}
  BY <1>2
\* Nobody else is in a line, and nobody drains.
<1>7. ASSUME NEW q \in Cores \ {p}, NEW n \in Modes, NEW g \in {Quiet, Ended}, Rests(q, code[q], n, g)
      PROVE  n \notin {"line", "once", "wrote", "sent"}
  BY <1>2, <1>3, <1>4, <1>7, ModeHolds
<1>8. queue # <<>> => \/ a = "first" /\ queue[Len(queue)][2] = "last"
                      \/ a = "last" /\ queue[Len(queue)] = <<p, "first">>
  <2>1. SUFFICES ASSUME queue # <<>>
                 PROVE  \/ a = "first" /\ queue[Len(queue)][2] = "last"
                        \/ a = "last" /\ queue[Len(queue)] = <<p, "first">>
    OBVIOUS
  <2>2. CASE a = "last"
    BY <1>1, <1>2, <2>1, <2>2 DEF Stands, Fits
  <2>3. CASE a = "first"
    <3>1. queue[Len(queue)] # <<p, "first">>
      BY <1>1, <1>2, <2>1, <2>3 DEF Stands, Fits
    <3>2. ASSUME NEW q \in Cores \ {p} PROVE queue[Len(queue)] # <<q, "first">>
      <4>1. PICK n \in Modes, g \in {Quiet, Ended} : Rests(q, code[q], n, g) /\ Fits(q, n)
        BY DEF LocksInv, CoreInv
      <4>2. n # "line"
        BY <1>7, <4>1
      <4>3. QED BY <2>1, <4>1, <4>2 DEF Fits
    <3>3. Len(queue) \in 1 .. Len(queue)
      BY <1>4, <2>1, EmptySeq
    <3>4. queue[Len(queue)] \in Cores \X {"first", "last"}
      BY <1>4, <3>3, ElementOfSeq DEF Text
    <3>5. QED BY <2>3, <3>1, <3>2, <3>4
  <2>4. QED BY <1>2, <2>2, <2>3
<1>9. LinesWhole'
  <2>1. SUFFICES ASSUME NEW i \in 1 .. Len(queue') - 1
                 PROVE  \/ queue'[i][2] = "first" /\ queue'[i + 1] = <<queue'[i][1], "last">>
                        \/ queue'[i][2] = "last" /\ queue'[i + 1][2] = "first"
    BY DEF LinesWhole
  <2>2. CASE \E j \in 1 .. Len(queue) - 1 : queue'[i] = queue[j] /\ queue'[i + 1] = queue[j + 1]
    BY ZenonT(60), <1>4, <2>2 DEF LinesWhole
  <2>3. CASE queue # <<>> /\ queue'[i] = queue[Len(queue)] /\ queue'[i + 1] = x
    BY <1>8, <2>3
  <2>4. QED BY <1>5, <2>2, <2>3
<1>10. SharedInv'
  BY <1>3, <1>4, <1>9 DEF LocksInv, SharedInv
<1>11. \A q \in Cores : HeldBy(q)' = HeldBy(q)
  BY <1>3 DEF HeldBy
<1>12. PICK n \in {"idle", "line"} : v = State(HeldBy(p)', n) /\ Fits(p, n)'
  <2>1. CASE a = "first" /\ v = State(HeldBy(p), "line")
    <3>1. Fits(p, "line")'
      BY <1>3, <1>4, <1>5, <2>1 DEF Fits
    <3>2. QED BY <1>11, <2>1, <3>1
  <2>2. CASE a = "last" /\ v = State(HeldBy(p), "idle")
    <3>1. Fits(p, "idle")'
      BY <1>3, <1>4, <1>5, <2>2 DEF Fits
    <3>2. QED BY <1>11, <2>2, <3>1
  <2>3. QED BY <1>2, <2>1, <2>2
<1>13. ASSUME NEW q \in Cores \ {p}, NEW k \in Modes, NEW g \in {Quiet, Ended},
              Rests(q, code[q], k, g), Fits(q, k)
       PROVE  Fits(q, k)'
  <2>1. k \notin {"line", "wrote", "sent"}
    BY <1>7, <1>13
  <2>2. queue'[Len(queue')] # <<q, "first">>
    BY <1>5, <1>13
  <2>3. QED BY ZenonT(60), <1>3, <1>4, <1>13, <2>1, <2>2 DEF Fits
<1>14. n \in Modes /\ Runs(Rest(p), State(HeldBy(p)', n), f)
  BY <1>2, <1>12 DEF Modes
<1>15. \A q \in Cores \ {p} :
         /\ HeldBy(q)' = HeldBy(q)
         /\ \A k \in Modes, g \in {Quiet, Ended} : Rests(q, code[q], k, g) /\ Fits(q, k) => Fits(q, k)'
  BY <1>11, <1>13
<1>16. \A q \in Cores : CoreInv(q)'
  BY <1>3, <1>12, <1>14, <1>15, CoresStep
<1>17. QED BY <1>6, <1>10, <1>16

LEMMA WriteStep ==
  ASSUME LocksInv, NEW p \in Cores, write_debug_string(p)
  PROVE  SharedInv' /\ \A q \in Cores : CoreInv(q)'
<1>1. PICK m \in Modes, f \in {Quiet, Ended}, u \in States, v \in States :
        Stands(p, "write", m, f, u, v)
  BY AdvanceAt DEF write_debug_string
<1>2. /\ holder["DEBUG_QUEUE"] = p /\ m = "once"
      /\ v = State(HeldBy(p), "wrote") /\ Runs(Rest(p), v, f)
  BY ZenonT(60), <1>1 DEF Stands, Does, Between, HeldBy
<1>3. /\ UNCHANGED <<holder, hardware, owner, queue, resumed>> /\ written' = queue
      /\ Continue(p, Rest(p)) /\ None \notin Cores
  BY LocksAssumption DEF write_debug_string
<1>4. SharedInv'
  BY ZenonT(60), <1>2, <1>3 DEF LocksInv, SharedInv, LinesWhole
<1>5. \A q \in Cores : HeldBy(q)' = HeldBy(q)
  BY <1>3 DEF HeldBy
<1>6. Fits(p, "wrote")'
  BY ZenonT(60), <1>1, <1>2, <1>3 DEF Stands, Fits
<1>7. ASSUME NEW q \in Cores \ {p}, NEW k \in Modes, NEW g \in {Quiet, Ended},
             Rests(q, code[q], k, g), Fits(q, k)
      PROVE  Fits(q, k)'
  <2>1. k \notin {"wrote", "sent"}
    BY <1>2, <1>7, ModeHolds
  <2>2. QED BY ZenonT(60), <1>2, <1>3, <1>7, <2>1 DEF Fits
<1>8. "wrote" \in Modes /\ Runs(Rest(p), State(HeldBy(p)', "wrote"), f)
  BY <1>2, <1>5 DEF Modes
<1>9. \A q \in Cores \ {p} :
        /\ HeldBy(q)' = HeldBy(q)
        /\ \A k \in Modes, g \in {Quiet, Ended} : Rests(q, code[q], k, g) /\ Fits(q, k) => Fits(q, k)'
  BY <1>5, <1>7
<1>10. \A q \in Cores : CoreInv(q)'
  BY <1>3, <1>6, <1>8, <1>9, CoresStep
<1>11. QED BY <1>4, <1>6, <1>10

LEMMA ClearStep ==
  ASSUME LocksInv, NEW p \in Cores, Clear(p)
  PROVE  SharedInv' /\ (\A q \in Cores : CoreInv(q)') /\ written = queue
<1>1. PICK m \in Modes, f \in {Quiet, Ended}, u \in States, v \in States :
        Stands(p, "clear", m, f, u, v)
  BY AdvanceAt DEF Clear
<1>2. /\ m = "sent" /\ v = State(HeldBy(p), "idle") /\ Runs(Rest(p), v, f)
  BY ZenonT(60), <1>1 DEF Stands, Does, Between
<1>3. /\ UNCHANGED <<holder, hardware, owner, resumed>> /\ written' = <<>> /\ queue' = <<>>
      /\ Continue(p, Rest(p))
  BY DEF Clear
<1>4. LinesWhole'
  <2>1. Len(queue') = 0
    BY <1>3, EmptySeq
  <2>2. 1 .. Len(queue') - 1 = {}
    BY <2>1
  <2>3. QED BY ZenonT(60), <2>2 DEF LinesWhole
<1>5. SharedInv'
  BY <1>3, <1>4 DEF LocksInv, SharedInv
<1>6. \A q \in Cores : HeldBy(q)' = HeldBy(q)
  BY <1>3 DEF HeldBy
<1>7. written = queue
  BY ZenonT(60), <1>1, <1>2 DEF Stands, Fits
<1>8. Fits(p, "idle")'
  BY <1>3 DEF Fits
<1>9. \A q \in Cores, k \in Modes : Fits(q, k) => Fits(q, k)'
  BY <1>3 DEF Fits
<1>10. "idle" \in Modes /\ Runs(Rest(p), State(HeldBy(p)', "idle"), f)
  BY <1>2, <1>6 DEF Modes
<1>11. \A q \in Cores \ {p} :
         /\ HeldBy(q)' = HeldBy(q)
         /\ \A k \in Modes, g \in {Quiet, Ended} : Rests(q, code[q], k, g) /\ Fits(q, k) => Fits(q, k)'
  BY <1>6, <1>9
<1>12. \A q \in Cores : CoreInv(q)'
  BY <1>3, <1>8, <1>10, <1>11, CoresStep
<1>13. QED BY <1>5, <1>7, <1>12

-----------------------------------------------------------------------------
(* What is left: the types, and when a core takes interrupts. *)

\* A core about to take a step takes no interrupts, but in the last step of hvmain.
LEMMA IrqsOff ==
  ASSUME LocksInv, NEW p \in Cores, NEW op, op # "release", At(p, op)
  PROVE  ~irqs[p]
<1>1. SUFFICES ASSUME irqs[p] PROVE FALSE
  OBVIOUS
<1>2. code[p] = <<Release>>
  BY <1>1 DEF LocksInv, IrqInv, At
<1>3. Head(code[p])[1] = "release"
  BY <1>2 DEF Release
<1>4. QED BY <1>3 DEF At

LEMMA IrqStep ==
  ASSUME LocksInv, NEW p \in Cores, NEW s, Continue(p, s),
         \A q \in Cores \ {p} : irqs'[q] = irqs[q],
         irqs'[p] => s \in {<<>>, <<Release>>}
  PROVE  IrqInv'
<1>1. code'[p] = s /\ \A q \in Cores \ {p} : code'[q] = code[q]
  BY DEF LocksInv, SharedTypes, Continue
<1>2. QED BY <1>1 DEF LocksInv, IrqInv

LEMMA IrqNext ==
  ASSUME LocksInv, NEW p \in Cores, Step(p) \/ TimerInterrupt(p) \/ OtherIRQ(p)
  PROVE  IrqInv' /\ \E s : Continue(p, s)
<1>1. ASSUME NEW op, op # "release", At(p, op), irqs' = irqs, NEW s, Continue(p, s)
      PROVE  IrqInv'
  BY <1>1, IrqsOff, IrqStep
<1>2. CASE Acquire(p)
  BY <1>1, <1>2 DEF Acquire
<1>3. CASE Drop(p)
  BY <1>1, <1>3 DEF Drop
<1>4. CASE UseLock(p)
  BY <1>1, <1>4 DEF UseLock
<1>5. CASE write_str(p)
  BY <1>1, <1>5 DEF write_str
<1>6. CASE AcquireHardware(p)
  BY <1>1, <1>6 DEF AcquireHardware
<1>7. CASE SkipWrite(p)
  BY <1>1, <1>7 DEF SkipWrite
<1>8. CASE write_debug_string(p)
  BY <1>1, <1>8 DEF write_debug_string
<1>9. CASE Clear(p)
  BY <1>1, <1>9 DEF Clear
<1>10. CASE Publish(p)
  BY <1>1, <1>10 DEF Publish
<1>11. CASE Await(p)
  BY <1>1, <1>11 DEF Await
<1>12. CASE Switch(p)
  BY <1>1, <1>12 DEF Switch
<1>13. CASE NoSwitch(p)
  BY ZenonT(60), <1>1, <1>13 DEF NoSwitch
<1>14. CASE ForceUnlock(p)
  <2>1. code' = code /\ irqs' = irqs /\ Continue(p, code[p])
    BY <1>14 DEF ForceUnlock, LocksInv, SharedTypes, Continue
  <2>2. QED BY <2>1 DEF LocksInv, IrqInv
<1>15. CASE ReleaseHardware(p)
  <2>1. Continue(p, Rest(p)) /\ irqs' = irqs /\ code[p] # <<>>
    BY <1>15 DEF ReleaseHardware, At
  <2>2. irqs[p] => Rest(p) = <<>>
    <3>1. irqs[p] => code[p] = <<Release>>
      BY <2>1 DEF LocksInv, IrqInv
    <3>2. Tail(<<Release>>) = <<>>
      OBVIOUS
    <3>3. QED BY ZenonT(60), <3>1, <3>2 DEF Rest
  <2>3. QED BY <2>1, <2>2, IrqStep
<1>16. CASE StartTimer(p)
  <2>1. Rest(p) = <<Release>>
    BY <1>16, StartTimerStep
  <2>2. Continue(p, Rest(p)) /\ \A q \in Cores \ {p} : irqs'[q] = irqs[q]
    BY <1>16 DEF StartTimer, LocksInv, SharedTypes
  <2>3. QED BY <2>1, <2>2, IrqStep
<1>17. CASE Return(p)
  <2>1. Continue(p, thread[p]) /\ \A q \in Cores \ {p} : irqs'[q] = irqs[q]
    BY <1>17 DEF Return, LocksInv, SharedTypes
  <2>2. thread[p] \in {<<>>, <<Release>>}
    BY DEF LocksInv, SharedTypes
  <2>3. QED BY <2>1, <2>2, IrqStep
<1>18. CASE TimerInterrupt(p) \/ OtherIRQ(p)
  <2>1. irqs' = [irqs EXCEPT ![p] = FALSE] /\ \E s : Continue(p, s)
    BY ZenonT(60), <1>18 DEF TimerInterrupt, OtherIRQ
  <2>2. ~irqs'[p] /\ \A q \in Cores \ {p} : irqs'[q] = irqs[q]
    BY <2>1 DEF LocksInv, SharedTypes
  <2>3. QED BY ZenonT(60), <2>1, <2>2, IrqStep
<1>19. QED BY <1>2, <1>3, <1>4, <1>5, <1>6, <1>7, <1>8, <1>9, <1>10, <1>11, <1>12, <1>13,
              <1>14, <1>15, <1>16, <1>17, <1>18 DEF Step

LEMMA TypesNext ==
  ASSUME LocksInv, NEW p \in Cores, Step(p) \/ TimerInterrupt(p) \/ OtherIRQ(p)
  PROVE  SharedTypes'
<1>1. DOMAIN code' = Cores /\ code' = [q \in Cores |-> code'[q]]
  BY IrqNext DEF LocksInv, SharedTypes, Continue
<1>2. /\ thread \in [Cores -> {<<>>, <<Release>>}] /\ irqs \in [Cores -> BOOLEAN]
      /\ holder \in [SpinLocks -> Cores \cup {None}]
      /\ hardware \in Cores \cup {None} /\ owner \in Cores
      /\ queue \in Seq(Text) /\ Len(queue) <= QueueBound
      /\ initDone \in BOOLEAN /\ resumed \in BOOLEAN
  BY DEF LocksInv, SharedTypes
<1>3. CASE Acquire(p) \/ Drop(p)
  BY <1>1, <1>2, <1>3 DEF Acquire, Drop, SharedTypes
<1>4. CASE UseLock(p) \/ SkipWrite(p) \/ write_debug_string(p) \/ Publish(p) \/ Await(p) \/ NoSwitch(p)
  BY ZenonT(60), <1>1, <1>2, <1>4
     DEF UseLock, SkipWrite, write_debug_string, Publish, Await, NoSwitch, SharedTypes
<1>5. CASE AcquireHardware(p) \/ ForceUnlock(p) \/ ReleaseHardware(p)
  BY <1>1, <1>2, <1>5 DEF AcquireHardware, ForceUnlock, ReleaseHardware, SharedTypes
<1>6. CASE write_str(p)
  <2>1. <<p, Arg(p)>> \in Text
    BY <1>6, PushStep DEF Text
  <2>2. queue' \in Seq(Text) /\ Len(queue') <= QueueBound
    BY <1>2, <1>6, <2>1, PushedProperties DEF write_str
  <2>3. QED BY <1>1, <1>2, <1>6, <2>2 DEF write_str, SharedTypes
<1>7. CASE Clear(p)
  <2>1. queue' \in Seq(Text) /\ Len(queue') <= QueueBound
    BY <1>7, EmptySeq, LocksAssumption DEF Clear
  <2>2. QED BY <1>1, <1>2, <1>7, <2>1 DEF Clear, SharedTypes
<1>8. CASE StartTimer(p)
  BY ZenonT(60), <1>1, <1>2, <1>8 DEF StartTimer, SharedTypes
<1>9. CASE Switch(p) \/ Return(p)
  BY ZenonT(60), <1>1, <1>2, <1>9 DEF Switch, Return, SharedTypes
<1>10. CASE TimerInterrupt(p) \/ OtherIRQ(p)
  <2>1. code[p] \in {<<>>, <<Release>>}
    BY ZenonT(60), <1>10 DEF TimerInterrupt, OtherIRQ, LocksInv, IrqInv
  <2>2. QED BY ZenonT(60), <1>1, <1>2, <1>10, <2>1 DEF TimerInterrupt, OtherIRQ, SharedTypes
<1>11. QED BY <1>3, <1>4, <1>5, <1>6, <1>7, <1>8, <1>9, <1>10 DEF Step

LEMMA StepInv ==
  ASSUME LocksInv, NEW p \in Cores, Step(p) \/ TimerInterrupt(p) \/ OtherIRQ(p)
  PROVE  LocksInv'
<1>1. SharedTypes' /\ IrqInv'
  BY TypesNext, IrqNext
<1>2. SharedInv' /\ \A q \in Cores : CoreInv(q)'
  BY AcquireStep, DropStep, UseLockStep, PushStep, AcquireHardwareStep, ForceUnlockStep,
     ReleaseHardwareStep, SkipWriteStep, WriteStep, ClearStep, StartTimerStep, WaitStep,
     SwitchStep, ReturnStep, InterruptStep DEF Step
<1>3. QED BY <1>1, <1>2 DEF LocksInv

LEMMA LocksInit ==
  ASSUME Init
  PROVE  LocksInv
<1>1. /\ thread = [p \in Cores |-> <<>>] /\ irqs = [p \in Cores |-> FALSE]
      /\ holder = [L \in SpinLocks |-> None] /\ hardware = None /\ owner = BootCore
      /\ initDone = FALSE /\ queue = <<>> /\ written = <<>> /\ resumed = FALSE
      /\ code \in [Cores -> UNION {hvmain(p) : p \in Cores}] /\ \A p \in Cores : code[p] \in hvmain(p)
  BY DEF Init
<1>2. Len(queue) = 0 /\ queue \in Seq(Text)
  BY <1>1, EmptySeq
<1>3. SharedTypes
  <2>1. DOMAIN code = Cores /\ code = [p \in Cores |-> code[p]]
    BY <1>1
  <2>2. /\ thread \in [Cores -> {<<>>, <<Release>>}] /\ irqs \in [Cores -> BOOLEAN]
        /\ holder \in [SpinLocks -> Cores \cup {None}] /\ hardware \in Cores \cup {None}
        /\ owner \in Cores /\ initDone \in BOOLEAN /\ resumed \in BOOLEAN
    BY ZenonT(60), <1>1, LocksAssumption
  <2>3. Len(queue) <= QueueBound
    BY <1>2, LocksAssumption
  <2>4. QED BY ZenonT(60), <1>2, <2>1, <2>2, <2>3 DEF SharedTypes
<1>4. LinesWhole
  <2>1. 1 .. Len(queue) - 1 = {}
    BY <1>2
  <2>2. QED BY <2>1 DEF LinesWhole
<1>5. SharedInv
  BY <1>1, <1>4 DEF SharedInv
<1>6. IrqInv
  BY <1>1 DEF IrqInv
<1>7. ASSUME NEW p \in Cores PROVE CoreInv(p)
  <2>1. PICK f \in {Quiet, Ended} : Runs(code[p], Quiet, f)
    BY <1>1, RunsHvmain
  <2>2. HeldBy(p) = {}
    BY <1>1, LocksAssumption DEF HeldBy
  <2>3. "idle" \in Modes /\ Fits(p, "idle")
    BY <1>1 DEF Modes, Fits
  <2>4. Rests(p, code[p], "idle", f)
    BY <2>1, <2>2, <2>3 DEF Rests, Quiet
  <2>5. QED BY <2>3, <2>4 DEF CoreInv
<1>8. QED BY <1>3, <1>5, <1>6, <1>7 DEF LocksInv

LEMMA StutterInv ==
  ASSUME LocksInv, UNCHANGED vars
  PROVE  LocksInv'
<1>1. \A p \in Cores : HeldBy(p)' = HeldBy(p)
  BY DEF vars, HeldBy
<1>2. \A p \in Cores, m \in Modes : Fits(p, m)' <=> Fits(p, m)
  BY DEF vars, Fits
<1>3. \A p \in Cores : CoreInv(p)'
  <2>1. SUFFICES ASSUME NEW p \in Cores PROVE CoreInv(p)'
    OBVIOUS
  <2>2. PICK m \in Modes, f \in {Quiet, Ended} : Rests(p, code[p], m, f) /\ Fits(p, m)
    BY DEF LocksInv, CoreInv
  <2>3. Rests(p, code[p], m, f)' /\ Fits(p, m)'
    BY <1>1, <1>2, <2>2 DEF vars, Rests
  <2>4. QED BY <2>3 DEF CoreInv
<1>4. SharedTypes' /\ IrqInv'
  BY DEF vars, LocksInv, SharedTypes, IrqInv
<1>5. SharedInv'
  BY DEF vars, LocksInv, SharedInv, LinesWhole
<1>6. QED BY <1>3, <1>4, <1>5 DEF LocksInv

LEMMA LocksNext ==
  ASSUME LocksInv, [Next]_vars
  PROVE  LocksInv'
BY StepInv, StutterInv DEF Next

LEMMA LocksAlways == Spec => []LocksInv
BY LocksInit, LocksNext, PTL DEF Spec

-----------------------------------------------------------------------------
(* Theorems. *)

\* Every variable has its type: what a core has yet to do is made of the steps
\* of hvmain and the handlers, and an interrupt leaves at most the release of
\* HARDWARE for later.
THEOREM LocksTypes == Spec => []TypeOK
<1>1. LocksInv => TypeOK
  <2>1. SUFFICES ASSUME LocksInv PROVE TypeOK
    OBVIOUS
  <2>2. ASSUME NEW p \in Cores PROVE code[p] \in Seq(Steps)
    <3>1. PICK m \in Modes, f \in {Quiet, Ended} : Rests(p, code[p], m, f)
      BY <2>1 DEF LocksInv, CoreInv
    <3>2. QED BY <3>1, RunsStates DEF Rests
  <2>3. SharedTypes /\ SharedInv
    BY <2>1 DEF LocksInv
  <2>4. code = [p \in Cores |-> code[p]]
    BY <2>3 DEF SharedTypes
  <2>5. code \in [Cores -> Seq(Steps)]
    BY ZenonT(60), <2>2, <2>4
  <2>6. QED BY ZenonT(60), <2>3, <2>5 DEF SharedTypes, SharedInv, Text, TypeOK
<1>2. QED BY <1>1, LocksAlways, PTL

\* The fragments of one call of hvprint stay together in the debug queue, for
\* any number of cores that print and drain: DEBUG_LOCK covers the calls of
\* write_str that one write_fmt makes.
THEOREM LinesStayWhole == Spec => []LinesWhole
<1>1. LocksInv => LinesWhole
  BY DEF LocksInv, SharedInv
<1>2. QED BY <1>1, LocksAlways, PTL

\* A core between the lock and the release of HARDWARE has it locked, unless a
\* core has resumed hvmain.
LEMMA DeviceHolder ==
  ASSUME LocksInv, NEW p \in Cores, InDevice(p)
  PROVE  resumed \/ hardware = p
<1>1. PICK op \in {"write", "start", "release"} : At(p, op)
  BY DEF InDevice
<1>2. PICK m \in Modes, f \in {Quiet, Ended}, u \in States, v \in States : Stands(p, op, m, f, u, v)
  BY <1>1, AdvanceAt
<1>3. m \in {"multiple", "once", "wrote", "started"}
  BY ZenonT(60), <1>1, <1>2 DEF Stands, Does, Between
<1>4. QED BY <1>2, <1>3 DEF Stands, Fits

\* Two cores never use the devices at the same time, for any number of cores,
\* although acquire_hardware_lock unlocks HARDWARE by force for its owner, as
\* long as no core has resumed hvmain after an interrupt inside it.
THEOREM HardwareStaysExclusive == Spec => []HardwareExclusive
<1>1. LocksInv => HardwareExclusive
  BY DeviceHolder DEF HardwareExclusive
<1>2. QED BY <1>1, LocksAlways, PTL

\* A core about to write has the queue to itself, and nothing in it is written yet.
LEMMA WritesUnwritten ==
  ASSUME LocksInv, NEW p \in Cores, At(p, "write")
  PROVE  written = <<>>
<1>1. PICK m \in Modes, f \in {Quiet, Ended}, u \in States, v \in States :
        Stands(p, "write", m, f, u, v)
  BY AdvanceAt
<1>2. holder["DEBUG_QUEUE"] = p /\ m = "once"
  BY ZenonT(60), <1>1 DEF Stands, Does, Between, HeldBy
<1>3. QED BY ZenonT(60), <1>1, <1>2 DEF Stands, Fits

LEMMA TextStep ==
  ASSUME LocksInv, [Next]_vars
  PROVE  /\ queue # <<>> /\ queue' = <<>> => written = queue
         /\ \A p \in Cores : At(p, "write") => written = <<>>
<1>1. CASE UNCHANGED vars
  BY <1>1, WritesUnwritten DEF vars
<1>2. SUFFICES ASSUME NEW p \in Cores, Step(p) \/ TimerInterrupt(p) \/ OtherIRQ(p),
                      queue # <<>>, queue' = <<>>
               PROVE  written = queue
  BY <1>1, WritesUnwritten DEF Next
<1>3. CASE write_str(p)
  <2>1. <<p, Arg(p)>> \in Text
    BY <1>3, PushStep DEF Text
  <2>2. queue' # <<>>
    BY <1>3, <2>1, PushedProperties DEF write_str, LocksInv, SharedTypes
  <2>3. QED BY <1>2, <2>2
<1>4. CASE Clear(p)
  BY <1>4, ClearStep
<1>5. UNCHANGED queue \/ write_str(p) \/ Clear(p)
  BY ZenonT(60), <1>2
     DEF Step, Acquire, Drop, UseLock, AcquireHardware, ForceUnlock, ReleaseHardware, SkipWrite,
         write_debug_string, StartTimer, Publish, Await, Switch, NoSwitch, Return, TimerInterrupt, OtherIRQ
<1>6. QED BY ZenonT(60), <1>2, <1>3, <1>4, <1>5

\* drain_queue clears what it wrote and nothing else, and never writes text that is
\* written already, for any number of cores that print, drain and wait for the
\* hardware.
THEOREM TextIsWrittenOnce == Spec => TextOnce
BY LocksAlways, TextStep, PTL DEF Spec, TextOnce

\* A core wants a lock only above all those it holds.
WantsAbove ==
  \A p \in Cores :
    /\ Wanted(p) \in SpinLocks \cup {None}
    /\ Wanted(p) # None => \A L \in SpinLocks : holder[L] = p => Rank[L] < Rank[Wanted(p)]

LEMMA WantedRank == LocksInv => WantsAbove
<1> SUFFICES ASSUME LocksInv, NEW p \in Cores
             PROVE  /\ Wanted(p) \in SpinLocks \cup {None}
                    /\ Wanted(p) # None => \A L \in SpinLocks : holder[L] = p => Rank[L] < Rank[Wanted(p)]
  BY ZenonT(60) DEF WantsAbove
<1>1. ASSUME NEW op \in {"lock", "use"}, At(p, op)
      PROVE  Arg(p) \in SpinLocks /\ \A L \in SpinLocks : holder[L] = p => Rank[L] < Rank[Arg(p)]
  <2>1. PICK m \in Modes, f \in {Quiet, Ended}, u \in States, v \in States : Stands(p, op, m, f, u, v)
    BY <1>1, AdvanceAt
  <2>2. Arg(p) \in SpinLocks /\ Low(u, Rank[Arg(p)]) /\ u.held = HeldBy(p)
    BY ZenonT(60), <1>1, <2>1 DEF Stands, Does
  <2>3. QED BY <2>2 DEF Low, HeldBy
<1>2. ASSUME At(p, "push")
      PROVE  \A L \in SpinLocks : holder[L] = p => Rank[L] < Rank["DEBUG_QUEUE"]
  <2>1. PICK m \in Modes, f \in {Quiet, Ended}, u \in States, v \in States : Stands(p, "push", m, f, u, v)
    BY <1>2, AdvanceAt
  <2>2. (\A M \in u.held : Rank[M] < Rank["DEBUG_QUEUE"]) /\ u.held = HeldBy(p)
    BY ZenonT(60), <2>1 DEF Stands, Does
  <2>3. QED BY <2>2 DEF HeldBy
<1>3. "DEBUG_QUEUE" \in SpinLocks
  BY DEF SpinLocks
<1>4. CASE At(p, "lock") \/ At(p, "use")
  BY <1>1, <1>4 DEF Wanted
<1>5. CASE ~(At(p, "lock") \/ At(p, "use")) /\ At(p, "push")
  BY <1>2, <1>3, <1>5 DEF Wanted
<1>6. CASE ~(At(p, "lock") \/ At(p, "use")) /\ ~At(p, "push")
  BY <1>6 DEF Wanted
<1>7. QED BY <1>4, <1>5, <1>6

LEMMA WantedRankNext == LocksInv' => WantsAbove'
BY WantedRank, PTL

\* A core that moves on does not wait for a lock that is held.
LEMMA WantedFree ==
  ASSUME LocksInv, NEW p \in Cores, Step(p) \/ TimerInterrupt(p) \/ OtherIRQ(p)
  PROVE  /\ Wanted(p) # None => holder[Wanted(p)] = None
         /\ \A L \in SpinLocks : \/ holder'[L] = holder[L]
                                 \/ L = Wanted(p) /\ holder'[L] = p
                                 \/ holder[L] = p /\ holder'[L] = None
<1>1. \A op : At(p, op) => Head(code[p])[1] = op
  BY DEF At
<1>2. CASE Acquire(p)
  <2>1. Wanted(p) = Arg(p) /\ holder[Arg(p)] = None /\ holder' = [holder EXCEPT ![Arg(p)] = p]
    BY <1>2 DEF Acquire, Wanted
  <2>2. QED BY <2>1 DEF LocksInv, SharedTypes
<1>3. CASE Drop(p)
  <2>1. PICK m \in Modes, f \in {Quiet, Ended}, u \in States, v \in States : Stands(p, "unlock", m, f, u, v)
    BY <1>3, AdvanceAt DEF Drop
  <2>2. holder[Arg(p)] = p
    BY ZenonT(60), <2>1 DEF Stands, Does, HeldBy
  <2>3. Wanted(p) = None /\ holder' = [holder EXCEPT ![Arg(p)] = None]
    BY <1>1, <1>3 DEF Drop, Wanted
  <2>4. QED BY <2>2, <2>3 DEF LocksInv, SharedTypes
<1>4. CASE UseLock(p)
  <2>1. Wanted(p) = Arg(p) /\ holder[Arg(p)] = None /\ holder' = holder
    BY <1>4 DEF UseLock, Wanted
  <2>2. QED BY <2>1
<1>5. CASE write_str(p)
  <2>1. Wanted(p) = "DEBUG_QUEUE" /\ holder["DEBUG_QUEUE"] = None /\ holder' = holder
    BY <1>1, <1>5 DEF write_str, Wanted
  <2>2. QED BY <2>1
<1>6. CASE /\ holder' = holder
           /\ \/ code[p] = <<>>
              \/ \E op \in {"hardware", "release", "write", "clear", "start", "publish", "await", "run_next"} : At(p, op)
  <2>1. Wanted(p) = None
    BY <1>1, <1>6 DEF Wanted, At
  <2>2. QED BY <1>6, <2>1
<1>7. CASE TimerInterrupt(p) \/ OtherIRQ(p)
  <2>1. code[p] \in {<<>>, <<Release>>} /\ holder' = holder
    BY ZenonT(60), <1>7 DEF TimerInterrupt, OtherIRQ, LocksInv, IrqInv
  <2>2. code[p] = <<>> \/ At(p, "release")
    BY <2>1 DEF At, Release
  <2>3. QED BY <1>6, <2>1, <2>2
<1>8. QED BY ZenonT(60), <1>2, <1>3, <1>4, <1>5, <1>6, <1>7
          DEF Step, AcquireHardware, ForceUnlock, ReleaseHardware, SkipWrite, write_debug_string, Clear,
              StartTimer, Publish, Await, Switch, NoSwitch, Return

LEMMA OrderNext ==
  ASSUME LocksInv, [Next]_vars
  PROVE  [Order!Next]_(Order!vars)
<1> DEFINE W == [p \in Cores |-> Wanted(p)]
<1>1. CASE UNCHANGED vars
  BY <1>1 DEF vars, Order!vars, Wanted, At, Arg
<1>2. ASSUME NEW p \in Cores, Step(p) \/ TimerInterrupt(p) \/ OtherIRQ(p)
      PROVE  Order!Proceed(p)
  <2>1. LocksInv'
    BY <1>2, StepInv
  <2>2. /\ Wanted(p) # None => holder[Wanted(p)] = None
        /\ \A L \in SpinLocks : \/ holder'[L] = holder[L]
                                \/ L = Wanted(p) /\ holder'[L] = p
                                \/ holder[L] = p /\ holder'[L] = None
    BY <1>2, WantedFree
  <2>3. holder' \in [SpinLocks -> Cores \cup {None}]
    BY <2>1 DEF LocksInv, SharedTypes
  <2>4. /\ Wanted(p)' \in SpinLocks \cup {None}
        /\ Wanted(p)' # None => \A L \in SpinLocks : holder'[L] = p => Rank[L] < Rank[Wanted(p)']
    BY <2>1, WantedRankNext DEF WantsAbove
  <2>5. \A q \in Cores \ {p} : Wanted(q)' = Wanted(q)
    <3>1. \A q \in Cores \ {p} : code'[q] = code[q]
      BY <1>2, IrqNext DEF Continue, LocksInv, SharedTypes
    <3>2. QED BY ZenonT(60), <3>1 DEF Wanted, At, Arg
  <2>6. W' = [W EXCEPT ![p] = Wanted(p)']
    BY ZenonT(60), <2>5
  <2>7. W[p] = Wanted(p)
    OBVIOUS
  <2>8. QED BY ZenonT(60), <2>2, <2>3, <2>4, <2>6, <2>7 DEF Order!Proceed
<1>3. QED BY <1>1, <1>2 DEF Next, Order!Next

\* hvmain and the handlers follow the discipline of module LockOrder, for any
\* number of cores: a core asks for GLOBAL_QUEUES, WORKLOAD, VCORES, CAPSULES,
\* the tables and the debug locks in this order only.
THEOREM HandlersOrdered == Spec => LocksOrdered
<1>1. Init => Order!Init
  <2>1. SUFFICES ASSUME Init PROVE Order!Init
    OBVIOUS
  <2>2. LocksInv
    BY <2>1, LocksInit
  <2>3. [p \in Cores |-> Wanted(p)] \in [Cores -> SpinLocks \cup {None}]
    BY <2>2, WantedRank DEF WantsAbove
  <2>4. QED BY <2>1, <2>3 DEF Init, Order!Init
<1>2. QED BY <1>1, LocksAlways, OrderNext, PTL DEF Spec, LocksOrdered, Order!Spec

OrderProofs == INSTANCE LockOrderProofs WITH
  Locks <- SpinLocks,
  wants <- [p \in Cores |-> Wanted(p)]

\* However many cores run the handlers, no set of them all wait for each other
\* on spin locks: the order of the locks in the code excludes deadlock.
THEOREM NoCoresStuck == Spec => []Order!NoCircularWait
<1>1. LocksInv => Order!NoCircularWait
  <2>1. SUFFICES ASSUME LocksInv PROVE Order!NoCircularWait
    OBVIOUS
  <2>2. OrderProofs!RankBounded(7)
    <3>1. Rank \in [SpinLocks -> 0 .. 7]
      BY SMTT(60) DEF Rank, SpinLocks
    <3>2. QED BY <3>1, LocksAssumption DEF OrderProofs!RankBounded
  <2>3. OrderProofs!TypeOK
    BY <2>1, WantedRank DEF LocksInv, SharedTypes, WantsAbove, OrderProofs!TypeOK
  <2>4. OrderProofs!Ascending
    BY ZenonT(60), <2>1, WantedRank DEF WantsAbove, OrderProofs!Ascending
  <2>5. OrderProofs!NoCircularWait
    BY <2>2, <2>3, <2>4, OrderProofs!AscendingIsAcyclic
  <2>6. QED BY ZenonT(60), <2>5 DEF OrderProofs!NoCircularWait, Order!NoCircularWait
<1>2. QED BY <1>1, LocksAlways, PTL

=============================================================================
