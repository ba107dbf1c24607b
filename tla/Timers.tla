------------------------------- MODULE Timers -------------------------------
(***************************************************************************)
(* A workflow that reads the clock and then waits for a deadline computed  *)
(* from the reading (src/time.rs, resolve_now and resolve_sleep of         *)
(* src/context.rs), with time: a wall clock that ticks and is set forward  *)
(* and back, a sleep that counts a monotonic remainder down, and processes *)
(* that are killed and recovered.                                          *)
(*                                                                         *)
(* Under TestClock no time passes by itself and a wait returns at once.    *)
(***************************************************************************)
EXTENDS Integers, Sequences

CONSTANTS
  Period,       \* from the reading to the deadline
  BeforeEpoch,  \* how long before the epoch the clock shows at first
  LastReading,  \* bound on the time of the reading
  MaxWall,      \* bound on time
  MaxSteps,     \* bound on the times the clock is set
  MaxKills      \* bound on kills

ASSUME PeriodAssumption == Period \in Nat
ASSUME TimeAssumption ==
  /\ BeforeEpoch \in Nat /\ LastReading \in Nat /\ MaxWall \in Nat
  /\ LastReading + Period <= MaxWall
ASSUME FaultAssumption == MaxSteps \in Nat /\ MaxKills \in Nat

VARIABLES
  clock,    \* the Clock in use
  wall,     \* the machine's wall clock
  record,   \* the journal: the reading, TimerScheduled, TimerFired
  pc,       \* where the process is
  reading,  \* what ctx.now() gave the workflow
  left,     \* what is left of the sleep
  skew,     \* what the clock was set by since the sleep began
  woke,     \* what the clock showed when the last wait returned
  steps, kills

process == <<pc, reading, left, skew, woke>>
vars == <<clock, wall, record, process, steps, kills>>

-----------------------------------------------------------------------------
NowRecorded(t) == [kind |-> "NowRecorded", time |-> t]
TimerScheduled(t) == [kind |-> "TimerScheduled", time |-> t]
TimerFired == [kind |-> "TimerFired", time |-> 0]

Deadline == reading + Period

\* Clock::now: a wall clock set before the epoch reads as the epoch.
Now == IF wall < 0 THEN 0 ELSE wall

\* The reading is taken before its bound.
Horizon == IF record = <<>> THEN LastReading ELSE MaxWall

Clocks == {"SystemClock", "TestClock"}

Init ==
  /\ clock \in Clocks
  /\ wall = - BeforeEpoch
  /\ record = <<>>
  /\ pc = "Down" /\ reading = 0 /\ left = 0 /\ skew = 0 /\ woke = 0
  /\ steps = 0 /\ kills = 0

Append1(event) == record' = Append(record, event)

Goto(label) == pc' = label

-----------------------------------------------------------------------------
(* The process.                                                            *)

Start ==
  /\ pc = "Down"
  /\ Goto("Now")
  /\ UNCHANGED <<wall, record, reading, left, skew, woke, steps, kills>>

\* ctx.now(): the recorded reading, or one that is about to be recorded.
ReadNow ==
  /\ pc = "Now"
  /\ IF record # <<>>
       THEN reading' = record[1].time /\ Goto("Sleep")
       ELSE reading' = Now /\ Goto("RecordNow")
  /\ UNCHANGED <<wall, record, left, skew, woke, steps, kills>>

RecordNow ==
  /\ pc = "RecordNow"
  /\ Append1(NowRecorded(reading))
  /\ Goto("Sleep")
  /\ UNCHANGED <<wall, reading, left, skew, woke, steps, kills>>

Scheduled == Len(record) >= 2
Fired == Len(record) = 3

\* ctx.sleep_until: a timer that fired is done with, one that is scheduled is
\* armed again, an unrecorded one is scheduled and armed.
Sleep ==
  /\ pc = "Sleep"
  /\ CASE Fired -> Goto("Done") /\ UNCHANGED record
       [] Scheduled /\ ~ Fired -> Goto("Arm") /\ UNCHANGED record
       [] ~ Scheduled -> Append1(TimerScheduled(Deadline)) /\ Goto("Arm")
  /\ UNCHANGED <<wall, reading, left, skew, woke, steps, kills>>

Blocks(remaining) ==
  /\ left' = remaining /\ skew' = wall - Now
  /\ Goto("Sleeping")
  /\ UNCHANGED woke

Returns ==
  /\ woke' = wall /\ skew' = wall - Now
  /\ Goto("Woken")
  /\ UNCHANGED left

\* Mutation: every wait is a whole period.
ArmPeriod ==
  /\ pc = "Arm"
  /\ Blocks(Period)
  /\ UNCHANGED <<wall, record, reading, steps, kills>>

\* Mutation: the test clock waits too.
ArmBlocking ==
  /\ pc = "Arm"
  /\ IF Deadline > Now THEN Blocks(Deadline - Now) ELSE Returns
  /\ UNCHANGED <<wall, record, reading, steps, kills>>

\* Clock::sleep_until reads the wall clock once and sleeps the difference.
Arm ==
  /\ pc = "Arm"
  /\ IF clock = "SystemClock" /\ Deadline > Now THEN Blocks(Deadline - Now) ELSE Returns
  /\ UNCHANGED <<wall, record, reading, steps, kills>>

\* Mutation: a wait that can be woken, such as thread::park_timeout.
WakeSpuriously ==
  /\ pc = "Sleeping"
  /\ woke' = wall
  /\ Goto("Woken")
  /\ UNCHANGED <<wall, record, reading, left, skew, steps, kills>>

\* thread::sleep returns, once its time is up or any time later.
Wake ==
  /\ pc = "Sleeping" /\ left = 0
  /\ woke' = wall
  /\ Goto("Woken")
  /\ UNCHANGED <<wall, record, reading, left, skew, steps, kills>>

Fire ==
  /\ pc = "Woken"
  /\ Append1(TimerFired)
  /\ Goto("Done")
  /\ UNCHANGED <<wall, reading, left, skew, woke, steps, kills>>

Kill ==
  /\ pc \notin {"Down", "Done"}
  /\ kills < MaxKills
  /\ kills' = kills + 1
  /\ pc' = "Down" /\ reading' = 0 /\ left' = 0 /\ skew' = 0 /\ woke' = 0
  /\ UNCHANGED <<wall, record, steps>>

-----------------------------------------------------------------------------
(* Time.                                                                   *)

Tick ==
  /\ clock = "SystemClock"
  /\ wall < Horizon
  /\ wall' = wall + 1
  /\ left' = IF left > 0 THEN left - 1 ELSE 0
  /\ UNCHANGED <<record, pc, reading, skew, woke, steps, kills>>

\* The clock is set: by an operator, by a time service, or by a suspension,
\* which the sleep does not count.
Set(w) ==
  /\ clock = "SystemClock"
  /\ steps < MaxSteps
  /\ w + left <= Horizon
  /\ wall' = w
  /\ skew' = IF pc = "Sleeping" THEN skew + w - wall ELSE skew
  /\ steps' = steps + 1
  /\ UNCHANGED <<record, pc, reading, left, woke, kills>>

\* TestClock::advance_millis.
Advance(w) ==
  /\ clock = "TestClock"
  /\ wall < w /\ w <= Horizon
  /\ wall' = w
  /\ UNCHANGED <<record, process, steps, kills>>

-----------------------------------------------------------------------------
Run ==
  /\ Start \/ ReadNow \/ RecordNow \/ Sleep \/ Arm \/ Wake \/ Fire
  /\ UNCHANGED clock

Pass == Tick /\ UNCHANGED clock

Disturb ==
  /\ Kill \/ \E w \in (- BeforeEpoch) .. MaxWall : Set(w) \/ Advance(w)
  /\ UNCHANGED clock

Next == Run \/ Pass \/ Disturb

Spec == Init /\ [][Next]_vars

\* A killed process is started again, a process runs, and time passes.
FairSpec == Spec /\ WF_vars(Run) /\ WF_vars(Pass)

-----------------------------------------------------------------------------
(* Properties.                                                             *)

Pcs == {"Down", "Now", "RecordNow", "Sleep", "Arm", "Sleeping", "Woken", "Done"}

TimerEvents ==
  [kind : {"NowRecorded", "TimerScheduled", "TimerFired"}, time : 0 .. MaxWall]

\* The reading first, one timer at the period's distance, fired once.
IsRecord(r) ==
  /\ r \in Seq(TimerEvents) /\ Len(r) <= 3
  /\ Len(r) >= 1 => \E t \in 0 .. LastReading : r[1] = NowRecorded(t)
  /\ Len(r) >= 2 => r[2] = TimerScheduled(r[1].time + Period)
  /\ Len(r) = 3 => r[3] = TimerFired

TypeOK ==
  /\ clock \in Clocks
  /\ wall \in Int /\ wall <= MaxWall
  /\ IsRecord(record)
  /\ pc \in Pcs
  /\ reading \in Nat /\ left \in Nat
  /\ skew \in Int /\ woke \in Int
  /\ steps \in 0 .. MaxSteps /\ kills \in 0 .. MaxKills

\* "Restart must not reset the clock": whenever a process sleeps, however often
\* it was restarted and the clock was set, what is left of the sleep ends at
\* the deadline computed from the first reading, but for what the clock was
\* set by during this very sleep.
SleepEndsAtDeadline ==
  pc = "Sleeping" /\ left > 0 => wall + left = record[1].time + Period + skew

\* A wait ends before its deadline only by as much as the clock was set back
\* while it lasted, or lay before the epoch when it began.
WakesEarlyOnlyBySkew ==
  pc = "Woken" /\ clock = "SystemClock" /\ woke < Deadline =>
    skew < 0 /\ woke >= Deadline + skew

\* A timer on record is eventually recorded as fired: waits end, under
\* TestClock although no time passes, and a killed process's timer is armed
\* again.
EventuallyFires == Scheduled ~> Fired
=============================================================================
