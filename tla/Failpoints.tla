----------------------------- MODULE Failpoints -----------------------------
(***************************************************************************)
(* Crash injection (src/failpoints.rs) driving Engine: one CrashOnce       *)
(* policy, a first run under it, and recoveries under the same policy or   *)
(* under NeverCrash, as in tests/crash_recovery.rs and examples/signup.rs. *)
(* Nothing but the policy interrupts a run.                                *)
(***************************************************************************)
EXTENDS EngineTraces, EngineRecord

VARIABLES
  policy,  \* CrashOnce: its window and whether it fired
  given    \* the policy each engine was built with

fvars == <<vars, policy, given>>

Points ==
  {"BeforeStepScheduled", "AfterStepScheduled", "AfterStepStarted", "AfterSideEffect",
   "AfterStepCompleted", "AfterTimerScheduled", "AfterTimerFired"}

CrashPoints == [point : Points, seq : 0 .. MaxSeq - 1]

\* The window a run consults its policy at.
Consults(r) == CrashPointOf(r) # "none"

PointOf(r) == [point |-> CrashPointOf(r), seq |-> Position(r)]

FailpointsInit ==
  /\ Init
  /\ policy \in [at : CrashPoints, fired : {FALSE}]
  /\ given = [e \in Engines |-> "NeverCrash"]

CrashOnce(point) == point = policy.at /\ ~ policy.fired

\* FailpointPolicy::at, of the policy the engine was built with.
Crashes(e) ==
  /\ Consults(run[e])
  /\ given[e] = "CrashOnce"
  /\ CrashOnce(PointOf(run[e]))

-----------------------------------------------------------------------------
(* Engine::with_failpoints or Engine::new, and what is called on it.       *)

Run(e, definition, input) ==
  /\ journal = <<>>
  /\ RunAcquire(e, definition, input)
  /\ given' = [given EXCEPT ![e] = "CrashOnce"]
  /\ UNCHANGED policy

Recover(e) ==
  /\ journal # <<>>
  /\ RecoverAcquire(e, journal[1].value.definition)
  /\ given' \in {[given EXCEPT ![e] = p] : p \in {"CrashOnce", "NeverCrash"}}
  /\ UNCHANGED policy

\* checkpoint: the policy says Crash.
Crash(e) ==
  /\ Crashes(e)
  /\ InjectCrash(e)
  /\ policy' = [policy EXCEPT !.fired = TRUE]
  /\ UNCHANGED given

\* The policy says Continue, or is not asked.
Continue(e) ==
  /\ ~ Crashes(e)
  /\ Proceed(e)
  /\ UNCHANGED <<policy, given>>

Drive(e) ==
  \/ \E d \in Definitions, i \in Payloads : Run(e, d, i)
  \/ Recover(e) \/ Crash(e) \/ Continue(e)

FailpointsNext == \E e \in Engines : Drive(e)

FailpointsSpec == FailpointsInit /\ [][FailpointsNext]_fvars

\* A single thread drives the runs to their end.
FailpointsFairSpec == FailpointsSpec /\ WF_fvars(FailpointsNext)

-----------------------------------------------------------------------------
(* Properties.                                                             *)

\* The executions of the body of the step the policy is set to.
ArmedStepRuns == {k \in DOMAIN Observed : Observed[k].operation = policy.at.seq}

\* "Exact trace equality holds except at AfterSideEffect, where the effect
\* outran its journal record": there, and only there, a crash repeats one
\* effect, its own, once and next to the original (tests/crash_recovery.rs,
\* the charges and accounts of examples/signup.rs).
OnlyTheWindowAfterTheEffectRepeatsIt ==
  Terminal(journal) =>
    IF policy.fired /\ policy.at.point = "AfterSideEffect"
      THEN E!SingleAdjacentDuplicate(Observed, Uninterrupted) /\ Cardinality(ArmedStepRuns) = 2
      ELSE E!ExactTrace(Observed, Uninterrupted)

\* The windows an event's live path goes through.
WindowsOf(ev) ==
  [point : CASE ev.kind = "StepScheduled" -> {"BeforeStepScheduled", "AfterStepScheduled"}
             [] ev.kind = "StepStarted" -> {"AfterStepStarted"}
             [] ev.kind = "StepCompleted" -> {"AfterSideEffect", "AfterStepCompleted"}
             [] ev.kind = "TimerScheduled" -> {"AfterTimerScheduled"}
             [] ev.kind = "TimerFired" -> {"AfterTimerFired"}
             [] OTHER -> {},
   seq : {ev.seq}]

\* A run that ends without the policy firing went through no such window: the
\* live paths consult it at every CrashPoint they pass.
NoWindowIsSkipped ==
  Terminal(journal) /\ ~ policy.fired =>
    \A k \in DOMAIN journal : policy.at \notin WindowsOf(journal[k])

\* Only a record of the end can follow.
Exhausted(j) == j # <<>> /\ (Terminal(j) \/ EndState(j) = Ready(MaxSeq))

\* The first run, which consults the armed policy and executes live.
ArmedRun(e) ==
  /\ given[e] = "CrashOnce"
  /\ run[e].mode = "Live" /\ Healthy(run[e]) /\ run[e].pc # "Recovering"
  /\ run[e].pc = "Starting" => journal = <<>>

\* Until the policy fires, runs are first runs or have nothing left to write but
\* the end, and a window of the policy's is one the run is about to crash in.
WindowInv ==
  /\ policy \in [at : CrashPoints, fired : BOOLEAN]
  /\ given \in [Engines -> {"CrashOnce", "NeverCrash"}]
  /\ ~ policy.fired =>
       /\ journal = <<>> \/ Exhausted(journal) \/ \E e \in Engines : run[e].pc # "Idle"
       /\ \A e \in Engines : run[e].pc # "Idle" => Exhausted(journal) \/ ArmedRun(e)
       /\ \A k \in DOMAIN journal : policy.at \in WindowsOf(journal[k]) =>
            k = Len(journal) /\ \E e \in Engines : Crashes(e) /\ run[e].pc # "Appending"

\* A crash after the side effect loses the outcome, and the next run repeats the
\* effect; with any other crash, or none, no effect is or will be repeated.
CrashInv ==
  /\ interruptions = IF policy.fired THEN 1 ELSE 0
  /\ IF policy.fired /\ policy.at.point = "AfterSideEffect"
       THEN \/ Lost /\ EndState(journal).seq = policy.at.seq
            \/ \E i, k \in ArmedStepRuns : i # k
       ELSE Len(effects) + (IF Lost THEN 1 ELSE 0)
              <= Cardinality({effects[k].seq : k \in DOMAIN effects})

\* "One value can drive both the crashing run and a reused recovery run": the
\* execution ends although every recovery reuses the policy.
CrashedRunsRecover == <>Terminal(journal)
=============================================================================
