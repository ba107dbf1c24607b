------------------------------- MODULE Engine -------------------------------
(***************************************************************************)
(* One execution, the engines that compete to run it, and the workflow     *)
(* code they drive (src/engine.rs, src/context.rs, the JournalStore        *)
(* contract of src/journal.rs).                                            *)
(*                                                                         *)
(* Several engines, in one process or many, call Engine::run and           *)
(* Engine::recover_and_run on the same execution.  The store's lease       *)
(* admits one at a time; every append, step body and checkpoint is a step  *)
(* of its own, and between any two of them the process can die, a          *)
(* failpoint can fire or the append can fail with the event durable or     *)
(* not.  Executions share nothing in the store, so one is enough.          *)
(***************************************************************************)
EXTENDS History, FiniteSets

CONSTANTS
  Engines,
  NoOwner,
  MaxInterruptions,  \* bound on kills, injected crashes and store errors
  Code(_, _, _)      \* Code(definition, input, obs): what the workflow's code
                     \* may do after its commands returned the results obs

ASSUME EngineAssumption == NoOwner \notin Engines
ASSUME InterruptionAssumption == MaxInterruptions \in Nat

VARIABLES
  journal,        \* the events durable in the store
  owner,          \* the engine that holds the execution's lease
  run,            \* what each engine is doing
  effects,        \* step bodies executed, in order
  replies,        \* final outcomes returned to callers
  interruptions

vars == <<journal, owner, run, effects, replies, interruptions>>

-----------------------------------------------------------------------------
(* A run: the lease holder's stack, WorkflowCtx included.  `seq` is the    *)
(* context's next command position, `obs` the results its commands have    *)
(* returned, `pending` the event being appended or the last one appended.  *)

Pcs == {"Idle", "Starting", "Recovering", "Workflow", "ReplayStep", "ReplayTimer",
        "Appending", "AfterStepScheduled", "AfterStepStarted", "AfterStepCompleted",
        "AfterTimerScheduled", "AfterTimerFired"}

Faults == {"Sequence", "Attempt", "Nondeterminism", "Journal", "InjectedCrash"}

NoDefinition == [workflow |-> NoValue, version |-> NoValue]

NoEvent == Event("None", 0, 0, NoValue)

IdleRun ==
  [pc |-> "Idle", definition |-> NoDefinition, input |-> NoValue,
   mode |-> "Live", history |-> <<>>, pos |-> 1, seq |-> 0, health |-> "Healthy",
   obs |-> <<>>, pending |-> NoEvent, step |-> NoValue, attempt |-> 0]

Runs ==
  [pc : Pcs, definition : Definitions \cup {NoDefinition},
   input : Payloads \cup {NoValue}, mode : {"Live", "Replaying"},
   history : Seq(Events), pos : Nat, seq : Seqs, health : Faults \cup {"Healthy"},
   obs : Seq(Results), pending : Events \cup {NoEvent}, step : StepNames \cup {NoValue},
   attempt : 0 .. MaxAttempt + 1]

Effects == [seq : Seqs, attempt : Attempts, step : StepNames, result : Results]

Init ==
  /\ journal = <<>>
  /\ owner = NoOwner
  /\ run = [e \in Engines |-> IdleRun]
  /\ effects = <<>>
  /\ replies = {}
  /\ interruptions = 0

Set(e, r) == run' = [run EXCEPT ![e] = r]

Update(e, r) == Set(e, r) /\ UNCHANGED <<journal, owner, effects, replies, interruptions>>

\* Mutation: the handle is kept and the lease leaks.
EndRunHolding(e) == Set(e, IdleRun) /\ UNCHANGED owner

\* Returning from run or recover_and_run drops the Execution handle, and
\* with it the lease.
EndRun(e) == Set(e, IdleRun) /\ owner' = NoOwner

\* The run is about to append ev.
Begin(r, ev) == [r EXCEPT !.pc = "Appending", !.pending = ev]

\* The command's locals go out of scope.
Back(r) ==
  [r EXCEPT !.pc = "Workflow", !.pending = NoEvent, !.step = NoValue, !.attempt = 0]

\* A command returns a result to workflow code.
Return(r, result) == [Back(r) EXCEPT !.obs = Append(@, result)]

\* retain_engine_result keeps the first fault; the command returns an error.
Fault(r, error) == [Back(r) EXCEPT !.health = error]

\* Mode::Live replaces the cursor.
GoLive(r) == [r EXCEPT !.mode = "Live", !.history = <<>>, !.pos = 1]

-----------------------------------------------------------------------------
(* Acquiring the execution.  An engine refused the lease returns at once   *)
(* and changes nothing.                                                    *)

\* Mutation: starting without the lease.
RunUnleased(e, definition, input) ==
  /\ run[e].pc = "Idle"
  /\ owner' = e
  /\ Set(e, [IdleRun EXCEPT !.pc = "Starting", !.definition = definition, !.input = input])
  /\ UNCHANGED <<journal, effects, replies, interruptions>>

\* Execution::new, for Engine::run.
RunAcquire(e, definition, input) ==
  /\ run[e].pc = "Idle"
  /\ owner = NoOwner
  /\ owner' = e
  /\ Set(e, [IdleRun EXCEPT !.pc = "Starting", !.definition = definition, !.input = input])
  /\ UNCHANGED <<journal, effects, replies, interruptions>>

\* Execution::recover, up to its lease.
RecoverAcquire(e, definition) ==
  /\ run[e].pc = "Idle"
  /\ owner = NoOwner
  /\ owner' = e
  /\ Set(e, [IdleRun EXCEPT !.pc = "Recovering", !.definition = definition])
  /\ UNCHANGED <<journal, effects, replies, interruptions>>

StartExisting(e) ==
  /\ run[e].pc = "Starting"
  /\ journal # <<>>
  /\ EndRun(e)
  /\ UNCHANGED <<journal, effects, replies, interruptions>>

StartAbsent(e) ==
  /\ run[e].pc = "Starting"
  /\ journal = <<>>
  /\ Update(e, Begin(run[e], ExecutionStarted([definition |-> run[e].definition,
                                               input |-> run[e].input])))

\* Mutation: select compares names and forgets versions.
RecoverErrorAnyVersion(definition) ==
  IF journal = <<>> THEN "MissingExecution"
  ELSE IF journal[1].value.definition.workflow # definition.workflow
    THEN "WorkflowMismatch"
  ELSE IF ~ Parses(journal) THEN "History"
  ELSE "none"

\* Invocation::parse and select, then ValidatedHistory::parse.
RecoverError(definition) ==
  IF journal = <<>> THEN "MissingExecution"
  ELSE IF \/ journal[1].kind # "ExecutionStarted"
          \/ \E i \in 2 .. Len(journal) : journal[i].kind = "ExecutionStarted"
    THEN "InvalidInvocation"
  ELSE IF journal[1].value.definition.workflow # definition.workflow
    THEN "WorkflowMismatch"
  ELSE IF journal[1].value.definition.version # definition.version
    THEN "VersionMismatch"
  ELSE IF ~ Parses(journal) THEN "History"
  ELSE "none"

RecoverRejected(e) ==
  /\ run[e].pc = "Recovering"
  /\ RecoverError(run[e].definition) # "none"
  /\ EndRun(e)
  /\ UNCHANGED <<journal, effects, replies, interruptions>>

\* A terminal execution answers from its record; no workflow code runs.
RecoverTerminal(e) ==
  /\ run[e].pc = "Recovering"
  /\ RecoverError(run[e].definition) = "none"
  /\ Terminal(journal)
  /\ replies' = replies \cup {ResultOf(journal[Len(journal)])}
  /\ EndRun(e)
  /\ UNCHANGED <<journal, effects, interruptions>>

\* Mutation: the recorded events are not replayed.
RecoverWithoutReplay(e) ==
  /\ run[e].pc = "Recovering"
  /\ RecoverError(run[e].definition) = "none"
  /\ ~ Terminal(journal)
  /\ Update(e, [run[e] EXCEPT !.pc = "Workflow", !.input = journal[1].value.input])

\* The input is the recorded one, and replay starts after the start record.
RecoverRunning(e) ==
  /\ run[e].pc = "Recovering"
  /\ RecoverError(run[e].definition) = "none"
  /\ ~ Terminal(journal)
  /\ Update(e, [run[e] EXCEPT !.pc = "Workflow",
                  !.input = journal[1].value.input,
                  !.history = journal, !.pos = 2,
                  !.mode = IF Len(journal) > 1 THEN "Replaying" ELSE "Live"])

-----------------------------------------------------------------------------
(* A command of the workflow.  ensure_healthy refuses it after a fault,    *)
(* changing nothing; otherwise it takes the next position.                 *)

\* Mutation: the last event counts as read.
UnreadButLast(r) == r.mode = "Replaying" /\ r.pos < Len(r.history)

Unread(r) == r.mode = "Replaying" /\ r.pos <= Len(r.history)

NextRecorded(r) == r.history[r.pos]

\* Mutation: ensure_healthy is forgotten.
HealthyAlways(r) == TRUE

Healthy(r) == r.health = "Healthy"

\* The workflow's code may issue cmd now.
Issues(r, cmd) ==
  /\ r.pc = "Workflow"
  /\ Healthy(r)
  /\ cmd \in Code(r.definition, r.input, r.obs)

\* The command takes a position and is resolved.
Takes(r, cmd) == Issues(r, cmd) /\ r.seq < MaxSeq

\* The run once the command has taken its position, now seq - 1.
Taken(r) == [r EXCEPT !.seq = @ + 1]

Position(r) == r.seq - 1

\* The recorded event answers the command: same kind, and the same name or
\* deadline where it has one.
Matches(ev, cmd) ==
  /\ ev.kind = RecordKind(cmd.kind)
  /\ cmd.kind \in {"RunStep", "Sleep"} => ev.value = cmd.arg

SequenceExhausted(e) ==
  /\ \E cmd \in Commands : Issues(run[e], cmd)
  /\ run[e].seq = MaxSeq
  /\ Update(e, Fault(run[e], "Sequence"))

\* Replay leaves the cursor on the event the code did not produce.
Diverges(e, cmd) ==
  /\ Takes(run[e], cmd)
  /\ Unread(run[e])
  /\ ~ Matches(NextRecorded(run[e]), cmd)
  /\ Update(e, Fault(Taken(run[e]), "Nondeterminism"))

ReplayReading(e, cmd) ==
  /\ Takes(run[e], cmd)
  /\ cmd.kind \in {"ReadNow", "DrawRandom"}
  /\ Unread(run[e])
  /\ Matches(NextRecorded(run[e]), cmd)
  /\ Update(e, [Return(Taken(run[e]), ResultOf(NextRecorded(run[e]))) EXCEPT !.pos = @ + 1])

\* The cursor moves past the scheduling record; what follows it decides.
ReplayScheduled(e, cmd) ==
  /\ Takes(run[e], cmd)
  /\ cmd.kind \in {"RunStep", "Sleep"}
  /\ Unread(run[e])
  /\ Matches(NextRecorded(run[e]), cmd)
  /\ Update(e, IF cmd.kind = "RunStep"
                 THEN [Taken(run[e]) EXCEPT !.pc = "ReplayStep", !.pos = @ + 1,
                                            !.step = cmd.arg, !.attempt = 1]
                 ELSE [Taken(run[e]) EXCEPT !.pc = "ReplayTimer", !.pos = @ + 1])

\* One turn of replay_step_outcome's loop; `attempt` is the next attempt.
ReplayAttempt(e) ==
  /\ run[e].pc = "ReplayStep"
  /\ Unread(run[e])
  /\ NextRecorded(run[e]).kind = "StepStarted"
  /\ Update(e, [run[e] EXCEPT !.pos = @ + 1, !.attempt = NextRecorded(run[e]).attempt + 1])

\* A recorded outcome, or an event that cannot follow.
ReplayFollower(e) ==
  LET r == run[e]
      answers == IF r.pc = "ReplayStep" THEN {"StepCompleted", "StepFailed"}
                                        ELSE {"TimerFired"}
  IN /\ r.pc \in {"ReplayStep", "ReplayTimer"}
     /\ Unread(r)
     /\ NextRecorded(r).kind # "StepStarted" \/ r.pc = "ReplayTimer"
     /\ Update(e, IF NextRecorded(r).kind \in answers
                    THEN [Return(r, ResultOf(NextRecorded(r))) EXCEPT !.pos = @ + 1]
                    ELSE Fault(r, "Nondeterminism"))

\* Mutation: a retry starts the count again.
RerunAsFirstAttempt(e) ==
  /\ run[e].pc = "ReplayStep"
  /\ ~ Unread(run[e])
  /\ Update(e, Begin([GoLive(run[e]) EXCEPT !.attempt = 1], StepStarted(Position(run[e]), 1)))

\* Mutation: an interrupted body is taken to have succeeded.
RerunAssumingSuccess(e) ==
  /\ run[e].pc = "ReplayStep"
  /\ ~ Unread(run[e])
  /\ \E v \in Payloads : Update(e, Begin(GoLive(run[e]), StepCompleted(Position(run[e]), v)))

\* Mutation: the rerun leaves the cursor in place.
RerunWhileReplaying(e) ==
  /\ run[e].pc = "ReplayStep"
  /\ ~ Unread(run[e])
  /\ Update(e, IF run[e].attempt > MaxAttempt
                 THEN Fault(run[e], "Attempt")
                 ELSE Begin(run[e], StepStarted(Position(run[e]), run[e].attempt)))

\* The journal ends inside the step: run it again as the next attempt.
RerunStep(e) ==
  /\ run[e].pc = "ReplayStep"
  /\ ~ Unread(run[e])
  /\ Update(e, IF run[e].attempt > MaxAttempt
                 THEN Fault(run[e], "Attempt")
                 ELSE Begin(GoLive(run[e]),
                            StepStarted(Position(run[e]), run[e].attempt)))

\* The journal ends inside the timer: wait for the recorded deadline.
Rearm(e) ==
  /\ run[e].pc = "ReplayTimer"
  /\ ~ Unread(run[e])
  /\ Update(e, Begin(GoLive(run[e]), TimerFired(Position(run[e]))))

-----------------------------------------------------------------------------
(* Live execution.                                                         *)

\* The event a live command appends first; now() and random() read before
\* they append.
FirstEvents(seq, cmd) ==
  CASE cmd.kind = "RunStep" -> {StepScheduled(seq, cmd.arg)}
    [] cmd.kind = "ReadNow" -> {NowRecorded(seq, t) : t \in Timestamps}
    [] cmd.kind = "DrawRandom" -> {RandomRecorded(seq, b) : b \in RandomDraws}
    [] cmd.kind = "Sleep" -> {TimerScheduled(seq, cmd.arg)}

BeginCommand(e, cmd) ==
  /\ Takes(run[e], cmd)
  /\ ~ Unread(run[e])
  /\ \E ev \in FirstEvents(run[e].seq, cmd) :
       Update(e, [Begin(GoLive(Taken(run[e])), ev)
                    EXCEPT !.step = IF cmd.kind = "RunStep" THEN cmd.arg ELSE NoValue])

\* Mutation: the body runs before its attempt is durable.
StartUnrecorded(e) ==
  /\ run[e].pc = "AfterStepScheduled"
  /\ Update(e, [run[e] EXCEPT !.attempt = 1, !.pc = "AfterStepStarted"])

StartFirstAttempt(e) ==
  /\ run[e].pc = "AfterStepScheduled"
  /\ Update(e, Begin([run[e] EXCEPT !.attempt = 1], StepStarted(Position(run[e]), 1)))

\* Mutation: a failed body is called again on the spot.
RunBodyAgain(e) ==
  /\ run[e].pc = "AfterStepStarted"
  /\ Len(effects) <= MaxSeq + MaxInterruptions
  /\ \E v \in Payloads, again \in BOOLEAN :
       LET ev == StepCompleted(Position(run[e]), v)
       IN /\ effects' = Append(effects, [seq |-> Position(run[e]), attempt |-> run[e].attempt,
                                         step |-> run[e].step, result |-> ResultOf(ev)])
          /\ Set(e, IF again THEN run[e] ELSE Begin(run[e], ev))
  /\ UNCHANGED <<journal, owner, replies, interruptions>>

\* The body's effects land and it returns; its outcome is not durable yet.
RunBody(e) ==
  /\ run[e].pc = "AfterStepStarted"
  /\ \E ev \in {StepCompleted(Position(run[e]), v) : v \in Payloads}
               \cup {StepFailed(Position(run[e]), run[e].attempt, x) : x \in StepErrors} :
       /\ effects' = Append(effects, [seq |-> Position(run[e]), attempt |-> run[e].attempt,
                                      step |-> run[e].step, result |-> ResultOf(ev)])
       /\ Set(e, Begin(run[e], ev))
  /\ UNCHANGED <<journal, owner, replies, interruptions>>

\* Clock::sleep_until returns.
Wake(e) ==
  /\ run[e].pc = "AfterTimerScheduled"
  /\ Update(e, Begin(run[e], TimerFired(Position(run[e]))))

ReturnRecorded(e) ==
  /\ run[e].pc \in {"AfterStepCompleted", "AfterTimerFired"}
  /\ Update(e, Return(run[e], ResultOf(run[e].pending)))

-----------------------------------------------------------------------------
(* JournalStore::append, and where the run continues.                      *)

\* The checkpoint after each event that has one.
CheckpointAfter ==
  [StepScheduled |-> "AfterStepScheduled", StepStarted |-> "AfterStepStarted",
   StepCompleted |-> "AfterStepCompleted", TimerScheduled |-> "AfterTimerScheduled",
   TimerFired |-> "AfterTimerFired"]

AppendThenCheckpoint(e) ==
  /\ run[e].pc = "Appending"
  /\ run[e].pending.kind \in DOMAIN CheckpointAfter
  /\ journal' = Append(journal, run[e].pending)
  /\ Set(e, [run[e] EXCEPT !.pc = CheckpointAfter[run[e].pending.kind]])
  /\ UNCHANGED <<owner, effects, replies, interruptions>>

\* No checkpoint follows a reading or a failed step.
AppendThenReturn(e) ==
  /\ run[e].pc = "Appending"
  /\ run[e].pending.kind \in {"NowRecorded", "RandomRecorded", "StepFailed"}
  /\ journal' = Append(journal, run[e].pending)
  /\ Set(e, Return(run[e], ResultOf(run[e].pending)))
  /\ UNCHANGED <<owner, effects, replies, interruptions>>

\* The workflow starts over an empty cursor, hence live.
AppendStart(e) ==
  /\ run[e].pc = "Appending"
  /\ run[e].pending.kind = "ExecutionStarted"
  /\ journal' = Append(journal, run[e].pending)
  /\ Set(e, Back(run[e]))
  /\ UNCHANGED <<owner, effects, replies, interruptions>>

AppendTerminal(e) ==
  /\ run[e].pc = "Appending"
  /\ run[e].pending.kind \in TerminalKinds
  /\ journal' = Append(journal, run[e].pending)
  /\ replies' = replies \cup {ResultOf(run[e].pending)}
  /\ EndRun(e)
  /\ UNCHANGED <<effects, interruptions>>

-----------------------------------------------------------------------------
(* The workflow returns and Engine::finish seals the execution, unless the *)
(* context faulted, whatever the workflow made of the fault, or replay is  *)
(* incomplete.                                                             *)

Outcomes ==
  [kind : {"Ok"}, arg : Payloads] \cup [kind : {"Err"}, arg : WorkflowErrors]

Returns(r, outcome) == r.pc = "Workflow" /\ outcome \in Code(r.definition, r.input, r.obs)

\* Mutation: unread history does not stop the seal.
ReplayCompleteAlways(r) == TRUE

ReplayComplete(r) == ~ Unread(r)

\* Mutation: the workflow's own error is recorded although the run faulted.
FinishFaultedAsFailed(e) ==
  /\ run[e].pc = "Workflow"
  /\ ~ Healthy(run[e])
  /\ \E x \in WorkflowErrors : Update(e, Begin(run[e], ExecutionFailed(x)))

\* Code that saw an engine error may return whatever it likes.
FinishFaulted(e) ==
  /\ run[e].pc = "Workflow"
  /\ ~ Healthy(run[e])
  /\ EndRun(e)
  /\ UNCHANGED <<journal, effects, replies, interruptions>>

FinishUnconsumed(e, outcome) ==
  /\ Returns(run[e], outcome)
  /\ Healthy(run[e])
  /\ ~ ReplayComplete(run[e])
  /\ EndRun(e)
  /\ UNCHANGED <<journal, effects, replies, interruptions>>

Finish(e, outcome) ==
  /\ Returns(run[e], outcome)
  /\ Healthy(run[e])
  /\ ReplayComplete(run[e])
  /\ Update(e, Begin(run[e], IF outcome.kind = "Ok" THEN ExecutionCompleted(outcome.arg)
                                                    ELSE ExecutionFailed(outcome.arg)))

-----------------------------------------------------------------------------
(* What interrupts a run.                                                  *)

Interrupt ==
  /\ interruptions < MaxInterruptions
  /\ interruptions' = interruptions + 1

\* The process dies; the operating system releases its lock.
Kill(e) ==
  /\ run[e].pc # "Idle"
  /\ Interrupt
  /\ EndRun(e)
  /\ UNCHANGED <<journal, effects, replies>>

\* Mutation: no checkpoint once a timer fired.
CrashPointOfSteps(r) ==
  IF r.pc = "Appending" /\ r.pending.kind = "StepScheduled" THEN "BeforeStepScheduled"
  ELSE IF r.pc = "Appending" /\ r.pending.kind = "StepCompleted" THEN "AfterSideEffect"
  ELSE IF r.pc \in {"AfterStepScheduled", "AfterStepStarted", "AfterStepCompleted",
                    "AfterTimerScheduled"} THEN r.pc
  ELSE "none"

\* The CrashPoint a run stands at, or "none".
CrashPointOf(r) ==
  IF r.pc = "Appending" /\ r.pending.kind = "StepScheduled" THEN "BeforeStepScheduled"
  ELSE IF r.pc = "Appending" /\ r.pending.kind = "StepCompleted" THEN "AfterSideEffect"
  ELSE IF r.pc \in {CheckpointAfter[k] : k \in DOMAIN CheckpointAfter} THEN r.pc
  ELSE "none"

\* A failpoint fires: a fault the workflow can catch, unlike Kill.
InjectCrash(e) ==
  /\ CrashPointOf(run[e]) # "none"
  /\ Interrupt
  /\ Set(e, Fault(run[e], "InjectedCrash"))
  /\ UNCHANGED <<journal, owner, effects, replies>>

\* A store error leaves the event durable or absent.
AppendUncertain(r) == journal' \in {journal, Append(journal, r.pending)}

LifecycleKinds == TerminalKinds \cup {"ExecutionStarted"}

\* Mutation: the append error is dropped and the command succeeds.
CommandAppendUnchecked(e) ==
  /\ run[e].pc = "Appending"
  /\ run[e].pending.kind \in {"NowRecorded", "RandomRecorded", "StepFailed"}
  /\ Interrupt
  /\ AppendUncertain(run[e])
  /\ Set(e, Return(run[e], ResultOf(run[e].pending)))
  /\ UNCHANGED <<owner, effects, replies>>

CommandAppendFails(e) ==
  /\ run[e].pc = "Appending"
  /\ run[e].pending.kind \notin LifecycleKinds
  /\ Interrupt
  /\ AppendUncertain(run[e])
  /\ Set(e, Fault(run[e], "Journal"))
  /\ UNCHANGED <<owner, effects, replies>>

\* Mutation: the outcome is reported although its append failed.
LifecycleAppendUnchecked(e) ==
  /\ run[e].pc = "Appending"
  /\ run[e].pending.kind \in TerminalKinds
  /\ Interrupt
  /\ AppendUncertain(run[e])
  /\ replies' = replies \cup {ResultOf(run[e].pending)}
  /\ EndRun(e)
  /\ UNCHANGED effects

LifecycleAppendFails(e) ==
  /\ run[e].pc = "Appending"
  /\ run[e].pending.kind \in LifecycleKinds
  /\ Interrupt
  /\ AppendUncertain(run[e])
  /\ EndRun(e)
  /\ UNCHANGED <<effects, replies>>

LoadFails(e) ==
  /\ run[e].pc \in {"Starting", "Recovering"}
  /\ Interrupt
  /\ EndRun(e)
  /\ UNCHANGED <<journal, effects, replies>>

-----------------------------------------------------------------------------
Acquire(e) ==
  \/ \E d \in Definitions, i \in Payloads : RunAcquire(e, d, i)
  \/ \E d \in Definitions : RecoverAcquire(e, d)

Enter(e) ==
  StartExisting(e) \/ StartAbsent(e)
    \/ RecoverRejected(e) \/ RecoverTerminal(e) \/ RecoverRunning(e)

Command(e) ==
  \/ SequenceExhausted(e)
  \/ \E cmd \in Commands :
       Diverges(e, cmd) \/ ReplayReading(e, cmd) \/ ReplayScheduled(e, cmd)
         \/ BeginCommand(e, cmd)

Resolve(e) ==
  ReplayAttempt(e) \/ ReplayFollower(e) \/ RerunStep(e) \/ Rearm(e)
    \/ StartFirstAttempt(e) \/ RunBody(e) \/ Wake(e) \/ ReturnRecorded(e)

AppendEvent(e) ==
  AppendThenCheckpoint(e) \/ AppendThenReturn(e) \/ AppendStart(e) \/ AppendTerminal(e)

Leave(e) ==
  \/ FinishFaulted(e)
  \/ \E outcome \in Outcomes : FinishUnconsumed(e, outcome) \/ Finish(e, outcome)

Interruption(e) ==
  Kill(e) \/ InjectCrash(e) \/ CommandAppendFails(e) \/ LifecycleAppendFails(e) \/ LoadFails(e)

\* What an engine does once it holds the lease and nothing interferes.
Proceed(e) == Enter(e) \/ Command(e) \/ Resolve(e) \/ AppendEvent(e) \/ Leave(e)

Next == \E e \in Engines : Acquire(e) \/ Proceed(e) \/ Interruption(e)

Spec == Init /\ [][Next]_vars
-----------------------------------------------------------------------------
(* Properties.                                                             *)

TypeOK ==
  /\ journal \in Seq(Events)
  /\ owner \in Engines \cup {NoOwner}
  /\ run \in [Engines -> Runs]
  /\ effects \in Seq(Effects)
  /\ replies \subseteq {ResultOf(ExecutionCompleted(v)) : v \in Payloads}
                     \cup {ResultOf(ExecutionFailed(x)) : x \in WorkflowErrors}
  /\ interruptions \in 0 .. MaxInterruptions

\* Whatever the interleaving, the crashes and the uncertain appends, what the
\* engines write is a history recovery can read: positions, attempts, timers
\* and the terminal record are in order (context.rs against history.rs).
HistoryLegal == journal # <<>> => Legal(journal)

\* An engine works on the execution only while it holds the lease, and the
\* lease is free once its run is over (Execution's lease field).
LeaseExclusive == \A e \in Engines : run[e].pc # "Idle" <=> owner = e

Settles(ev, seq) == ev.kind \in SettlingKinds /\ ev.seq = seq

\* A result workflow code has seen is durable, at the position of the command
\* that returned it: no crash can take back what code acted upon.
ObservedIsDurable ==
  \A e \in Engines : \A k \in DOMAIN run[e].obs :
    \E i \in DOMAIN journal :
      Settles(journal[i], k - 1) /\ ResultOf(journal[i]) = run[e].obs[k]

\* A body runs at most once per attempt, and only after the attempt is
\* durable; bodies run in the order of their commands.
EffectsFollowAttempts ==
  /\ \A k \in DOMAIN effects : \E i \in DOMAIN journal :
       journal[i] = StepStarted(effects[k].seq, effects[k].attempt)
  /\ \A k, m \in DOMAIN effects : k < m =>
       \/ effects[k].seq < effects[m].seq
       \/ effects[k].seq = effects[m].seq /\ effects[k].attempt < effects[m].attempt

\* Each interruption costs at most one repeated body.
RepeatsNeedInterruptions ==
  Len(effects) <= Cardinality({effects[k].seq : k \in DOMAIN effects}) + interruptions

\* The durable outcome of a step is what its last execution returned.
OutcomeWasPerformed ==
  \A i \in DOMAIN journal : journal[i].kind \in {"StepCompleted", "StepFailed"} =>
    \E k \in DOMAIN effects :
      /\ effects[k].seq = journal[i].seq
      /\ effects[k].result = ResultOf(journal[i])
      /\ \A m \in DOMAIN effects : effects[m].seq = journal[i].seq => m <= k

\* Every final outcome a caller was given is the one on record, so callers
\* never disagree (finish, AlreadyCompleted, AlreadyFailed).
RepliesAreDurable ==
  \A reply \in replies : Terminal(journal) /\ reply = ResultOf(journal[Len(journal)])

\* A parsed history never strands replay inside a command: the branches of
\* replay_step_outcome for a misplaced event and for an exhausted attempt,
\* and resolve_sleep's for a missing TimerFired, are never taken.
ReplayIsTotal ==
  \A e \in Engines :
    /\ run[e].health # "Attempt"
    /\ run[e].pc = "ReplayStep" /\ Unread(run[e]) =>
         NextRecorded(run[e]).kind \in {"StepStarted", "StepCompleted", "StepFailed"}
    /\ run[e].pc = "ReplayTimer" /\ Unread(run[e]) =>
         NextRecorded(run[e]).kind = "TimerFired"

\* The snapshot a run replays is still the whole journal: nothing was
\* appended behind its back, so it goes live exactly at the journal's end.
SnapshotIsCurrent ==
  \A e \in Engines : run[e].mode = "Replaying" => run[e].history = journal

Settled(seq) == \E i \in DOMAIN journal : Settles(journal[i], seq)

\* A body never runs again once an outcome of its step is durable, and an
\* execution that ended runs no body at all.
NoEffectOnceSettled ==
  [][effects' # effects =>
       ~ Terminal(journal) /\ ~ Settled(effects'[Len(effects')].seq)]_vars

\* The lease holder's run, which ends the execution, has seen the result of
\* every command on record: no unread history, no fault that code swallowed.
SealSawEverything ==
  [][Terminal(journal') /\ ~ Terminal(journal) =>
       /\ owner \in Engines /\ run[owner].health = "Healthy"
       /\ \A i \in DOMAIN journal : journal[i].kind \in SettlingKinds =>
            journal[i].seq < Len(run[owner].obs)]_vars

\* After any results the workflow's code does one thing next: it is a function
\* of its definition, input and results, as run_live's callers must be.
DeterministicCode ==
  \A d \in Definitions, i \in Payloads, n \in Seqs :
    \A obs \in [1 .. n -> Results] : \A x, y \in Code(d, i, obs) : x = y

\* For such a workflow replay never diverges.
NeverDiverges == \A e \in Engines : run[e].health # "Nondeterminism"

-----------------------------------------------------------------------------
(* Progress.  An engine that holds the lease keeps running, bodies and     *)
(* waits return, and someone keeps recovering the execution as recorded:   *)
(* the code has no supervisor, main.rs is run again.  Others may take the  *)
(* lease between two tries, so the retry is strongly fair.                 *)

RetryAsRecorded ==
  journal # <<>> /\ \E e \in Engines : RecoverAcquire(e, journal[1].value.definition)

Fairness ==
  (\A e \in Engines : WF_vars(Proceed(e))) /\ SF_vars(RetryAsRecorded)

FairSpec == Spec /\ Fairness

\* No run holds the lease for ever.
LeaseIsReleased == \A e \in Engines : owner = e ~> owner # e

\* An execution on record is finished, if its code is deterministic and it is
\* interrupted fewer times than a step has attempts.
EventuallyTerminal == journal # <<>> ~> Terminal(journal)

\* The body has run and its outcome is not durable: a death here costs a
\* repeated effect.
EffectAtRisk(r) ==
  r.pc = "Appending" /\ r.pending.kind \in {"StepCompleted", "StepFailed"}

\* failpoints.rs: "Each window where the engine can die between a side effect
\* and its journal record is named here."
EffectWindowsAreNamed ==
  \A e \in Engines : EffectAtRisk(run[e]) => CrashPointOf(run[e]) # "none"
=============================================================================
