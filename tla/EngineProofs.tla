---------------------------- MODULE EngineProofs ----------------------------
(***************************************************************************)
(* IInv is inductive, and with it type correctness, the exclusive lease, the *)
(* legality of the journal, the currency of the replayed snapshot and the  *)
(* totality of replay hold for every number of engines, every workflow code *)
(* and every limit.                                                        *)
(*                                                                         *)
(* Every action moves one engine's run and appends at most its pending event, *)
(* so each case reduces to showing that the new run agrees with the new    *)
(* journal (StepPreserves).                                                *)
(***************************************************************************)
EXTENDS EngineInvariant, TLAPS, SequenceTheorems

-----------------------------------------------------------------------------
(* The event grammar: what each event is, what may follow it and what state *)
(* it leaves. The proofs about the engine use the grammar through these.   *)

\* The sets of event kinds, listed.
LEMMA KindSets ==
  /\ SettlingKinds = {"StepCompleted", "StepFailed", "NowRecorded", "RandomRecorded", "TimerFired"}
  /\ CommandRecordKinds = {"StepScheduled", "NowRecorded", "RandomRecorded", "TimerScheduled"}
  /\ PositionedKinds = {"StepScheduled", "NowRecorded", "RandomRecorded", "TimerScheduled",
                        "StepCompleted", "StepFailed", "TimerFired", "StepStarted"}
  /\ TerminalKinds = {"ExecutionCompleted", "ExecutionFailed"}
<1>1. CommandRecordKinds = {"StepScheduled", "NowRecorded", "RandomRecorded", "TimerScheduled"}
  BY DEF CommandRecordKinds, RecordKind, CommandKinds
<1> QED BY <1>1 DEF PositionedKinds, SettlingKinds, TerminalKinds

\* A well-typed event carries what its JournalEvent variant declares.
LEMMA EventFields ==
  ASSUME NEW ev \in Events
  PROVE  /\ ev.seq \in Seqs
         /\ ev.attempt \in 0 .. MaxAttempt
         /\ ev.kind \in PositionedKinds \cup TerminalKinds \cup {"ExecutionStarted"}
         /\ ev.kind = "StepStarted" => ev.attempt \in Attempts
         /\ ev.kind = "ExecutionStarted" => ev.value \in Invocations
         /\ ev.kind \in SettlingKinds => ResultOf(ev) \in Results
  BY SeqAssumption, AttemptAssumption DEF Events, Event, ExecutionStarted, StepScheduled, StepStarted, StepCompleted,
         StepFailed, NowRecorded, RandomRecorded, TimerScheduled, TimerFired,
         ExecutionCompleted, ExecutionFailed, Seqs, Attempts, SettlingKinds, ResultOf, Results,
         PositionedKinds, CommandRecordKinds, RecordKind, CommandKinds, TerminalKinds

\* The events the engine builds (context.rs, engine.rs) are well typed.
LEMMA EventsBuilt ==
  /\ \A i \in Invocations : ExecutionStarted(i) \in Events
  /\ \A q \in Seqs, n \in StepNames : StepScheduled(q, n) \in Events
  /\ \A q \in Seqs, a \in Attempts : StepStarted(q, a) \in Events
  /\ \A q \in Seqs, v \in Payloads : StepCompleted(q, v) \in Events
  /\ \A q \in Seqs, a \in Attempts, x \in StepErrors : StepFailed(q, a, x) \in Events
  /\ \A q \in Seqs, t \in Timestamps : NowRecorded(q, t) \in Events
  /\ \A q \in Seqs, b \in RandomDraws : RandomRecorded(q, b) \in Events
  /\ \A q \in Seqs, d \in Timestamps : TimerScheduled(q, d) \in Events
  /\ \A q \in Seqs : TimerFired(q) \in Events
  /\ \A v \in Payloads : ExecutionCompleted(v) \in Events
  /\ \A x \in WorkflowErrors : ExecutionFailed(x) \in Events
  BY DEF Events

\* The state HistoryState::advance leaves after each kind of event.
LEMMA AfterEvent ==
  ASSUME NEW ev \in Events
  PROVE  /\ ev.kind = "ExecutionStarted" => StateAfter(ev) = Ready(0)
         /\ ev.kind = "StepScheduled" => StateAfter(ev) = HistoryState("Scheduled", ev.seq, 0)
         /\ ev.kind = "StepStarted" => StateAfter(ev) = HistoryState("Started", ev.seq, ev.attempt)
         /\ ev.kind = "TimerScheduled" => StateAfter(ev) = HistoryState("Timer", ev.seq, 0)
         /\ ev.kind \in SettlingKinds => StateAfter(ev) = Ready(ev.seq + 1)
  BY DEF StateAfter, SettlingKinds

\* The states HistoryState::advance accepts each kind of event in.
LEMMA Predecessors ==
  /\ PredecessorPhases("ExecutionStarted") = {}
  /\ PredecessorPhases("StepStarted") = {"Scheduled", "Started"}
  /\ \A k \in {"StepCompleted", "StepFailed"} : PredecessorPhases(k) = {"Started"}
  /\ PredecessorPhases("TimerFired") = {"Timer"}
  /\ \A k \in {"StepScheduled", "NowRecorded", "RandomRecorded", "TimerScheduled",
               "ExecutionCompleted", "ExecutionFailed"} : PredecessorPhases(k) = {"Ready"}
  BY DEF PredecessorPhases, TerminalKinds

\* What the engine may write in each state: a command's first event at the next
\* position, the next attempt, the outcome of the attempt in progress, the end of
\* a wait (the Ok arms of HistoryState::advance).
LEMMA AdmittedEvents ==
  ASSUME NEW ev \in Events, NEW q \in Seqs, NEW a \in Nat
  PROVE  /\ ev.kind \in CommandRecordKinds /\ ev.seq = q /\ q < MaxSeq => Admits(Ready(q), ev)
         /\ ev.kind \in TerminalKinds => Admits(Ready(q), ev)
         /\ ev.kind = "StepStarted" /\ ev.seq = q /\ ev.attempt = 1
              => Admits(HistoryState("Scheduled", q, 0), ev)
         /\ ev.kind = "StepStarted" /\ ev.seq = q /\ ev.attempt = a + 1
              => Admits(HistoryState("Started", q, a), ev)
         /\ ev.kind = "StepCompleted" /\ ev.seq = q /\ q < MaxSeq
              => Admits(HistoryState("Started", q, a), ev)
         /\ ev.kind = "StepFailed" /\ ev.seq = q /\ q < MaxSeq /\ ev.attempt = a
              => Admits(HistoryState("Started", q, a), ev)
         /\ ev.kind = "TimerFired" /\ ev.seq = q /\ q < MaxSeq
              => Admits(HistoryState("Timer", q, 0), ev)
<1> USE KindSets, Predecessors, EventFields, SeqAssumption, AttemptAssumption
    DEF Admits, AdvanceError, Unexpected, NoNextAttempt, Misplaced, Misnumbered,
        NoNextSeq, Ready, HistoryState, Seqs, Attempts
<1>1. ev.kind \in CommandRecordKinds /\ ev.seq = q /\ q < MaxSeq => Admits(Ready(q), ev)
  OBVIOUS
<1>2. ev.kind \in TerminalKinds => Admits(Ready(q), ev)
  OBVIOUS
<1>3. ev.kind = "StepStarted" /\ ev.seq = q /\ ev.attempt = 1
        => Admits(HistoryState("Scheduled", q, 0), ev)
  OBVIOUS
<1>4. ev.kind = "StepStarted" /\ ev.seq = q /\ ev.attempt = a + 1
        => Admits(HistoryState("Started", q, a), ev)
  OBVIOUS
<1>5. ev.kind = "StepCompleted" /\ ev.seq = q /\ q < MaxSeq
        => Admits(HistoryState("Started", q, a), ev)
  OBVIOUS
<1>6. ev.kind = "StepFailed" /\ ev.seq = q /\ q < MaxSeq /\ ev.attempt = a
        => Admits(HistoryState("Started", q, a), ev)
  OBVIOUS
<1>7. ev.kind = "TimerFired" /\ ev.seq = q /\ q < MaxSeq
        => Admits(HistoryState("Timer", q, 0), ev)
  OBVIOUS
<1> QED BY <1>1, <1>2, <1>3, <1>4, <1>5, <1>6, <1>7

\* What replay can find after each state: only the command's own events, at its
\* own position and, for an attempt, with the next number (the converse, used by
\* replay_step_outcome and resolve_sleep).
LEMMA EventsAfter ==
  ASSUME NEW ev \in Events, NEW q \in Seqs, NEW a \in Nat
  PROVE  /\ Admits(Ready(q), ev) /\ ev.kind \in CommandRecordKinds => ev.seq = q
         /\ Admits(HistoryState("Scheduled", q, 0), ev)
              => ev.kind = "StepStarted" /\ ev.seq = q /\ ev.attempt = 1
         /\ Admits(HistoryState("Started", q, a), ev)
              => /\ ev.kind \in {"StepStarted", "StepCompleted", "StepFailed"}
                 /\ ev.seq = q
                 /\ ev.kind = "StepStarted" => ev.attempt = a + 1
         /\ Admits(HistoryState("Timer", q, 0), ev) => ev.kind = "TimerFired" /\ ev.seq = q
         /\ \A st : Admits(st, ev) => ev.kind # "ExecutionStarted"
<1> USE KindSets, Predecessors, EventFields
    DEF Admits, AdvanceError, Unexpected, NoNextAttempt, Misplaced, Misnumbered,
        NoNextSeq, Ready, HistoryState, Seqs, Attempts
<1>1. Admits(Ready(q), ev) /\ ev.kind \in CommandRecordKinds => ev.seq = q
  OBVIOUS
<1>2. Admits(HistoryState("Scheduled", q, 0), ev)
        => ev.kind = "StepStarted" /\ ev.seq = q /\ ev.attempt = 1
  OBVIOUS
<1>3. Admits(HistoryState("Started", q, a), ev)
        => /\ ev.kind \in {"StepStarted", "StepCompleted", "StepFailed"}
           /\ ev.seq = q
           /\ ev.kind = "StepStarted" => ev.attempt = a + 1
  OBVIOUS
<1>4. Admits(HistoryState("Timer", q, 0), ev) => ev.kind = "TimerFired" /\ ev.seq = q
  OBVIOUS
<1>5. \A st : Admits(st, ev) => ev.kind # "ExecutionStarted"
  OBVIOUS
<1> QED BY <1>1, <1>2, <1>3, <1>4, <1>5

\* Appending an event the grammar admits at the end of a legal journal, or the
\* start record to an empty one, leaves a legal journal that ends after it
\* (HistoryState::advance is one turn of ValidatedHistory::parse).
LEMMA AppendLegal ==
  ASSUME NEW j \in Seq(Events), NEW ev \in Events,
         \/ j = <<>> /\ ev.kind = "ExecutionStarted"
         \/ Legal(j) /\ Admits(EndState(j), ev)
  PROVE  /\ Append(j, ev) \in Seq(Events)
         /\ Append(j, ev) # <<>>
         /\ Legal(Append(j, ev))
         /\ EndState(Append(j, ev)) = StateAfter(ev)
<1> DEFINE k == Append(j, ev)
<1>1. /\ k \in Seq(Events) /\ Len(k) = Len(j) + 1 /\ k # <<>>
      /\ k[Len(k)] = ev
      /\ \A i \in 1 .. Len(j) : k[i] = j[i]
      /\ Len(j) \in Nat
  BY AppendProperties
<1>2. EndState(k) = StateAfter(ev)
  BY <1>1 DEF EndState
<1>3. k[1].kind = "ExecutionStarted"
  <2>1. CASE j = <<>> BY <2>1, <1>1 DEF Legal
  <2>2. CASE j # <<>> BY <2>2, <1>1 DEF Legal
  <2> QED BY <2>1, <2>2
<1>4. ASSUME NEW i \in 2 .. Len(k) PROVE Admits(StateAfter(k[i-1]), k[i])
  <2>1. CASE i = Len(k)
    <3>1. j # <<>> /\ Legal(j) /\ Admits(EndState(j), ev)
      BY <2>1, <1>1
    <3>2. k[i-1] = j[Len(j)] /\ k[i] = ev
      BY <3>1, <2>1, <1>1
    <3> QED BY <3>1, <3>2 DEF EndState
  <2>2. CASE i # Len(k)
    <3>1. i \in 2 .. Len(j) /\ k[i] = j[i] /\ k[i-1] = j[i-1] /\ j # <<>>
      BY <2>2, <1>1
    <3> QED BY <3>1 DEF Legal
  <2> QED BY <2>1, <2>2
<1> QED BY <1>1, <1>2, <1>3, <1>4 DEF Legal

-----------------------------------------------------------------------------
(* How the operators of a run move its fields.                             *)

\* An engine with no run has a well-typed record.
LEMMA IdleRunTyped == IdleRun \in Runs
<1>1. <<>> \in Seq(Events) /\ <<>> \in Seq(Results) BY EmptySeq
<1>2. 0 \in Seqs /\ 0 \in 0 .. MaxAttempt + 1
  BY SeqAssumption, AttemptAssumption DEF Seqs
<1>3. "Idle" \in Pcs BY DEF Pcs
<1> QED BY <1>1, <1>2, <1>3 DEF IdleRun, Runs

\* Back is well typed and keeps the run's position, mode and cursor.
LEMMA BackRun ==
  ASSUME NEW r \in Runs
  PROVE  LET s == Back(r)
         IN /\ s \in Runs
            /\ s.pc = "Workflow" /\ s.health = r.health /\ s.obs = r.obs
            /\ s.seq = r.seq /\ s.mode = r.mode /\ s.history = r.history /\ s.pos = r.pos
<1>1. 0 \in 0 .. MaxAttempt + 1 BY AttemptAssumption
<1>2. "Workflow" \in Pcs BY DEF Pcs
<1> QED BY <1>1, <1>2 DEF Back, Runs

\* Begin is well typed and touches only pc and the pending event.
LEMMA BeginRun ==
  ASSUME NEW r \in Runs, NEW ev \in Events
  PROVE  LET s == Begin(r, ev)
         IN /\ s \in Runs
            /\ s.pc = "Appending" /\ s.pending = ev
            /\ s.seq = r.seq /\ s.mode = r.mode /\ s.history = r.history /\ s.pos = r.pos
            /\ s.health = r.health /\ s.step = r.step /\ s.attempt = r.attempt
  BY DEF Begin, Runs, Pcs

\* retain_engine_result leaves an unhealthy run at the same position.
LEMMA FaultRun ==
  ASSUME NEW r \in Runs, NEW x \in Faults
  PROVE  LET s == Fault(r, x)
         IN /\ s \in Runs
            /\ s.pc = "Workflow" /\ ~ Healthy(s) /\ s.health = x
            /\ s.seq = r.seq /\ s.mode = r.mode /\ s.history = r.history /\ s.pos = r.pos
<1>1. Fault(r, x) \in Runs
  BY BackRun DEF Fault, Runs
<1>2. x # "Healthy"
  BY DEF Faults
<1> QED BY <1>1, <1>2, BackRun DEF Fault, Runs, Healthy

\* A command's return is well typed and keeps position and cursor.
LEMMA ReturnRun ==
  ASSUME NEW r \in Runs, NEW x \in Results
  PROVE  LET s == Return(r, x)
         IN /\ s \in Runs
            /\ s.pc = "Workflow" /\ s.health = r.health
            /\ s.seq = r.seq /\ s.mode = r.mode /\ s.history = r.history /\ s.pos = r.pos
<1>1. Append(r.obs, x) \in Seq(Results)
  BY AppendProperties DEF Runs
<1>2. Return(r, x) \in Runs
  BY <1>1, BackRun DEF Return, Runs
<1> QED BY <1>1, <1>2, BackRun DEF Return, Runs

\* Going live drops the cursor and keeps the command in progress.
LEMMA GoLiveRun ==
  ASSUME NEW r \in Runs
  PROVE  LET s == GoLive(r)
         IN /\ s \in Runs
            /\ s.mode = "Live"
            /\ s.seq = r.seq /\ s.pc = r.pc
            /\ s.health = r.health /\ s.step = r.step /\ s.attempt = r.attempt
<1>1. <<>> \in Seq(Events) BY EmptySeq
<1> QED BY <1>1 DEF GoLive, Runs

\* Taking a position below the limit moves to the next one.
LEMMA TakenRun ==
  ASSUME NEW r \in Runs, r.seq < MaxSeq
  PROVE  LET s == Taken(r)
         IN /\ s \in Runs
            /\ s.seq = r.seq + 1 /\ s.seq > 0 /\ Position(s) = r.seq
            /\ s.mode = r.mode /\ s.history = r.history /\ s.pos = r.pos
            /\ s.health = r.health /\ s.step = r.step /\ s.attempt = r.attempt
  BY SeqAssumption DEF Taken, Runs, Seqs, Position

\* Moving the cursor past one event is well typed.
LEMMA ReadOneRun ==
  ASSUME NEW r \in Runs
  PROVE  LET s == [r EXCEPT !.pos = @ + 1]
         IN /\ s \in Runs
            /\ s.pos = r.pos + 1 /\ s.seq = r.seq /\ s.mode = r.mode /\ s.history = r.history
            /\ s.health = r.health /\ s.pc = r.pc
<1>1. r.pos + 1 \in Nat BY DEF Runs
<1> QED BY <1>1 DEF Runs

\* resolve_step's move past a StepScheduled record is well typed.
LEMMA ReplayStepRun ==
  ASSUME NEW r \in Runs, NEW name \in StepNames
  PROVE  LET s == [r EXCEPT !.pc = "ReplayStep", !.pos = @ + 1, !.step = name, !.attempt = 1]
         IN /\ s \in Runs
            /\ s.pos = r.pos + 1 /\ s.seq = r.seq /\ s.mode = r.mode /\ s.history = r.history
            /\ s.health = r.health /\ s.pc = "ReplayStep" /\ s.step = name /\ s.attempt = 1
<1>1. r.pos + 1 \in Nat BY DEF Runs
<1>2. 1 \in 0 .. MaxAttempt + 1 /\ "ReplayStep" \in Pcs BY AttemptAssumption DEF Pcs
<1> QED BY <1>1, <1>2 DEF Runs

\* resolve_sleep's move past a TimerScheduled record is well typed.
LEMMA ReplayTimerRun ==
  ASSUME NEW r \in Runs
  PROVE  LET s == [r EXCEPT !.pc = "ReplayTimer", !.pos = @ + 1]
         IN /\ s \in Runs
            /\ s.pos = r.pos + 1 /\ s.seq = r.seq /\ s.mode = r.mode /\ s.history = r.history
            /\ s.health = r.health /\ s.pc = "ReplayTimer"
<1>1. r.pos + 1 \in Nat BY DEF Runs
<1>2. "ReplayTimer" \in Pcs BY DEF Pcs
<1> QED BY <1>1, <1>2 DEF Runs

\* One turn of replay_step_outcome's loop is well typed.
LEMMA ReadAttemptRun ==
  ASSUME NEW r \in Runs, NEW a \in 0 .. MaxAttempt + 1
  PROVE  LET s == [r EXCEPT !.pos = @ + 1, !.attempt = a]
         IN /\ s \in Runs
            /\ s.pos = r.pos + 1 /\ s.seq = r.seq /\ s.mode = r.mode /\ s.history = r.history
            /\ s.health = r.health /\ s.pc = r.pc /\ s.step = r.step /\ s.attempt = a
<1>1. r.pos + 1 \in Nat BY DEF Runs
<1> QED BY <1>1 DEF Runs

\* Setting the attempt of a live command is well typed.
LEMMA AttemptRun ==
  ASSUME NEW r \in Runs, NEW a \in 0 .. MaxAttempt + 1
  PROVE  LET s == [r EXCEPT !.attempt = a]
         IN /\ s \in Runs
            /\ s.pos = r.pos /\ s.seq = r.seq /\ s.mode = r.mode /\ s.history = r.history
            /\ s.health = r.health /\ s.pc = r.pc /\ s.step = r.step /\ s.attempt = a
  BY DEF Runs

\* Setting the step of a live command is well typed.
LEMMA NamedRun ==
  ASSUME NEW r \in Runs, NEW step \in StepNames \cup {NoValue}
  PROVE  LET s == [r EXCEPT !.step = step]
         IN /\ s \in Runs
            /\ s.seq = r.seq /\ s.mode = r.mode /\ s.health = r.health /\ s.pc = r.pc
            /\ s.pending = r.pending /\ s.step = step
  BY DEF Runs

\* Moving to a checkpoint is well typed.
LEMMA CheckpointRun ==
  ASSUME NEW r \in Runs, NEW pc \in Pcs
  PROVE  LET s == [r EXCEPT !.pc = pc]
         IN /\ s \in Runs /\ s.pc = pc
            /\ s.seq = r.seq /\ s.mode = r.mode /\ s.health = r.health
            /\ s.pending = r.pending /\ s.step = r.step /\ s.attempt = r.attempt
  BY DEF Runs

\* The position of a command in progress has a successor.
LEMMA PositionInRange ==
  ASSUME NEW r \in Runs, r.seq > 0
  PROVE  Position(r) \in Seqs /\ Position(r) < MaxSeq /\ Position(r) + 1 = r.seq
  BY SeqAssumption DEF Position, Runs, Seqs

\* The checkpoint after each kind of event (failpoints.rs), listed.
LEMMA Checkpoints ==
  /\ DOMAIN CheckpointAfter = {"StepScheduled", "StepStarted", "StepCompleted",
                               "TimerScheduled", "TimerFired"}
  /\ CheckpointAfter["StepScheduled"] = "AfterStepScheduled"
  /\ CheckpointAfter["StepStarted"] = "AfterStepStarted"
  /\ CheckpointAfter["StepCompleted"] = "AfterStepCompleted"
  /\ CheckpointAfter["TimerScheduled"] = "AfterTimerScheduled"
  /\ CheckpointAfter["TimerFired"] = "AfterTimerFired"
  BY DEF CheckpointAfter

\* A command carries what its variant declares, and names the record that opens it
\* (command_kind).
LEMMA CommandFields ==
  ASSUME NEW cmd \in Commands
  PROVE  /\ cmd.kind \in CommandKinds
         /\ cmd.kind = "RunStep" => cmd.arg \in StepNames
         /\ cmd.kind = "Sleep" => cmd.arg \in Timestamps
         /\ cmd.kind = "RunStep" => RecordKind(cmd.kind) = "StepScheduled"
         /\ cmd.kind = "ReadNow" => RecordKind(cmd.kind) = "NowRecorded"
         /\ cmd.kind = "DrawRandom" => RecordKind(cmd.kind) = "RandomRecorded"
         /\ cmd.kind = "Sleep" => RecordKind(cmd.kind) = "TimerScheduled"
<1>1. /\ cmd.kind \in CommandKinds
      /\ cmd.kind = "RunStep" => cmd.arg \in StepNames
      /\ cmd.kind = "Sleep" => cmd.arg \in Timestamps
  BY DEF Commands, CommandKinds, RunStep, ReadNow, DrawRandom, Sleep
<1>2. /\ RecordKind("RunStep") = "StepScheduled"
      /\ RecordKind("ReadNow") = "NowRecorded"
      /\ RecordKind("DrawRandom") = "RandomRecorded"
      /\ RecordKind("Sleep") = "TimerScheduled"
  BY DEF RecordKind
<1> QED BY <1>1, <1>2

\* A live command's first event is well typed, at the command's position and of
\* the kind that opens it.
LEMMA FirstEvent ==
  ASSUME NEW q \in Seqs, NEW cmd \in Commands, NEW ev \in FirstEvents(q, cmd)
  PROVE  ev \in Events /\ ev.seq = q /\ ev.kind = RecordKind(cmd.kind)
<1>1. CASE cmd.kind = "RunStep"
  <2>1. ev = StepScheduled(q, cmd.arg) BY <1>1 DEF FirstEvents
  <2> QED BY <1>1, <2>1, CommandFields, EventsBuilt DEF StepScheduled, Event
<1>2. CASE cmd.kind = "ReadNow"
  <2>1. \E t \in Timestamps : ev = NowRecorded(q, t) BY <1>2 DEF FirstEvents
  <2> QED BY <1>2, <2>1, CommandFields, EventsBuilt DEF NowRecorded, Event
<1>3. CASE cmd.kind = "DrawRandom"
  <2>1. \E b \in RandomDraws : ev = RandomRecorded(q, b) BY <1>3 DEF FirstEvents
  <2> QED BY <1>3, <2>1, CommandFields, EventsBuilt DEF RandomRecorded, Event
<1>4. CASE cmd.kind = "Sleep"
  <2>1. ev = TimerScheduled(q, cmd.arg) BY <1>4 DEF FirstEvents
  <2> QED BY <1>4, <2>1, CommandFields, EventsBuilt DEF TimerScheduled, Event
<1> QED BY <1>1, <1>2, <1>3, <1>4, CommandFields DEF CommandKinds

\* A terminal record answers with a completion or a failure (into_recovery).
LEMMA FinalResult ==
  ASSUME NEW ev \in Events, ev.kind \in TerminalKinds
  PROVE  ResultOf(ev) \in {ResultOf(ExecutionCompleted(v)) : v \in Payloads}
                            \cup {ResultOf(ExecutionFailed(x)) : x \in WorkflowErrors}
<1>1. \/ \E v \in Payloads : ev = ExecutionCompleted(v)
      \/ \E x \in WorkflowErrors : ev = ExecutionFailed(x)
  BY DEF Events, TerminalKinds, Event, ExecutionStarted, StepScheduled, StepStarted, StepCompleted,
         StepFailed, NowRecorded, RandomRecorded, TimerScheduled, TimerFired,
         ExecutionCompleted, ExecutionFailed
<1> QED BY <1>1

-----------------------------------------------------------------------------
(* When a run agrees with the journal.                                     *)

\* Reading the next recorded event: it is one the grammar admits where the cursor
\* stands, and the cursor then stands after it (Cursor::peek and next).
LEMMA ReadNext ==
  ASSUME NEW j \in Seq(Events), Legal(j), NEW r \in Runs, CursorOK(j, r), Unread(r)
  PROVE  /\ r.mode = "Replaying" /\ r.history = j
         /\ r.pos + 1 \in 2 .. Len(j) + 1
         /\ NextRecorded(r) \in Events
         /\ Admits(CursorState(j, r), NextRecorded(r))
         /\ \A s : s.mode = "Replaying" /\ s.pos = r.pos + 1
              => CursorState(j, s) = StateAfter(NextRecorded(r))
<1>1. r.mode = "Replaying" /\ r.history = j /\ r.pos \in 2 .. Len(j) /\ Len(j) \in Nat
  BY DEF CursorOK, Unread, Runs
<1>2. NextRecorded(r) = j[r.pos]
  BY <1>1 DEF NextRecorded
<1>3. j[r.pos] \in Events
  BY <1>1, ElementOfSeq
<1>4. Admits(StateAfter(j[r.pos - 1]), j[r.pos])
  BY <1>1 DEF Legal
<1>5. ASSUME NEW s, s.mode = "Replaying", s.pos = r.pos + 1
      PROVE  CursorState(j, s) = StateAfter(j[r.pos])
  <2>1. s.pos - 1 = r.pos BY <1>1, <1>5
  <2> QED BY <2>1, <1>5 DEF CursorState
<1> QED BY <1>1, <1>2, <1>3, <1>4, <1>5 DEF CursorState

\* A run that has read everything, or is live, stands at the journal's end.
LEMMA ReadAll ==
  ASSUME NEW j \in Seq(Events), j # <<>>, NEW r \in Runs, CursorOK(j, r), ~ Unread(r)
  PROVE  CursorState(j, r) = EndState(j)
<1>1. CASE r.mode = "Live"
  BY <1>1 DEF CursorState
<1>2. CASE r.mode = "Replaying"
  <2>1. r.pos = Len(j) + 1 /\ r.pos - 1 = Len(j)
    BY <1>2 DEF CursorOK, Unread, Runs
  <2> QED BY <1>2, <2>1 DEF CursorState, EndState
<1> QED BY <1>1, <1>2 DEF Runs

\* An engine with no run agrees with every journal.
LEMMA IdleAgrees ==
  ASSUME NEW j
  PROVE  RunAgrees(j, IdleRun)
<1> DEFINE r == IdleRun
<1>0. r.pc = "Idle" /\ r.mode = "Live" /\ r.health = "Healthy"
  BY DEF IdleRun
<1>4. "Idle" \notin {CheckpointAfter[k] : k \in DOMAIN CheckpointAfter} BY DEF CheckpointAfter
<1>1. EntryOK(r) BY <1>0 DEF EntryOK
<1>2. CursorOK(j, r) BY <1>0 DEF CursorOK
<1>3. ResumeOK(j, r) /\ WorkflowOK(j, r) /\ ReplayOK(j, r) /\ AppendingOK(j, r)
  BY <1>0 DEF ResumeOK, WorkflowOK, ReplayOK, AppendingOK
<1>5. CheckpointOK(j, r) BY <1>0, <1>4 DEF CheckpointOK
<1> QED BY <1>1, <1>2, <1>3, <1>5 DEF RunAgrees

\* A run back in workflow code agrees with the journal if it is unhealthy or the
\* journal is ready for its next position.
LEMMA AtWorkflow ==
  ASSUME NEW j, NEW s, s.pc = "Workflow",
         s.mode = "Replaying" => s.history = j /\ s.pos \in 2 .. Len(j) + 1,
         Healthy(s) => j # <<>> /\ CursorState(j, s) = Ready(s.seq),
         ResumeOK(j, s)
  PROVE  RunAgrees(j, s)
<1>1. "Workflow" \notin {CheckpointAfter[k] : k \in DOMAIN CheckpointAfter}
  BY DEF CheckpointAfter
<1> QED BY <1>1 DEF RunAgrees, EntryOK, CursorOK, WorkflowOK, ReplayOK, AppendingOK, CheckpointOK

\* A live run about to append agrees with the journal if its event continues it.
LEMMA AtAppending ==
  ASSUME NEW j, NEW s, s.pc = "Appending", s.mode = "Live", AppendingOK(j, s)
  PROVE  RunAgrees(j, s)
<1>1. "Appending" \notin {CheckpointAfter[k] : k \in DOMAIN CheckpointAfter}
  BY DEF CheckpointAfter
<1>2. ResumeOK(j, s)
  BY DEF ResumeOK, AppendingOK, Healthy
<1> QED BY <1>1, <1>2 DEF RunAgrees, EntryOK, CursorOK, WorkflowOK, ReplayOK, CheckpointOK

\* A run replaying a step or a timer agrees with the journal it reads.
LEMMA AtReplay ==
  ASSUME NEW j, NEW s, s.pc \in {"ReplayStep", "ReplayTimer"},
         s.history = j /\ s.pos \in 2 .. Len(j) + 1, ReplayOK(j, s), Resumable(j)
  PROVE  RunAgrees(j, s)
<1>1. /\ "ReplayStep" \notin {CheckpointAfter[k] : k \in DOMAIN CheckpointAfter}
      /\ "ReplayTimer" \notin {CheckpointAfter[k] : k \in DOMAIN CheckpointAfter}
  BY DEF CheckpointAfter
<1>2. ResumeOK(j, s)
  BY DEF ResumeOK, ReplayOK, Healthy
<1> QED BY <1>1, <1>2 DEF RunAgrees, EntryOK, CursorOK, WorkflowOK, AppendingOK, CheckpointOK

\* A run at a checkpoint agrees with the journal that ends at its event.
LEMMA AtCheckpoint ==
  ASSUME NEW j, NEW s, s.mode = "Live", Healthy(s), CheckpointOK(j, s),
         s.pc \in {"AfterStepScheduled", "AfterStepStarted", "AfterStepCompleted",
                   "AfterTimerScheduled", "AfterTimerFired"}
  PROVE  RunAgrees(j, s)
<1>1. ResumeOK(j, s)
  BY DEF ResumeOK, Healthy
<1> QED BY <1>1 DEF RunAgrees, EntryOK, CursorOK, WorkflowOK, AppendingOK, ReplayOK

\* A live command that begins an append the grammar admits, at its own position,
\* agrees with the journal.
LEMMA BeginAgrees ==
  ASSUME NEW j, j # <<>>, NEW t \in Runs, NEW ev \in Events,
         t.mode = "Live", Healthy(t), t.seq > 0,
         ev.kind \in PositionedKinds, ev.seq = Position(t), Admits(EndState(j), ev),
         ev.kind \in {"StepScheduled", "StepStarted"} => t.step \in StepNames,
         ev.kind = "StepStarted" => ev.attempt = t.attempt
  PROVE  LET s == Begin(t, ev)
         IN s \in Runs /\ s.pc = "Appending" /\ RunAgrees(j, s)
<1> DEFINE s == Begin(t, ev)
<1>1. /\ s \in Runs /\ s.pc = "Appending" /\ s.pending = ev /\ s.seq = t.seq /\ s.mode = t.mode
      /\ s.health = t.health /\ s.step = t.step /\ s.attempt = t.attempt
  BY BeginRun
<1>2. ev.kind # "ExecutionStarted"
  BY KindSets
<1> HIDE DEF s
<1>3. AppendingOK(j, s)
  BY <1>1, <1>2 DEF AppendingOK, Healthy, Position
<1>4. RunAgrees(j, s)
  BY <1>1, <1>3, AtAppending
<1> QED BY <1>1, <1>4 DEF s

-----------------------------------------------------------------------------
(* One step of one engine.                                                 *)

\* While one engine runs it holds the lease and no other has a run (Execution).
LEMMA OthersIdle ==
  ASSUME IInv, NEW e \in Engines, run[e].pc # "Idle"
  PROVE  owner = e /\ \A f \in Engines \ {e} : run[f] = IdleRun
  BY DEF IInv, LeaseExclusive, RunAgrees, EntryOK

\* While the lease is free no engine has a run.
LEMMA FreeLease ==
  ASSUME IInv, owner = NoOwner
  PROVE  \A f \in Engines : run[f] = IdleRun
  BY EngineAssumption DEF IInv, LeaseExclusive, RunAgrees, EntryOK

\* The store makes the run's pending event durable.
AppendPending(e) ==
  run[e].pc = "Appending" /\ journal' = Append(journal, run[e].pending)

\* Whatever the run appends, and whether the caller hears of it or not, the journal
\* stays legal (JournalStore::append).
LEMMA AppendedJournal ==
  ASSUME IInv, NEW e \in Engines, AppendPending(e)
  PROVE  /\ journal' \in Seq(Events) /\ journal' # <<>> /\ Legal(journal')
         /\ EndState(journal') = StateAfter(run[e].pending)
<1> DEFINE ev == run[e].pending
<1>1. ev \in Events
  BY DEF IInv, RunAgrees, AppendingOK, AppendPending
<1>2. \/ journal = <<>> /\ ev.kind = "ExecutionStarted"
      \/ Legal(journal) /\ Admits(EndState(journal), ev)
  BY DEF IInv, RunAgrees, AppendingOK, AppendPending, HistoryLegal
<1>3. journal \in Seq(Events) BY DEF IInv, TypeOK
<1>4. /\ Append(journal, ev) \in Seq(Events)
         /\ Append(journal, ev) # <<>>
         /\ Legal(Append(journal, ev))
         /\ EndState(Append(journal, ev)) = StateAfter(ev)
   BY <1>1, <1>2, <1>3, AppendLegal
<1> QED BY <1>4 DEF AppendPending

\* The rest of the state stays well typed.
SideEffectsTyped ==
  /\ effects' \in Seq(Effects)
  /\ replies' \subseteq {ResultOf(ExecutionCompleted(v)) : v \in Payloads}
                     \cup {ResultOf(ExecutionFailed(x)) : x \in WorkflowErrors}
  /\ interruptions' \in 0 .. MaxInterruptions

\* The core of the induction: a step of one engine that keeps, drops or takes the
\* lease, appends at most its pending event and leaves its own run in agreement
\* with the journal preserves the invariant, since every other engine is idle.
LEMMA StepPreserves ==
  ASSUME IInv, NEW e \in Engines, NEW s \in Runs,
         run' = [run EXCEPT ![e] = s],
         \/ run[e].pc # "Idle" /\ s.pc # "Idle" /\ owner' = owner
         \/ run[e].pc # "Idle" /\ s.pc = "Idle" /\ owner' = NoOwner
         \/ owner = NoOwner /\ s.pc # "Idle" /\ owner' = e,
         journal' = journal \/ AppendPending(e),
         SideEffectsTyped,
         RunAgrees(journal', s)
  PROVE  IInv'
<1>1. journal' \in Seq(Events) /\ (journal' # <<>> => Legal(journal'))
  BY AppendedJournal DEF IInv, TypeOK, HistoryLegal
<1>2. run \in [Engines -> Runs] BY DEF IInv, TypeOK
<1>3. \A f \in Engines \ {e} : run[f] = IdleRun
  BY OthersIdle, FreeLease
<1>4. run' \in [Engines -> Runs] /\ run'[e] = s /\ \A f \in Engines \ {e} : run'[f] = IdleRun
  BY <1>2, <1>3
<1>5. owner' \in Engines \cup {NoOwner}
  BY DEF IInv, TypeOK
<1>6. TypeOK'
  BY <1>1, <1>4, <1>5 DEF TypeOK, SideEffectsTyped
<1>7. HistoryLegal'
  BY <1>1 DEF HistoryLegal
<1>8. LeaseExclusive'
  <2>1. ASSUME NEW f \in Engines PROVE run'[f].pc # "Idle" <=> owner' = f
    <3>1. IdleRun.pc = "Idle" BY DEF IdleRun
    <3> QED BY <3>1, <1>4, OthersIdle, EngineAssumption
  <2> QED BY <2>1 DEF LeaseExclusive
<1>9. ASSUME NEW f \in Engines PROVE RunAgrees(journal', run'[f])
  BY <1>4, IdleAgrees
<1> QED BY <1>6, <1>7, <1>8, <1>9 DEF IInv

\* The same for a step that changes the run alone.
LEMMA UpdatePreserves ==
  ASSUME IInv, NEW e \in Engines, NEW s \in Runs, run[e].pc # "Idle", s.pc # "Idle",
         Update(e, s), RunAgrees(journal, s)
  PROVE  IInv'
<1>1. SideEffectsTyped
  BY DEF IInv, TypeOK, SideEffectsTyped, Update
<1> QED BY <1>1, StepPreserves DEF Update, Set

\* The same for a step that ends the run and drops the Execution handle.
LEMMA EndPreserves ==
  ASSUME IInv, NEW e \in Engines, run[e].pc # "Idle", EndRun(e),
         journal' = journal \/ AppendPending(e), SideEffectsTyped
  PROVE  IInv'
<1>1. IdleRun.pc = "Idle" BY DEF IdleRun
<1>2. RunAgrees(journal', IdleRun) BY IdleAgrees
<1> QED BY <1>1, <1>2, IdleRunTyped, StepPreserves DEF EndRun, Set

-----------------------------------------------------------------------------
(* The actions.                                                            *)

\* Engine::run and Engine::recover_and_run, from the lease to the workflow or to
\* their early returns, preserve the invariant.
LEMMA EntryStep ==
  ASSUME IInv, NEW e \in Engines
  PROVE  /\ \A d \in Definitions, i \in Payloads : RunAcquire(e, d, i) => IInv'
         /\ \A d \in Definitions : RecoverAcquire(e, d) => IInv'
         /\ Enter(e) => IInv'
<1> DEFINE r == run[e]
<1>r. r \in Runs /\ RunAgrees(journal, r) /\ journal \in Seq(Events)
      /\ (journal # <<>> => Legal(journal))
  BY DEF IInv, TypeOK, HistoryLegal
<1>k. \A k \in DOMAIN CheckpointAfter : CheckpointAfter[k] \notin {"Starting", "Recovering"}
  BY DEF CheckpointAfter
<1>1. ASSUME NEW d \in Definitions, NEW i \in Payloads, RunAcquire(e, d, i) PROVE IInv'
  <2> DEFINE s == [IdleRun EXCEPT !.pc = "Starting", !.definition = d, !.input = i]
  <2>0. "Starting" \in Pcs BY DEF Pcs
  <2>1. s \in Runs BY <2>0, IdleRunTyped DEF Runs
  <2>2. s.pc = "Starting" /\ s.definition = d /\ s.input = i /\ s.seq = 0 /\ s.mode = "Live"
        /\ Healthy(s)
    BY DEF IdleRun, Healthy
  <2>3. RunAgrees(journal, s)
    BY <1>k, <2>2 DEF RunAgrees, EntryOK, ResumeOK, CursorOK, WorkflowOK, ReplayOK, AppendingOK,
       CheckpointOK, Healthy
  <2>4. SideEffectsTyped
    BY <1>1 DEF RunAcquire, IInv, TypeOK, SideEffectsTyped
  <2> QED BY <1>1, <2>1, <2>2, <2>3, <2>4, StepPreserves DEF RunAcquire, Set
<1>2. ASSUME NEW d \in Definitions, RecoverAcquire(e, d) PROVE IInv'
  <2> DEFINE s == [IdleRun EXCEPT !.pc = "Recovering", !.definition = d]
  <2>0. "Recovering" \in Pcs BY DEF Pcs
  <2>1. s \in Runs BY <2>0, IdleRunTyped DEF Runs
  <2>2. s.pc = "Recovering" /\ s.definition = d /\ s.seq = 0 /\ s.mode = "Live" /\ Healthy(s)
    BY DEF IdleRun, Healthy
  <2>3. RunAgrees(journal, s)
    BY <1>k, <2>2 DEF RunAgrees, EntryOK, ResumeOK, CursorOK, WorkflowOK, ReplayOK, AppendingOK,
       CheckpointOK, Healthy
  <2>4. SideEffectsTyped
    BY <1>2 DEF RecoverAcquire, IInv, TypeOK, SideEffectsTyped
  <2> QED BY <1>2, <2>1, <2>2, <2>3, <2>4, StepPreserves DEF RecoverAcquire, Set
<1>3. CASE StartExisting(e)
  <2>1. SideEffectsTyped
    BY <1>3 DEF StartExisting, IInv, TypeOK, SideEffectsTyped
  <2> QED BY <1>3, <2>1, EndPreserves DEF StartExisting
<1>4. CASE StartAbsent(e)
  <2> DEFINE ev == ExecutionStarted([definition |-> r.definition, input |-> r.input])
             s == Begin(r, ev)
  <2>1. r.seq = 0 /\ Healthy(r) /\ r.definition \in Definitions /\ r.input \in Payloads
        /\ r.mode = "Live" /\ journal = <<>>
    BY <1>4, <1>r DEF StartAbsent, RunAgrees, EntryOK, CursorOK
  <2>2. ev \in Events /\ ev.kind = "ExecutionStarted"
    BY <2>1, EventsBuilt DEF Invocations, ExecutionStarted, Event
  <2>3. AppendingOK(journal, s)
    BY <1>r, <2>1, <2>2, BeginRun, KindSets DEF AppendingOK, Healthy
  <2>4. RunAgrees(journal, s)
    BY <1>r, <2>1, <2>2, <2>3, BeginRun, AtAppending
  <2> QED BY <1>r, <1>4, <2>2, <2>4, BeginRun, UpdatePreserves DEF StartAbsent
<1>5. CASE RecoverRejected(e)
  <2>1. SideEffectsTyped
    BY <1>5 DEF RecoverRejected, IInv, TypeOK, SideEffectsTyped
  <2> QED BY <1>5, <2>1, EndPreserves DEF RecoverRejected
<1>6. CASE RecoverTerminal(e)
  <2>1. journal[Len(journal)] \in Events /\ journal[Len(journal)].kind \in TerminalKinds
    BY <1>6, <1>r, ElementOfSeq DEF RecoverTerminal, Terminal
  <2>2. SideEffectsTyped
    BY <1>6, <2>1, FinalResult DEF RecoverTerminal, IInv, TypeOK, SideEffectsTyped
  <2> QED BY <1>6, <2>2, EndPreserves DEF RecoverTerminal
<1>7. CASE RecoverRunning(e)
  <2> DEFINE s == [r EXCEPT !.pc = "Workflow", !.input = journal[1].value.input,
                     !.history = journal, !.pos = 2,
                     !.mode = IF Len(journal) > 1 THEN "Replaying" ELSE "Live"]
  <2>1. journal # <<>> /\ Legal(journal) /\ journal[1].kind = "ExecutionStarted"
        /\ Resumable(journal)
    BY <1>7, <1>r DEF RecoverRunning, RecoverError, Parses, Legal
  <2>2. journal[1] \in Events /\ journal[1].value.input \in Payloads /\ Len(journal) \in Nat \ {0}
    BY <1>r, <2>1, ElementOfSeq, EventFields DEF Invocations
  <2>3. r.seq = 0 /\ Healthy(r)
    BY <1>7, <1>r DEF RecoverRunning, RunAgrees, EntryOK
  <2>4. "Workflow" \in Pcs BY DEF Pcs
  <2>5. s \in Runs BY <1>r, <2>2, <2>4 DEF Runs
  <2>6. /\ s.pc = "Workflow" /\ s.seq = 0 /\ s.history = journal /\ s.pos = 2
        /\ s.mode = IF Len(journal) > 1 THEN "Replaying" ELSE "Live"
        /\ s.health = "Healthy"
    BY <1>r, <2>3 DEF Runs, Healthy
  <2>7. CursorState(journal, s) = StateAfter(journal[1])
    BY <2>2, <2>6 DEF CursorState, EndState
  <2>8. RunAgrees(journal, s)
    <3>1. s.mode = "Replaying" => s.history = journal /\ s.pos \in 2 .. Len(journal) + 1
      BY <2>2, <2>6
    <3>2. journal # <<>> /\ CursorState(journal, s) = Ready(s.seq)
      BY <2>1, <2>2, <2>6, <2>7, AfterEvent
    <3> HIDE DEF s
    <3>3. ResumeOK(journal, s)
      BY <2>1, <2>6 DEF ResumeOK
    <3> QED BY <2>6, <3>1, <3>2, <3>3, AtWorkflow
  <2> QED BY <1>7, <2>5, <2>6, <2>8, UpdatePreserves DEF RecoverRunning
<1> QED BY <1>1, <1>2, <1>3, <1>4, <1>5, <1>6, <1>7 DEF Enter

\* A command, replayed or begun live, refused at the position limit or found to
\* diverge, preserves the invariant (resolve_step, resolve_now, resolve_random,
\* resolve_sleep).
LEMMA CommandStep ==
  ASSUME IInv, NEW e \in Engines, Command(e)
  PROVE  IInv'
<1> DEFINE r == run[e]
<1>r. /\ r \in Runs /\ r.seq \in Seqs /\ RunAgrees(journal, r)
      /\ journal \in Seq(Events) /\ (journal # <<>> => Legal(journal))
  BY DEF IInv, TypeOK, HistoryLegal, Runs
<1>w. r.pc = "Workflow" /\ Healthy(r)
  BY DEF Command, SequenceExhausted, Diverges, ReplayReading, ReplayScheduled, BeginCommand,
         Takes, Issues
<1>j. /\ journal # <<>> /\ Legal(journal) /\ CursorOK(journal, r)
      /\ CursorState(journal, r) = Ready(r.seq)
      /\ r.mode = "Replaying" =>
           r.history = journal /\ r.pos \in 2 .. Len(journal) + 1 /\ Resumable(journal)
  BY <1>r, <1>w DEF RunAgrees, ResumeOK, WorkflowOK, CursorOK
<1>1. CASE SequenceExhausted(e)
  <2> DEFINE s == Fault(r, "Sequence")
  <2>1. "Sequence" \in Faults BY DEF Faults
  <2>2. s \in Runs /\ s.pc = "Workflow" /\ RunAgrees(journal, s)
    BY <1>r, <1>j, <2>1, FaultRun, AtWorkflow DEF ResumeOK
  <2> QED BY <1>1, <1>w, <2>2, UpdatePreserves DEF SequenceExhausted
<1>2. ASSUME NEW cmd \in Commands, Takes(r, cmd)
      PROVE /\ Taken(r) \in Runs /\ r.seq < MaxSeq /\ Taken(r).seq = r.seq + 1
            /\ Taken(r).seq > 0 /\ Position(Taken(r)) = r.seq
            /\ Taken(r).mode = r.mode /\ Taken(r).history = r.history /\ Taken(r).pos = r.pos
            /\ Healthy(Taken(r))
  BY <1>2, <1>r, <1>w, TakenRun DEF Takes, Healthy
<1>3. ASSUME NEW cmd \in Commands, Diverges(e, cmd) PROVE IInv'
  <2> DEFINE t == Taken(r)
             s == Fault(t, "Nondeterminism")
  <2>1. "Nondeterminism" \in Faults BY DEF Faults
  <2>2. /\ t \in Runs /\ t.mode = r.mode /\ t.history = r.history /\ t.pos = r.pos
    BY <1>3, <1>2 DEF Diverges
  <2>3. s \in Runs /\ s.pc = "Workflow" /\ RunAgrees(journal, s)
    <3> HIDE DEF t
    <3> QED BY <1>j, <2>1, <2>2, FaultRun, AtWorkflow DEF ResumeOK
  <2> QED BY <1>3, <1>w, <2>3, UpdatePreserves DEF Diverges
<1>4. ASSUME NEW cmd \in Commands, ReplayReading(e, cmd) PROVE IInv'
  <2> DEFINE t == Taken(r)
             ev == NextRecorded(r)
             u == Return(t, ResultOf(ev))
             s == [u EXCEPT !.pos = @ + 1]
  <2>1. Takes(r, cmd) /\ Unread(r) /\ cmd.kind \in {"ReadNow", "DrawRandom"} /\ Matches(ev, cmd)
    BY <1>4 DEF ReplayReading
  <2>2. t \in Runs /\ t.seq = r.seq + 1 /\ t.pos = r.pos /\ t.mode = r.mode /\ t.history = r.history
        /\ Healthy(t)
    BY <2>1, <1>2
  <2>3. /\ ev \in Events /\ Admits(Ready(r.seq), ev) /\ ev.kind \in {"NowRecorded", "RandomRecorded"}
        /\ r.mode = "Replaying" /\ r.history = journal /\ r.pos + 1 \in 2 .. Len(journal) + 1
        /\ \A z : z.mode = "Replaying" /\ z.pos = r.pos + 1 => CursorState(journal, z) = StateAfter(ev)
    <3>1. ev.kind \in {"NowRecorded", "RandomRecorded"}
      BY <2>1, CommandFields DEF Matches
    <3> QED BY <3>1, <1>r, <1>j, <2>1, ReadNext
  <2>4. ResultOf(ev) \in Results /\ StateAfter(ev) = Ready(r.seq + 1)
    BY <2>3, <1>r, EventFields, EventsAfter, AfterEvent, KindSets
  <2>5. u \in Runs /\ u.pc = "Workflow" /\ u.seq = r.seq + 1 /\ u.pos = r.pos
        /\ u.mode = "Replaying" /\ u.history = journal /\ u.health = "Healthy"
    <3> HIDE DEF t
    <3> QED BY <2>2, <2>3, <2>4, ReturnRun DEF Healthy
  <2>6. s \in Runs /\ s.pc = "Workflow" /\ s.seq = r.seq + 1 /\ s.pos = r.pos + 1
        /\ s.mode = "Replaying" /\ s.history = journal /\ s.health = "Healthy"
    <3> HIDE DEF u
    <3> QED BY <2>5, ReadOneRun
  <2>7. RunAgrees(journal, s)
    <3> HIDE DEF s
    <3> QED BY <1>j, <2>3, <2>4, <2>6, AtWorkflow DEF ResumeOK
  <2> QED BY <1>4, <1>w, <2>6, <2>7, UpdatePreserves DEF ReplayReading
<1>5. ASSUME NEW cmd \in Commands, ReplayScheduled(e, cmd) PROVE IInv'
  <2> DEFINE t == Taken(r)
             ev == NextRecorded(r)
  <2>1. Takes(r, cmd) /\ Unread(r) /\ cmd.kind \in {"RunStep", "Sleep"} /\ Matches(ev, cmd)
    BY <1>5 DEF ReplayScheduled
  <2>2. t \in Runs /\ t.seq = r.seq + 1 /\ t.seq > 0 /\ Position(t) = r.seq
        /\ t.pos = r.pos /\ t.mode = r.mode /\ t.history = r.history /\ Healthy(t)
    BY <2>1, <1>2
  <2>3. /\ ev \in Events /\ Admits(Ready(r.seq), ev)
        /\ r.mode = "Replaying" /\ r.history = journal /\ r.pos + 1 \in 2 .. Len(journal) + 1
        /\ \A z : z.mode = "Replaying" /\ z.pos = r.pos + 1 => CursorState(journal, z) = StateAfter(ev)
    BY <1>r, <1>j, <2>1, ReadNext
  <2>4. /\ cmd.kind = "RunStep" => StateAfter(ev) = HistoryState("Scheduled", r.seq, 0)
        /\ cmd.kind = "Sleep" => StateAfter(ev) = HistoryState("Timer", r.seq, 0)
    BY <1>r, <2>1, <2>3, CommandFields, EventsAfter, AfterEvent, KindSets DEF Matches
  <2>5. CASE cmd.kind = "RunStep"
    <3> DEFINE s == [t EXCEPT !.pc = "ReplayStep", !.pos = @ + 1, !.step = cmd.arg, !.attempt = 1]
    <3>1. cmd.arg \in StepNames
      BY <2>5, CommandFields
    <3>2. s \in Runs /\ s.pc = "ReplayStep" /\ s.seq = r.seq + 1 /\ s.seq > 0
          /\ s.pos = r.pos + 1 /\ s.mode = "Replaying" /\ s.history = journal
          /\ s.step \in StepNames /\ s.attempt = 1 /\ Healthy(s) /\ Position(s) = r.seq
      <4> HIDE DEF t
      <4>1. s \in Runs /\ s.pc = "ReplayStep" /\ s.seq = t.seq /\ s.pos = t.pos + 1
            /\ s.mode = t.mode /\ s.history = t.history /\ s.step = cmd.arg /\ s.attempt = 1
            /\ s.health = t.health
        BY <2>2, <3>1, ReplayStepRun
      <4> QED BY <4>1, <2>2, <2>3, <3>1 DEF Healthy, Position
    <3>3. RunAgrees(journal, s)
      <4> HIDE DEF s
      <4>1. CursorState(journal, s) = HistoryState("Scheduled", r.seq, 0)
        BY <2>3, <2>4, <2>5, <3>2
      <4>2. ReplayOK(journal, s)
        BY <3>2, <4>1 DEF ReplayOK
      <4> QED BY <1>j, <2>3, <3>2, <4>2, AtReplay
    <3> QED BY <1>5, <1>w, <2>5, <3>2, <3>3, UpdatePreserves DEF ReplayScheduled
  <2>6. CASE cmd.kind = "Sleep"
    <3> DEFINE s == [t EXCEPT !.pc = "ReplayTimer", !.pos = @ + 1]
    <3>2. s \in Runs /\ s.pc = "ReplayTimer" /\ s.seq = r.seq + 1 /\ s.seq > 0
          /\ s.pos = r.pos + 1 /\ s.mode = "Replaying" /\ s.history = journal
          /\ Healthy(s) /\ Position(s) = r.seq
      <4> HIDE DEF t
      <4> QED BY <2>2, <2>3, ReplayTimerRun DEF Healthy, Position
    <3>3. RunAgrees(journal, s)
      <4> HIDE DEF s
      <4>1. CursorState(journal, s) = HistoryState("Timer", r.seq, 0)
        BY <2>3, <2>4, <2>6, <3>2
      <4>2. ReplayOK(journal, s)
        BY <3>2, <4>1 DEF ReplayOK
      <4> QED BY <1>j, <2>3, <3>2, <4>2, AtReplay
    <3> QED BY <1>5, <1>w, <2>6, <3>2, <3>3, UpdatePreserves DEF ReplayScheduled
  <2> QED BY <2>1, <2>5, <2>6
<1>6. ASSUME NEW cmd \in Commands, BeginCommand(e, cmd) PROVE IInv'
  <2> DEFINE t == GoLive(Taken(r))
             step == IF cmd.kind = "RunStep" THEN cmd.arg ELSE NoValue
  <2>1. Takes(r, cmd) /\ ~ Unread(r)
    BY <1>6 DEF BeginCommand
  <2>2. PICK ev \in FirstEvents(r.seq, cmd) : Update(e, [Begin(t, ev) EXCEPT !.step = step])
    BY <1>6 DEF BeginCommand
  <2> DEFINE b == Begin(t, ev)
             s == [b EXCEPT !.step = step]
  <2>3. ev \in Events /\ ev.seq = r.seq /\ ev.kind = RecordKind(cmd.kind)
    BY <1>r, FirstEvent
  <2>4. step \in StepNames \cup {NoValue} /\ (ev.kind = "StepScheduled" => step \in StepNames)
        /\ ev.kind \in CommandRecordKinds
    BY <2>3, CommandFields, KindSets DEF CommandKinds
  <2>5. /\ t \in Runs /\ t.seq = r.seq + 1 /\ t.seq > 0 /\ t.mode = "Live" /\ Healthy(t)
    BY <1>2, <2>1, GoLiveRun DEF Healthy
  <2>6. /\ b \in Runs /\ b.pc = "Appending" /\ b.pending = ev /\ b.seq = r.seq + 1 /\ b.seq > 0
        /\ b.mode = "Live" /\ Healthy(b)
    <3> HIDE DEF t
    <3> QED BY <2>3, <2>5, BeginRun DEF Healthy
  <2>7. /\ s \in Runs /\ s.pc = "Appending" /\ s.pending = ev /\ s.seq = r.seq + 1 /\ s.seq > 0
        /\ s.mode = "Live" /\ Healthy(s) /\ s.step = step /\ Position(s) = r.seq
    <3> HIDE DEF b, step
    <3>1. Position(s) = r.seq
      BY <2>4, <2>6, <1>r, NamedRun, SeqAssumption DEF Position, Seqs
    <3> QED BY <2>4, <2>6, <3>1, NamedRun DEF Healthy
  <2>8. Admits(EndState(journal), ev)
    BY <1>r, <1>j, <2>1, <2>3, <2>4, <1>2, ReadAll, AdmittedEvents
  <2>9. AppendingOK(journal, s)
    <3> HIDE DEF s, step
    <3> QED BY <1>j, <2>3, <2>4, <2>7, <2>8, KindSets DEF AppendingOK
  <2>10. RunAgrees(journal, s)
    <3> HIDE DEF s
    <3> QED BY <2>7, <2>9, AtAppending
  <2> QED BY <1>w, <2>2, <2>7, <2>10, UpdatePreserves
<1> QED BY <1>1, <1>3, <1>4, <1>5, <1>6 DEF Command

\* What replay does inside a step or a timer preserves the invariant; the
\* attempt-overflow branch cannot be taken (replay_step_outcome, resolve_sleep).
LEMMA ReplayStep ==
  ASSUME IInv, NEW e \in Engines,
         ReplayAttempt(e) \/ ReplayFollower(e) \/ RerunStep(e) \/ Rearm(e)
  PROVE  IInv'
<1> DEFINE r == run[e]
           ev == NextRecorded(r)
           p == Position(r)
<1>r. /\ r \in Runs /\ RunAgrees(journal, r) /\ CursorOK(journal, r)
      /\ journal \in Seq(Events) /\ (journal # <<>> => Legal(journal))
  BY DEF IInv, TypeOK, HistoryLegal, RunAgrees
<1>p. r.pc \in {"ReplayStep", "ReplayTimer"}
  BY DEF ReplayAttempt, ReplayFollower, RerunStep, Rearm
<1>h. /\ Healthy(r) /\ r.mode = "Replaying" /\ r.history = journal
      /\ r.pos \in 2 .. Len(journal) + 1 /\ r.seq > 0 /\ Resumable(journal)
  BY <1>r, <1>p DEF RunAgrees, ResumeOK, CursorOK, ReplayOK
<1>j. journal # <<>> /\ Legal(journal)
  <2>1. Len(<<>>) = 0 BY EmptySeq
  <2> QED BY <2>1, <1>r, <1>h
<1>q. p \in Seqs /\ p < MaxSeq /\ p + 1 = r.seq
  BY <1>r, <1>h, PositionInRange
<1>s. r.pc = "ReplayStep" =>
        /\ r.step \in StepNames /\ r.attempt \in Nat \ {0} /\ r.attempt - 1 \in Nat
        /\ \/ r.attempt = 1 /\ CursorState(journal, r) = HistoryState("Scheduled", p, 0)
           \/ CursorState(journal, r) = HistoryState("Started", p, r.attempt - 1)
  <2>1. r.attempt \in Nat BY <1>r DEF Runs
  <2> QED BY <2>1, <1>r DEF RunAgrees, ReplayOK
<1>t. r.pc = "ReplayTimer" => CursorState(journal, r) = HistoryState("Timer", p, 0)
  BY <1>r DEF RunAgrees, ReplayOK
<1>u. ASSUME Unread(r)
      PROVE  /\ r.pos + 1 \in 2 .. Len(journal) + 1
             /\ ev \in Events /\ Admits(CursorState(journal, r), ev)
             /\ \A z : z.mode = "Replaying" /\ z.pos = r.pos + 1
                  => CursorState(journal, z) = StateAfter(ev)
             /\ ev.seq = p
  <2>1. /\ r.pos + 1 \in 2 .. Len(journal) + 1
        /\ ev \in Events /\ Admits(CursorState(journal, r), ev)
        /\ \A z : z.mode = "Replaying" /\ z.pos = r.pos + 1
             => CursorState(journal, z) = StateAfter(ev)
    BY <1>u, <1>r, <1>j, ReadNext
  <2>2. ev.seq = p
    BY <1>p, <1>q, <1>s, <1>t, <2>1, EventsAfter
  <2> QED BY <2>1, <2>2
<1>v. ~ Unread(r) => EndState(journal) = CursorState(journal, r)
  BY <1>r, <1>j, ReadAll
<1>1. CASE ReplayAttempt(e)
  <2> DEFINE s == [r EXCEPT !.pos = @ + 1, !.attempt = ev.attempt + 1]
  <2>1. r.pc = "ReplayStep" /\ Unread(r) /\ ev.kind = "StepStarted"
    BY <1>1 DEF ReplayAttempt
  <2>2. ev.attempt \in Attempts /\ ev.attempt + 1 \in 0 .. MaxAttempt + 1
        /\ ev.attempt + 1 > 0 /\ ev.attempt = (ev.attempt + 1) - 1
    BY <2>1, <1>u, EventFields, AttemptAssumption DEF Attempts
  <2>3. s \in Runs /\ s.pos = r.pos + 1 /\ s.seq = r.seq /\ s.mode = "Replaying"
        /\ s.history = journal /\ s.health = r.health /\ s.pc = "ReplayStep" /\ s.step = r.step
        /\ s.attempt = ev.attempt + 1
    BY <1>r, <1>h, <2>1, <2>2, ReadAttemptRun
  <2> HIDE DEF s
  <2>4. CursorState(journal, s) = HistoryState("Started", p, s.attempt - 1)
    BY <1>u, <2>1, <2>2, <2>3, AfterEvent
  <2>5. ReplayOK(journal, s)
    BY <1>h, <1>s, <2>1, <2>2, <2>3, <2>4 DEF ReplayOK, Healthy, Position
  <2>6. RunAgrees(journal, s)
    BY <1>h, <1>u, <2>1, <2>3, <2>5, AtReplay
  <2>7. Update(e, s)
    BY <1>1 DEF ReplayAttempt, s
  <2> QED BY <1>p, <2>3, <2>6, <2>7, UpdatePreserves
<1>2. CASE ReplayFollower(e)
  <2> DEFINE answers == IF r.pc = "ReplayStep" THEN {"StepCompleted", "StepFailed"}
                                               ELSE {"TimerFired"}
             u == Return(r, ResultOf(ev))
             s == [u EXCEPT !.pos = @ + 1]
             f == Fault(r, "Nondeterminism")
  <2>1. Unread(r) /\ Update(e, IF ev.kind \in answers THEN s ELSE f)
    BY <1>2 DEF ReplayFollower
  <2>2. CASE ev.kind \in answers
    <3>1. ev.kind \in SettlingKinds
      BY <2>2, KindSets
    <3>2. ResultOf(ev) \in Results /\ StateAfter(ev) = Ready(r.seq)
      BY <1>u, <1>q, <2>1, <3>1, EventFields, AfterEvent
    <3>3. u \in Runs /\ u.pc = "Workflow" /\ u.seq = r.seq /\ u.pos = r.pos
          /\ u.mode = "Replaying" /\ u.history = journal /\ u.health = "Healthy"
      BY <1>r, <1>h, <3>2, ReturnRun DEF Healthy
    <3>4. s \in Runs /\ s.pc = "Workflow" /\ s.seq = r.seq /\ s.pos = r.pos + 1
          /\ s.mode = "Replaying" /\ s.history = journal /\ s.health = "Healthy"
      <4> HIDE DEF u
      <4> QED BY <3>3, ReadOneRun
    <3>5. RunAgrees(journal, s)
      <4> HIDE DEF s
      <4> QED BY <1>h, <1>j, <1>u, <2>1, <3>2, <3>4, AtWorkflow DEF ResumeOK
    <3> QED BY <1>p, <2>1, <2>2, <3>4, <3>5, UpdatePreserves
  <2>3. CASE ev.kind \notin answers
    <3>1. "Nondeterminism" \in Faults BY DEF Faults
    <3>2. f \in Runs /\ f.pc = "Workflow" /\ RunAgrees(journal, f)
      BY <1>r, <1>h, <3>1, FaultRun, AtWorkflow DEF ResumeOK
    <3> QED BY <1>p, <2>1, <2>3, <3>2, UpdatePreserves
  <2> QED BY <2>2, <2>3
<1>g. GoLive(r) \in Runs /\ GoLive(r).mode = "Live" /\ GoLive(r).seq = r.seq
      /\ GoLive(r).health = r.health /\ GoLive(r).step = r.step /\ GoLive(r).attempt = r.attempt
  BY <1>r, GoLiveRun
<1>3. CASE RerunStep(e)
  <2>1. r.pc = "ReplayStep" /\ ~ Unread(r)
    BY <1>3 DEF RerunStep
  <2>2. CASE r.attempt > MaxAttempt
    <3>1. CursorState(journal, r).phase = "Started"
          /\ CursorState(journal, r).attempt = r.attempt - 1
      BY <1>s, <2>1, <2>2, AttemptAssumption DEF HistoryState
    <3>2. r.attempt - 1 = MaxAttempt
      BY <1>r, <1>s, <2>1, <2>2, AttemptAssumption DEF Runs
    <3> QED BY <1>h, <1>v, <2>1, <3>1, <3>2 DEF Resumable, NoNextAttempt
  <2>3. CASE ~ (r.attempt > MaxAttempt)
    <3> DEFINE start == StepStarted(p, r.attempt)
               t == GoLive(r)
    <3>1. r.attempt \in Attempts
      BY <1>s, <2>1, <2>3, AttemptAssumption DEF Attempts
    <3>2. start \in Events /\ start.kind = "StepStarted" /\ start.seq = p
          /\ start.attempt = r.attempt
      BY <1>q, <3>1, EventsBuilt DEF StepStarted, Event
    <3>3. Admits(EndState(journal), start)
      <4> HIDE DEF start
      <4>1. r.attempt = (r.attempt - 1) + 1 BY <1>s, <2>1
      <4> QED BY <1>q, <1>s, <1>v, <2>1, <3>2, <4>1, AdmittedEvents
    <3>4. Begin(t, start) \in Runs /\ Begin(t, start).pc = "Appending"
          /\ RunAgrees(journal, Begin(t, start))
      <4>1. Position(t) = p BY <1>g DEF Position
      <4> HIDE DEF start, t
      <4> QED BY <1>g, <1>h, <1>j, <1>s, <2>1, <3>2, <3>3, <4>1, BeginAgrees, KindSets DEF Healthy, t
    <3>5. Update(e, Begin(t, start))
      BY <1>3, <2>3 DEF RerunStep
    <3> QED BY <1>p, <3>4, <3>5, UpdatePreserves
  <2> QED BY <2>2, <2>3
<1>4. CASE Rearm(e)
  <2> DEFINE fired == TimerFired(p)
             t == GoLive(r)
  <2>1. r.pc = "ReplayTimer" /\ ~ Unread(r) /\ Update(e, Begin(t, fired))
    BY <1>4 DEF Rearm
  <2>2. fired \in Events /\ fired.kind = "TimerFired" /\ fired.seq = p
    BY <1>q, EventsBuilt DEF TimerFired, Event
  <2>3. Admits(EndState(journal), fired)
    BY <1>q, <1>t, <1>v, <2>1, <2>2, AdmittedEvents
  <2>4. Begin(t, fired) \in Runs /\ Begin(t, fired).pc = "Appending"
        /\ RunAgrees(journal, Begin(t, fired))
    <3>1. Position(t) = p BY <1>g DEF Position
    <3> HIDE DEF fired, t
    <3> QED BY <1>g, <1>h, <1>j, <2>2, <2>3, <3>1, BeginAgrees, KindSets DEF Healthy, t
  <2> QED BY <1>p, <2>1, <2>4, UpdatePreserves
<1> QED BY <1>1, <1>2, <1>3, <1>4

\* Live execution between two appends preserves the invariant (run_live).
LEMMA LiveStep ==
  ASSUME IInv, NEW e \in Engines,
         StartFirstAttempt(e) \/ RunBody(e) \/ Wake(e) \/ ReturnRecorded(e)
  PROVE  IInv'
<1> DEFINE r == run[e]
           p == Position(r)
<1>r. /\ r \in Runs /\ RunAgrees(journal, r) /\ CursorOK(journal, r) /\ CheckpointOK(journal, r)
      /\ journal \in Seq(Events) /\ effects \in Seq(Effects)
  BY DEF IInv, TypeOK, RunAgrees
<1>p. r.pc \in {"AfterStepScheduled", "AfterStepStarted", "AfterStepCompleted",
                "AfterTimerScheduled", "AfterTimerFired"}
  BY DEF StartFirstAttempt, RunBody, Wake, ReturnRecorded
<1>c. r.pc \in {CheckpointAfter[k] : k \in DOMAIN CheckpointAfter}
  BY <1>p DEF CheckpointAfter
<1>h. journal # <<>> /\ r.seq > 0 /\ Healthy(r) /\ r.mode = "Live"
  BY <1>r, <1>p, <1>c DEF CheckpointOK, CursorOK
<1>q. p \in Seqs /\ p < MaxSeq /\ p + 1 = r.seq
  BY <1>r, <1>h, PositionInRange
<1>1. CASE StartFirstAttempt(e)
  <2> DEFINE start == StepStarted(p, 1)
             t == [r EXCEPT !.attempt = 1]
  <2>1. r.pc = "AfterStepScheduled" /\ Update(e, Begin(t, start))
    BY <1>1 DEF StartFirstAttempt
  <2>2. 1 \in Attempts /\ 1 \in 0 .. MaxAttempt + 1 /\ 0 \in Nat
    BY AttemptAssumption DEF Attempts
  <2>3. start \in Events /\ start.kind = "StepStarted" /\ start.seq = p /\ start.attempt = 1
    BY <1>q, <2>2, EventsBuilt DEF StepStarted, Event
  <2>4. Admits(EndState(journal), start) /\ r.step \in StepNames
    <3> HIDE DEF start
    <3> QED BY <1>q, <1>r, <2>1, <2>2, <2>3, AdmittedEvents DEF CheckpointOK
  <2>5. t \in Runs /\ t.mode = "Live" /\ t.seq = r.seq /\ Healthy(t) /\ t.step = r.step
        /\ t.attempt = 1
    BY <1>r, <1>h, <2>2, AttemptRun DEF Healthy
  <2>6. Begin(t, start) \in Runs /\ Begin(t, start).pc = "Appending"
        /\ RunAgrees(journal, Begin(t, start))
    <3>1. Position(t) = p BY <2>5 DEF Position
    <3> HIDE DEF start, t
    <3> QED BY <1>h, <2>3, <2>4, <2>5, <3>1, BeginAgrees, KindSets
  <2> QED BY <1>p, <2>1, <2>6, UpdatePreserves
<1>2. CASE RunBody(e)
  <2>1. r.pc = "AfterStepStarted" BY <1>2 DEF RunBody
  <2>2. /\ r.attempt \in Attempts /\ r.attempt \in Nat /\ r.step \in StepNames
        /\ EndState(journal) = HistoryState("Started", p, r.attempt)
    BY <1>r, <2>1, AttemptAssumption DEF CheckpointOK, Attempts
  <2> DEFINE outcomes == {StepCompleted(p, v) : v \in Payloads}
                           \cup {StepFailed(p, r.attempt, x) : x \in StepErrors}
             effect(ev) == [seq |-> p, attempt |-> r.attempt, step |-> r.step,
                            result |-> ResultOf(ev)]
  <2>3. PICK ev \in outcomes : /\ effects' = Append(effects, effect(ev))
                               /\ Set(e, Begin(r, ev))
    BY <1>2 DEF RunBody
  <2>4. /\ ev \in Events /\ ev.seq = p /\ ev.kind \in {"StepCompleted", "StepFailed"}
        /\ ev.kind = "StepFailed" => ev.attempt = r.attempt
    BY <1>q, <2>2, EventsBuilt DEF StepCompleted, StepFailed, Event
  <2> HIDE DEF outcomes
  <2>5. ev.kind \in SettlingKinds /\ ev.kind \in PositionedKinds
    BY <2>4, KindSets
  <2>6. Admits(EndState(journal), ev)
    BY <1>q, <2>2, <2>4, AdmittedEvents
  <2>7. Begin(r, ev) \in Runs /\ Begin(r, ev).pc = "Appending" /\ RunAgrees(journal, Begin(r, ev))
    BY <1>r, <1>h, <2>4, <2>5, <2>6, BeginAgrees
  <2>8. effects' \in Seq(Effects)
    <3>1. effect(ev) \in Effects
      BY <1>q, <2>2, <2>4, <2>5, EventFields DEF Effects
    <3> QED BY <1>r, <2>3, <3>1, AppendProperties
  <2>9. SideEffectsTyped
    BY <1>2, <2>8 DEF RunBody, IInv, TypeOK, SideEffectsTyped
  <2> QED BY <1>2, <1>p, <2>3, <2>7, <2>9, StepPreserves DEF RunBody, Set
<1>3. CASE Wake(e)
  <2> DEFINE fired == TimerFired(p)
  <2>1. r.pc = "AfterTimerScheduled" /\ Update(e, Begin(r, fired))
    BY <1>3 DEF Wake
  <2>2. fired \in Events /\ fired.kind = "TimerFired" /\ fired.seq = p
    BY <1>q, EventsBuilt DEF TimerFired, Event
  <2>3. Admits(EndState(journal), fired)
    BY <1>q, <1>r, <2>1, <2>2, AdmittedEvents DEF CheckpointOK
  <2>4. Begin(r, fired) \in Runs /\ Begin(r, fired).pc = "Appending"
        /\ RunAgrees(journal, Begin(r, fired))
    <3> HIDE DEF fired
    <3> QED BY <1>r, <1>h, <2>2, <2>3, BeginAgrees, KindSets
  <2> QED BY <1>p, <2>1, <2>4, UpdatePreserves
<1>4. CASE ReturnRecorded(e)
  <2> DEFINE s == Return(r, ResultOf(r.pending))
  <2>1. r.pc \in {"AfterStepCompleted", "AfterTimerFired"} /\ Update(e, s)
    BY <1>4 DEF ReturnRecorded
  <2>2. EndState(journal) = Ready(r.seq) /\ r.pending.kind \in {"StepCompleted", "TimerFired"}
    BY <1>r, <2>1 DEF CheckpointOK
  <2>3. ResultOf(r.pending) \in Results
    <3>1. r.pending \in Events
      BY <1>r, <2>2 DEF Runs, NoEvent, Event
    <3> QED BY <2>2, <3>1, EventFields, KindSets
  <2>4. s \in Runs /\ s.pc = "Workflow" /\ s.mode = "Live" /\ s.seq = r.seq
        /\ s.health = "Healthy"
    BY <1>r, <1>h, <2>3, ReturnRun DEF Healthy
  <2>5. RunAgrees(journal, s)
    <3> HIDE DEF s
    <3> QED BY <1>h, <2>2, <2>4, AtWorkflow DEF CursorState, ResumeOK
  <2> QED BY <1>p, <2>1, <2>4, <2>5, UpdatePreserves
<1> QED BY <1>1, <1>2, <1>3, <1>4

\* An acknowledged append, to the next checkpoint or back to the caller, preserves
\* the invariant.
LEMMA AppendStep ==
  ASSUME IInv, NEW e \in Engines, AppendEvent(e)
  PROVE  IInv'
<1> DEFINE r == run[e]
           ev == r.pending
<1>r. /\ r \in Runs /\ RunAgrees(journal, r) /\ CursorOK(journal, r) /\ AppendingOK(journal, r)
      /\ journal \in Seq(Events)
  BY DEF IInv, TypeOK, RunAgrees
<1>p. r.pc = "Appending" /\ AppendPending(e)
  BY DEF AppendEvent, AppendThenCheckpoint, AppendThenReturn, AppendStart, AppendTerminal,
         AppendPending
<1>j. /\ journal' # <<>>
      /\ EndState(journal') = StateAfter(ev)
  BY <1>p, AppendedJournal
<1>h. Healthy(r) /\ ev \in Events /\ (ev.kind \notin TerminalKinds => r.mode = "Live")
  BY <1>r, <1>p DEF AppendingOK, CursorOK
<1>q. ev.kind \in PositionedKinds => r.seq > 0 /\ ev.seq = Position(r) /\ ev.seq + 1 = r.seq
  <2>1. r.seq \in Nat BY <1>r DEF Runs, Seqs
  <2> QED BY <2>1, <1>r, <1>p DEF AppendingOK, Position
<1>1. CASE AppendThenCheckpoint(e)
  <2> DEFINE s == [r EXCEPT !.pc = CheckpointAfter[ev.kind]]
  <2>1. ev.kind \in DOMAIN CheckpointAfter /\ run' = [run EXCEPT ![e] = s]
    BY <1>1 DEF AppendThenCheckpoint, Set
  <2>2. CheckpointAfter[ev.kind] \in {"AfterStepScheduled", "AfterStepStarted",
          "AfterStepCompleted", "AfterTimerScheduled", "AfterTimerFired"}
    BY <2>1, Checkpoints
  <2>3. /\ s \in Runs /\ s.pc = CheckpointAfter[ev.kind] /\ s.seq = r.seq /\ s.mode = r.mode
        /\ s.health = r.health /\ s.pending = ev /\ s.step = r.step /\ s.attempt = r.attempt
    <3>1. CheckpointAfter[ev.kind] \in Pcs BY <2>2 DEF Pcs
    <3> QED BY <3>1, <1>r, CheckpointRun
  <2>4. /\ ev.kind \in PositionedKinds /\ ev.kind \notin TerminalKinds
        /\ ev.kind \in SettlingKinds <=> ev.kind \in {"StepCompleted", "TimerFired"}
    BY <2>1, KindSets, Checkpoints
  <2> HIDE DEF s
  <2>5. /\ s.pc = "AfterStepScheduled" <=> ev.kind = "StepScheduled"
        /\ s.pc = "AfterStepStarted" <=> ev.kind = "StepStarted"
        /\ s.pc = "AfterTimerScheduled" <=> ev.kind = "TimerScheduled"
        /\ s.pc \in {"AfterStepCompleted", "AfterTimerFired"} => ev.kind \in {"StepCompleted", "TimerFired"}
    BY <2>1, <2>3, Checkpoints
  <2>6. /\ ev.kind \in {"StepScheduled", "StepStarted"} => s.step \in StepNames
        /\ ev.kind = "StepStarted" => s.attempt = ev.attempt /\ s.attempt \in Attempts
        /\ Position(s) = ev.seq /\ Healthy(s) /\ s.mode = "Live" /\ s.seq > 0
    BY <1>r, <1>p, <1>h, <1>q, <2>3, <2>4, EventFields DEF AppendingOK, Healthy, Position
  <2>7. CheckpointOK(journal', s)
    <3>1. s.pc = "AfterStepScheduled" =>
            EndState(journal') = HistoryState("Scheduled", Position(s), 0) /\ s.step \in StepNames
      BY <1>h, <1>j, <2>5, <2>6, AfterEvent
    <3>2. s.pc = "AfterStepStarted" =>
            /\ EndState(journal') = HistoryState("Started", Position(s), s.attempt)
            /\ s.attempt \in Attempts /\ s.step \in StepNames
      BY <1>h, <1>j, <2>5, <2>6, AfterEvent
    <3>3. s.pc = "AfterTimerScheduled" => EndState(journal') = HistoryState("Timer", Position(s), 0)
      BY <1>h, <1>j, <2>5, <2>6, AfterEvent
    <3>4. s.pc \in {"AfterStepCompleted", "AfterTimerFired"} =>
            EndState(journal') = Ready(s.seq) /\ s.pending.kind \in {"StepCompleted", "TimerFired"}
      BY <1>h, <1>j, <1>q, <2>3, <2>4, <2>5, AfterEvent
    <3> QED BY <1>j, <2>6, <3>1, <3>2, <3>3, <3>4 DEF CheckpointOK
  <2>8. RunAgrees(journal', s)
    BY <2>2, <2>3, <2>6, <2>7, AtCheckpoint
  <2>9. SideEffectsTyped
    BY <1>1 DEF AppendThenCheckpoint, IInv, TypeOK, SideEffectsTyped
  <2> QED BY <1>1, <1>p, <2>1, <2>2, <2>3, <2>8, <2>9, StepPreserves DEF AppendThenCheckpoint
<1>2. CASE AppendThenReturn(e)
  <2> DEFINE s == Return(r, ResultOf(ev))
  <2>1. ev.kind \in {"NowRecorded", "RandomRecorded", "StepFailed"} /\ run' = [run EXCEPT ![e] = s]
    BY <1>2 DEF AppendThenReturn, Set
  <2>2. ev.kind \in SettlingKinds /\ ev.kind \in PositionedKinds /\ ev.kind \notin TerminalKinds
    BY <2>1, KindSets
  <2>3. s \in Runs /\ s.pc = "Workflow" /\ s.mode = "Live" /\ s.seq = r.seq
        /\ s.health = "Healthy"
    BY <1>r, <1>h, <2>2, EventFields, ReturnRun DEF Healthy
  <2>4. RunAgrees(journal', s)
    <3> HIDE DEF s
    <3> QED BY <1>h, <1>j, <1>q, <2>2, <2>3, AfterEvent, AtWorkflow DEF CursorState, ResumeOK
  <2>5. SideEffectsTyped
    BY <1>2 DEF AppendThenReturn, IInv, TypeOK, SideEffectsTyped
  <2> QED BY <1>2, <1>p, <2>1, <2>3, <2>4, <2>5, StepPreserves DEF AppendThenReturn
<1>3. CASE AppendStart(e)
  <2> DEFINE s == Back(r)
  <2>1. ev.kind = "ExecutionStarted" /\ run' = [run EXCEPT ![e] = s]
    BY <1>3 DEF AppendStart, Set
  <2>2. r.seq = 0 /\ r.mode = "Live"
    BY <1>r, <1>p, <1>h, <2>1, KindSets DEF AppendingOK
  <2>3. s \in Runs /\ s.pc = "Workflow" /\ s.mode = "Live" /\ s.seq = 0
        /\ s.health = "Healthy"
    BY <1>r, <1>h, <2>2, BackRun DEF Healthy
  <2>4. RunAgrees(journal', s)
    <3> HIDE DEF s
    <3> QED BY <1>h, <1>j, <2>1, <2>3, AfterEvent, AtWorkflow DEF CursorState, ResumeOK
  <2>5. SideEffectsTyped
    BY <1>3 DEF AppendStart, IInv, TypeOK, SideEffectsTyped
  <2> QED BY <1>3, <1>p, <2>1, <2>3, <2>4, <2>5, StepPreserves DEF AppendStart
<1>4. CASE AppendTerminal(e)
  <2>1. ev.kind \in TerminalKinds
    BY <1>4 DEF AppendTerminal
  <2>2. SideEffectsTyped
    BY <1>4, <1>h, <2>1, FinalResult DEF AppendTerminal, IInv, TypeOK, SideEffectsTyped
  <2> QED BY <1>4, <1>p, <2>2, EndPreserves DEF AppendTerminal
<1> QED BY <1>1, <1>2, <1>3, <1>4 DEF AppendEvent

\* Engine::finish preserves the invariant, sealing or refusing to.
LEMMA LeaveStep ==
  ASSUME IInv, NEW e \in Engines, Leave(e)
  PROVE  IInv'
<1> DEFINE r == run[e]
<1>r. /\ r \in Runs /\ r.seq \in Seqs /\ RunAgrees(journal, r) /\ CursorOK(journal, r)
      /\ journal \in Seq(Events)
  BY DEF IInv, TypeOK, RunAgrees, Runs
<1>p. r.pc = "Workflow"
  BY DEF Leave, FinishFaulted, FinishUnconsumed, Finish, Returns
<1>1. CASE FinishFaulted(e)
  <2>1. SideEffectsTyped
    BY <1>1 DEF FinishFaulted, IInv, TypeOK, SideEffectsTyped
  <2> QED BY <1>1, <1>p, <2>1, EndPreserves DEF FinishFaulted
<1>2. ASSUME NEW outcome \in Outcomes, FinishUnconsumed(e, outcome) PROVE IInv'
  <2>1. SideEffectsTyped
    BY <1>2 DEF FinishUnconsumed, IInv, TypeOK, SideEffectsTyped
  <2> QED BY <1>2, <1>p, <2>1, EndPreserves DEF FinishUnconsumed
<1>3. ASSUME NEW outcome \in Outcomes, Finish(e, outcome) PROVE IInv'
  <2> DEFINE ev == IF outcome.kind = "Ok" THEN ExecutionCompleted(outcome.arg)
                                          ELSE ExecutionFailed(outcome.arg)
             s == Begin(r, ev)
  <2>1. Healthy(r) /\ ~ Unread(r) /\ Update(e, s)
    BY <1>3 DEF Finish, ReplayComplete
  <2>2. ev \in Events /\ ev.kind \in TerminalKinds
    BY EventsBuilt DEF Outcomes, ExecutionCompleted, ExecutionFailed, Event, TerminalKinds
  <2> HIDE DEF ev
  <2>3. journal # <<>> /\ CursorState(journal, r) = Ready(r.seq)
    BY <1>r, <1>p, <2>1 DEF RunAgrees, WorkflowOK
  <2>4. Admits(EndState(journal), ev)
    BY <1>r, <2>1, <2>2, <2>3, ReadAll, AdmittedEvents
  <2>5. s \in Runs /\ s.pc = "Appending" /\ s.pending = ev /\ s.mode = r.mode
        /\ s.history = r.history /\ s.pos = r.pos /\ Healthy(s)
    BY <1>r, <2>1, <2>2, BeginRun DEF Healthy
  <2> HIDE DEF s
  <2>6. AppendingOK(journal, s)
    BY <2>2, <2>3, <2>4, <2>5, KindSets DEF AppendingOK
  <2>7. CursorOK(journal, s)
    BY <1>r, <2>2, <2>5 DEF CursorOK
  <2>8. "Appending" \notin {CheckpointAfter[k] : k \in DOMAIN CheckpointAfter}
    BY DEF CheckpointAfter
  <2>9. RunAgrees(journal, s)
    BY <1>r, <2>5, <2>6, <2>7, <2>8
       DEF RunAgrees, EntryOK, ResumeOK, WorkflowOK, ReplayOK, CheckpointOK, Healthy
  <2> QED BY <1>p, <2>1, <2>5, <2>9, UpdatePreserves
<1> QED BY <1>1, <1>2, <1>3 DEF Leave

\* A kill, a failpoint, a failed load and an append of unknown outcome preserve the
\* invariant.
LEMMA InterruptionStep ==
  ASSUME IInv, NEW e \in Engines, Interruption(e)
  PROVE  IInv'
<1> DEFINE r == run[e]
<1>r. /\ r \in Runs /\ RunAgrees(journal, r) /\ CursorOK(journal, r) /\ AppendingOK(journal, r)
      /\ journal \in Seq(Events)
  BY DEF IInv, TypeOK, RunAgrees
<1>i. ASSUME Interrupt, effects' = effects, replies' = replies PROVE SideEffectsTyped
  <2>1. interruptions' \in 0 .. MaxInterruptions
    BY <1>i, InterruptionAssumption DEF Interrupt, IInv, TypeOK
  <2> QED BY <1>i, <2>1 DEF IInv, TypeOK, SideEffectsTyped
<1>1. CASE Kill(e)
  BY <1>1, <1>i, EndPreserves DEF Kill
<1>2. CASE InjectCrash(e)
  <2> DEFINE s == Fault(r, "InjectedCrash")
  <2>1. r.pc # "Idle"
    BY <1>2 DEF InjectCrash, CrashPointOf, CheckpointAfter
  <2>2. "InjectedCrash" \in Faults BY DEF Faults
  <2>3. s \in Runs /\ s.pc = "Workflow" /\ RunAgrees(journal, s)
    BY <1>r, <2>2, FaultRun, AtWorkflow DEF CursorOK, RunAgrees, ResumeOK
  <2>4. SideEffectsTyped
    BY <1>2, <1>i DEF InjectCrash
  <2> QED BY <1>2, <2>1, <2>3, <2>4, StepPreserves DEF InjectCrash, Set
<1>3. CASE CommandAppendFails(e)
  <2> DEFINE s == Fault(r, "Journal")
  <2>1. r.pc = "Appending" /\ r.pending.kind \notin LifecycleKinds /\ r.mode = "Live"
    BY <1>3, <1>r DEF CommandAppendFails, CursorOK, LifecycleKinds
  <2>2. "Journal" \in Faults BY DEF Faults
  <2>3. s \in Runs /\ s.pc = "Workflow" /\ s.mode = "Live" /\ ~ Healthy(s)
        /\ s.health = "Journal"
    BY <1>r, <2>1, <2>2, FaultRun
  <2>4. RunAgrees(journal', s)
    <3> HIDE DEF s
    <3> QED BY <2>3, AtWorkflow DEF ResumeOK
  <2>5. journal' = journal \/ AppendPending(e)
    BY <1>3, <2>1 DEF CommandAppendFails, AppendUncertain, AppendPending
  <2>6. SideEffectsTyped
    BY <1>3, <1>i DEF CommandAppendFails
  <2> QED BY <1>3, <2>1, <2>3, <2>4, <2>5, <2>6, StepPreserves DEF CommandAppendFails, Set
<1>4. CASE LifecycleAppendFails(e)
  <2>1. journal' = journal \/ AppendPending(e)
    BY <1>4 DEF LifecycleAppendFails, AppendUncertain, AppendPending
  <2>2. SideEffectsTyped
    BY <1>4, <1>i DEF LifecycleAppendFails
  <2> QED BY <1>4, <2>1, <2>2, EndPreserves DEF LifecycleAppendFails
<1>5. CASE LoadFails(e)
  BY <1>5, <1>i, EndPreserves DEF LoadFails
<1> QED BY <1>1, <1>2, <1>3, <1>4, <1>5 DEF Interruption

\* The invariant holds before any engine runs.
LEMMA InitHolds == Init => IInv
<1> SUFFICES ASSUME Init PROVE IInv
  OBVIOUS
<1>1. run = [f \in Engines |-> IdleRun] /\ journal = <<>> /\ owner = NoOwner
  BY DEF Init
<1>2. journal \in Seq(Events) /\ effects \in Seq(Effects)
  BY EmptySeq DEF Init
<1>3. TypeOK
  BY <1>1, <1>2, IdleRunTyped, InterruptionAssumption DEF Init, TypeOK
<1>4. LeaseExclusive
  BY <1>1, EngineAssumption DEF LeaseExclusive, IdleRun
<1>5. HistoryLegal
  BY <1>1 DEF HistoryLegal
<1>6. \A f \in Engines : RunAgrees(journal, run[f])
  BY <1>1, IdleAgrees
<1> QED BY <1>3, <1>4, <1>5, <1>6 DEF IInv

\* The invariant is about the modelled state only.
LEMMA StutterHolds == IInv /\ UNCHANGED vars => IInv'
  BY DEF vars, IInv, TypeOK, LeaseExclusive, HistoryLegal

\* Every step of every engine preserves the invariant.
LEMMA NextPreserves == IInv /\ [Next]_vars => IInv'
<1> SUFFICES ASSUME IInv, [Next]_vars PROVE IInv'
  OBVIOUS
<1>1. CASE UNCHANGED vars
  BY <1>1, StutterHolds
<1>2. ASSUME NEW e \in Engines, Acquire(e) PROVE IInv'
  BY <1>2, EntryStep DEF Acquire
<1>3. ASSUME NEW e \in Engines, Proceed(e) PROVE IInv'
  <2>1. CASE Enter(e) BY <2>1, EntryStep
  <2>2. CASE Command(e) BY <2>2, CommandStep
  <2>3. CASE Resolve(e) BY <2>3, ReplayStep, LiveStep DEF Resolve
  <2>4. CASE AppendEvent(e) BY <2>4, AppendStep
  <2>5. CASE Leave(e) BY <2>5, LeaveStep
  <2> QED BY <1>3, <2>1, <2>2, <2>3, <2>4, <2>5 DEF Proceed
<1>4. ASSUME NEW e \in Engines, Interruption(e) PROVE IInv'
  BY <1>4, InterruptionStep
<1> QED BY <1>1, <1>2, <1>3, <1>4 DEF Next

\* A run that agrees with the journal is never stranded by it.
LEMMA ReplayCovers == IInv => ReplayIsTotal
<1> SUFFICES ASSUME IInv, NEW e \in Engines
             PROVE  /\ run[e].health # "Attempt"
                    /\ run[e].pc = "ReplayStep" /\ Unread(run[e]) =>
                         NextRecorded(run[e]).kind \in {"StepStarted", "StepCompleted", "StepFailed"}
                    /\ run[e].pc = "ReplayTimer" /\ Unread(run[e]) =>
                         NextRecorded(run[e]).kind = "TimerFired"
  BY DEF ReplayIsTotal
<1> DEFINE r == run[e]
           ev == NextRecorded(r)
<1>1. /\ r \in Runs /\ CursorOK(journal, r) /\ ReplayOK(journal, r) /\ ResumeOK(journal, r)
      /\ journal \in Seq(Events) /\ (journal # <<>> => Legal(journal))
  BY DEF IInv, TypeOK, HistoryLegal, RunAgrees
<1>2. r.health # "Attempt"
  BY <1>1 DEF ResumeOK
<1>3. ASSUME r.pc \in {"ReplayStep", "ReplayTimer"}, Unread(r)
      PROVE  /\ Position(r) \in Seqs /\ ev \in Events /\ Admits(CursorState(journal, r), ev)
  <2>1. r.seq > 0 /\ journal # <<>>
    <3>1. Len(<<>>) = 0 BY EmptySeq
    <3> QED BY <3>1, <1>1, <1>3 DEF ReplayOK, CursorOK
  <2> QED BY <2>1, <1>1, <1>3, ReadNext, PositionInRange
<1>4. ASSUME r.pc = "ReplayStep", Unread(r)
      PROVE  ev.kind \in {"StepStarted", "StepCompleted", "StepFailed"}
  <2>1. r.attempt \in Nat /\ r.attempt > 0 /\ r.attempt - 1 \in Nat
    BY <1>1, <1>4 DEF ReplayOK, Runs
  <2> QED BY <1>1, <1>3, <1>4, <2>1, EventsAfter DEF ReplayOK
<1>5. ASSUME r.pc = "ReplayTimer", Unread(r)
      PROVE  ev.kind = "TimerFired"
  <2>1. 0 \in Nat OBVIOUS
  <2> QED BY <1>1, <1>3, <1>5, <2>1, EventsAfter DEF ReplayOK
<1> QED BY <1>2, <1>4, <1>5

-----------------------------------------------------------------------------
(* The theorems.                                                           *)

\* In every execution, for any number of engines, any workflow code and any limits,
\* every run agrees with the journal: its position, attempt and cursor are the ones
\* the recorded grammar is in (WorkflowCtx against HistoryState).
THEOREM Invariance == Spec => []IInv
  BY InitHolds, NextPreserves, PTL DEF Spec

\* The state stays well typed: in particular positions never pass MaxSeq and attempt
\* counters never pass the parser's limit by more than one (Seq::next, Attempt::next).
THEOREM TypeCorrect == Spec => []TypeOK
<1>1. IInv => TypeOK BY DEF IInv
<1> QED BY <1>1, Invariance, PTL

\* No two engines ever work on the execution at once, and a free lease means no run
\* (Execution's lease field).
THEOREM LeaseHeld == Spec => []LeaseExclusive
<1>1. IInv => LeaseExclusive BY DEF IInv
<1> QED BY <1>1, Invariance, PTL

\* What the engines write, through any interleaving, crash or uncertain append, is a
\* history the grammar accepts (context.rs and engine.rs against history.rs).
THEOREM AlwaysLegal == Spec => []HistoryLegal
<1>1. IInv => HistoryLegal BY DEF IInv
<1> QED BY <1>1, Invariance, PTL

\* The snapshot a run replays is the whole journal until it goes live: nothing is
\* appended behind its back (recover's single load).
THEOREM SnapshotHeld == Spec => []SnapshotIsCurrent
<1>1. IInv => SnapshotIsCurrent BY DEF IInv, RunAgrees, CursorOK, SnapshotIsCurrent
<1> QED BY <1>1, Invariance, PTL

\* Replay of a parsed history is never stranded inside a command: the attempt
\* overflow and the misplaced-event branches of replay_step_outcome and of
\* resolve_sleep are unreachable.
THEOREM ReplayTotal == Spec => []ReplayIsTotal
  BY ReplayCovers, Invariance, PTL
=============================================================================
