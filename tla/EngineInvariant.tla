-------------------------- MODULE EngineInvariant --------------------------
(***************************************************************************)
(* The inductive invariant behind HistoryLegal: at every pc, how the run's *)
(* position and attempt stand to the state the journal is in, at the       *)
(* cursor while replaying and at its end once live.                        *)
(***************************************************************************)
EXTENDS Engine

\* The state the run has read or written up to.
CursorState(j, r) ==
  IF r.mode = "Replaying" THEN StateAfter(j[r.pos - 1]) ELSE EndState(j)

CursorOK(j, r) ==
  /\ r.mode = "Replaying" => r.history = j /\ r.pos \in 2 .. Len(j) + 1
  /\ r.pc \notin {"Workflow", "ReplayStep", "ReplayTimer"} =>
       r.mode = "Live" \/ (r.pc = "Appending" /\ r.pending.kind \in TerminalKinds)

EntryOK(r) ==
  /\ r.pc = "Idle" => r = IdleRun
  /\ r.pc \in {"Starting", "Recovering"} =>
       r.seq = 0 /\ Healthy(r) /\ r.definition \in Definitions
  /\ r.pc = "Starting" => r.input \in Payloads

WorkflowOK(j, r) ==
  r.pc = "Workflow" /\ Healthy(r) => j # <<>> /\ CursorState(j, r) = Ready(r.seq)

ReplayOK(j, r) ==
  /\ r.pc \in {"ReplayStep", "ReplayTimer"} => r.seq > 0 /\ r.mode = "Replaying" /\ Healthy(r)
  /\ r.pc = "ReplayStep" =>
       /\ r.step \in StepNames /\ r.attempt > 0
       /\ \/ r.attempt = 1 /\ CursorState(j, r) = HistoryState("Scheduled", Position(r), 0)
          \/ CursorState(j, r) = HistoryState("Started", Position(r), r.attempt - 1)
  /\ r.pc = "ReplayTimer" => CursorState(j, r) = HistoryState("Timer", Position(r), 0)

\* The pending event continues the journal, at the command's own position.
AppendingOK(j, r) ==
  r.pc = "Appending" =>
    /\ Healthy(r)
    /\ r.pending \in Events
    /\ IF r.pending.kind = "ExecutionStarted" THEN j = <<>> /\ r.seq = 0
       ELSE j # <<>> /\ Admits(EndState(j), r.pending)
    /\ r.pending.kind \in PositionedKinds => r.seq > 0 /\ r.pending.seq = Position(r)
    /\ r.pending.kind \in {"StepScheduled", "StepStarted"} => r.step \in StepNames
    /\ r.pending.kind = "StepStarted" => r.pending.attempt = r.attempt

CheckpointOK(j, r) ==
  /\ r.pc \in {CheckpointAfter[k] : k \in DOMAIN CheckpointAfter} =>
       j # <<>> /\ r.seq > 0 /\ Healthy(r)
  /\ r.pc = "AfterStepScheduled" =>
       EndState(j) = HistoryState("Scheduled", Position(r), 0) /\ r.step \in StepNames
  /\ r.pc = "AfterStepStarted" =>
       /\ EndState(j) = HistoryState("Started", Position(r), r.attempt)
       /\ r.attempt \in Attempts /\ r.step \in StepNames
  /\ r.pc = "AfterTimerScheduled" => EndState(j) = HistoryState("Timer", Position(r), 0)
  /\ r.pc \in {"AfterStepCompleted", "AfterTimerFired"} =>
       EndState(j) = Ready(r.seq) /\ r.pending.kind \in {"StepCompleted", "TimerFired"}

\* A replayed history has an attempt left, so none is found exhausted.
ResumeOK(j, r) == r.health # "Attempt" /\ (r.mode = "Replaying" => Resumable(j))

\* The lease holder's run agrees with the journal j.
RunAgrees(j, r) ==
  /\ EntryOK(r) /\ ResumeOK(j, r) /\ CursorOK(j, r) /\ WorkflowOK(j, r)
  /\ ReplayOK(j, r) /\ AppendingOK(j, r) /\ CheckpointOK(j, r)

\* Every run agrees with the journal, whoever else is at work (the relation
\* between WorkflowCtx's seq, cursor and attempt and the recorded grammar).
IInv == TypeOK /\ LeaseExclusive /\ HistoryLegal /\ \A e \in Engines : RunAgrees(journal, run[e])
=============================================================================
