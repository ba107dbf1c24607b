--------------------------- MODULE JournalEvents ---------------------------
(***************************************************************************)
(* The vocabulary of one execution's journal: command positions, attempts, *)
(* workflow commands and the eleven kinds of JournalEvent (src/journal.rs, *)
(* src/command.rs, src/step.rs).  Payloads, names, timestamps and random   *)
(* bytes are opaque to the engine and are drawn from constant sets.        *)
(***************************************************************************)
EXTENDS Naturals, Sequences

CONSTANTS
  WorkflowNames, WorkflowVersions,
  StepNames,
  Payloads,        \* inputs, step results and workflow outputs
  StepErrors,      \* business failures a step body can return
  WorkflowErrors,  \* errors workflow code can return
  Timestamps,      \* clock readings and timer deadlines
  RandomDraws,
  MaxSeq,          \* the largest command position (u64::MAX in the code)
  MaxAttempt,      \* the largest attempt number (u32::MAX in the code)
  NoValue          \* fills the record fields an event kind does not carry

ASSUME SeqAssumption == MaxSeq \in Nat
ASSUME AttemptAssumption == MaxAttempt \in Nat \ {0}

Seqs == 0 .. MaxSeq
Attempts == 1 .. MaxAttempt

Definitions == [workflow : WorkflowNames, version : WorkflowVersions]

Invocations == [definition : Definitions, input : Payloads]

-----------------------------------------------------------------------------
(* Commands, as a workflow requests them.  A reading carries no argument.  *)

CommandKinds == {"RunStep", "ReadNow", "DrawRandom", "Sleep"}

RunStep(name) == [kind |-> "RunStep", arg |-> name]
ReadNow == [kind |-> "ReadNow", arg |-> NoValue]
DrawRandom == [kind |-> "DrawRandom", arg |-> NoValue]
Sleep(deadline) == [kind |-> "Sleep", arg |-> deadline]

Commands ==
  {RunStep(n) : n \in StepNames} \cup {ReadNow, DrawRandom}
    \cup {Sleep(d) : d \in Timestamps}

-----------------------------------------------------------------------------
(* Events.  Every event has the same four fields; `attempt` is 0 and       *)
(* `value` NoValue where the source variant has no such field.             *)

Event(kind, seq, attempt, value) ==
  [kind |-> kind, seq |-> seq, attempt |-> attempt, value |-> value]

ExecutionStarted(inv) == Event("ExecutionStarted", 0, 0, inv)
StepScheduled(seq, name) == Event("StepScheduled", seq, 0, name)
StepStarted(seq, attempt) == Event("StepStarted", seq, attempt, NoValue)
StepCompleted(seq, result) == Event("StepCompleted", seq, 0, result)
StepFailed(seq, attempt, error) == Event("StepFailed", seq, attempt, error)
NowRecorded(seq, value) == Event("NowRecorded", seq, 0, value)
RandomRecorded(seq, value) == Event("RandomRecorded", seq, 0, value)
TimerScheduled(seq, deadline) == Event("TimerScheduled", seq, 0, deadline)
TimerFired(seq) == Event("TimerFired", seq, 0, NoValue)
ExecutionCompleted(output) == Event("ExecutionCompleted", 0, 0, output)
ExecutionFailed(error) == Event("ExecutionFailed", 0, 0, error)

TerminalKinds == {"ExecutionCompleted", "ExecutionFailed"}

\* The events that answer a command: replay returns their value.
SettlingKinds ==
  {"StepCompleted", "StepFailed", "NowRecorded", "RandomRecorded", "TimerFired"}

\* The event that opens a command of each kind, the inverse of command_kind.
RecordKind(commandKind) ==
  CASE commandKind = "RunStep" -> "StepScheduled"
    [] commandKind = "ReadNow" -> "NowRecorded"
    [] commandKind = "DrawRandom" -> "RandomRecorded"
    [] commandKind = "Sleep" -> "TimerScheduled"

CommandRecordKinds == {RecordKind(k) : k \in CommandKinds}

PositionedKinds == CommandRecordKinds \cup SettlingKinds \cup {"StepStarted"}

Events ==
  {ExecutionStarted(i) : i \in Invocations}
    \cup {StepScheduled(q, n) : q \in Seqs, n \in StepNames}
    \cup {StepStarted(q, a) : q \in Seqs, a \in Attempts}
    \cup {StepCompleted(q, v) : q \in Seqs, v \in Payloads}
    \cup {StepFailed(q, a, x) : q \in Seqs, a \in Attempts, x \in StepErrors}
    \cup {NowRecorded(q, t) : q \in Seqs, t \in Timestamps}
    \cup {RandomRecorded(q, r) : q \in Seqs, r \in RandomDraws}
    \cup {TimerScheduled(q, d) : q \in Seqs, d \in Timestamps}
    \cup {TimerFired(q) : q \in Seqs}
    \cup {ExecutionCompleted(v) : v \in Payloads}
    \cup {ExecutionFailed(x) : x \in WorkflowErrors}

\* What a settled command hands back to the workflow.
ResultOf(ev) == [kind |-> ev.kind, value |-> ev.value]

Results ==
  [kind : {"StepCompleted"}, value : Payloads]
    \cup [kind : {"StepFailed"}, value : StepErrors]
    \cup [kind : {"NowRecorded"}, value : Timestamps]
    \cup [kind : {"RandomRecorded"}, value : RandomDraws]
    \cup [kind : {"TimerFired"}, value : {NoValue}]
=============================================================================
