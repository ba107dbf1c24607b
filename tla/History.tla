------------------------------ MODULE History ------------------------------
(***************************************************************************)
(* The event grammar (src/history.rs): the state a journal's last event    *)
(* leaves the execution in, what may follow it, and what recovery accepts. *)
(* HistoryState::advance moves to a state that depends on the event alone, *)
(* so a journal is legal iff every event is admitted after its             *)
(* predecessor.  HistoryParse folds over the journal as the code does, and *)
(* its run compares the two.                                               *)
(***************************************************************************)
EXTENDS JournalEvents

HistoryState(phase, seq, attempt) ==
  [phase |-> phase, seq |-> seq, attempt |-> attempt]

Ready(seq) == HistoryState("Ready", seq, 0)

\* The state after an admitted event.  A terminal state's payload is the
\* terminal event's own.
StateAfter(ev) ==
  CASE ev.kind = "ExecutionStarted" -> Ready(0)
    [] ev.kind = "StepScheduled" -> HistoryState("Scheduled", ev.seq, 0)
    [] ev.kind = "StepStarted" -> HistoryState("Started", ev.seq, ev.attempt)
    [] ev.kind = "TimerScheduled" -> HistoryState("Timer", ev.seq, 0)
    [] ev.kind \in SettlingKinds -> Ready(ev.seq + 1)
    [] ev.kind = "ExecutionCompleted" -> HistoryState("Completed", 0, 0)
    [] ev.kind = "ExecutionFailed" -> HistoryState("Failed", 0, 0)

PredecessorPhases(kind) ==
  CASE kind = "ExecutionStarted" -> {}
    [] kind = "StepStarted" -> {"Scheduled", "Started"}
    [] kind \in {"StepCompleted", "StepFailed"} -> {"Started"}
    [] kind = "TimerFired" -> {"Timer"}
    [] kind \in {"StepScheduled", "NowRecorded", "RandomRecorded",
                 "TimerScheduled"} \cup TerminalKinds -> {"Ready"}

-----------------------------------------------------------------------------
(* The reasons an event is refused after state st, in the order the code   *)
(* tests them.                                                             *)

Unexpected(st, ev) == st.phase \notin PredecessorPhases(ev.kind)

NoNextAttempt(st) == st.phase = "Started" /\ st.attempt = MaxAttempt

Misplaced(st, ev) == ev.kind \in PositionedKinds /\ ev.seq # st.seq

\* StepStarted continues the count (from 0 in Scheduled); StepFailed names
\* the attempt in progress.
Misnumbered(st, ev) ==
  \/ ev.kind = "StepStarted" /\ ev.attempt # st.attempt + 1
  \/ ev.kind = "StepFailed" /\ ev.attempt # st.attempt

NoNextSeq(ev) == ev.kind \in PositionedKinds \ {"StepStarted"} /\ ev.seq = MaxSeq

AdvanceError(st, ev) ==
  IF Unexpected(st, ev) THEN "UnexpectedEvent"
  ELSE IF ev.kind = "StepStarted" /\ NoNextAttempt(st) THEN "AttemptOverflow"
  ELSE IF Misplaced(st, ev) THEN "PositionMismatch"
  ELSE IF Misnumbered(st, ev) THEN "AttemptMismatch"
  ELSE IF NoNextSeq(ev) THEN "SequenceOverflow"
  ELSE "none"

Admits(st, ev) == AdvanceError(st, ev) = "none"

-----------------------------------------------------------------------------
\* Every event is admitted where it stands.  An interrupted tail is legal.
Legal(journal) ==
  /\ journal # <<>>
  /\ journal[1].kind = "ExecutionStarted"
  /\ \A i \in 2 .. Len(journal) : Admits(StateAfter(journal[i-1]), journal[i])

EndState(journal) == StateAfter(journal[Len(journal)])

\* Mutation: exhausted attempts are resumed.
ResumableAlways(journal) == TRUE

\* Mutation: no interrupted attempt is resumed.
ResumableIfNotStarted(journal) == EndState(journal).phase # "Started"

\* ensure_resumable: an interrupted attempt must have a successor.
Resumable(journal) == ~ NoNextAttempt(EndState(journal))

Parses(journal) == Legal(journal) /\ Resumable(journal)

Terminal(journal) ==
  journal # <<>> /\ journal[Len(journal)].kind \in TerminalKinds
=============================================================================
