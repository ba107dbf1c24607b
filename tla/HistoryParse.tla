---------------------------- MODULE HistoryParse ----------------------------
(***************************************************************************)
(* ValidatedHistory::parse as the code runs it: a fold that carries the    *)
(* state and stops at the first error.  Journals are grown one event at a  *)
(* time, any event after any accepted prefix, and the fold is compared     *)
(* with the neighbour-wise definition the engine modules use and with a    *)
(* declarative grammar that counts over the whole journal.                 *)
(***************************************************************************)
EXTENDS History, SequencesExt

CONSTANT MaxLen  \* bound on the length of the generated journals

ASSUME LenAssumption == MaxLen \in Nat

VARIABLE journal

-----------------------------------------------------------------------------
\* Mutation: a fold that forgets an earlier error.
TurnPastErrors(acc, ev) ==
  [end |-> StateAfter(ev), error |-> AdvanceError(acc.end, ev),
   offset |-> acc.offset + 1]

\* One turn of try_fold: an error ends it, with the offset it was found at.
Turn(acc, ev) ==
  IF acc.error # "none" THEN acc
  ELSE [end |-> StateAfter(ev), error |-> AdvanceError(acc.end, ev),
        offset |-> acc.offset + 1]

Fold(events) ==
  FoldLeft(Turn, [end |-> Ready(0), error |-> "none", offset |-> 0], events)

\* Mutation: an interrupted attempt is always taken to be resumable.
ParseUnresumed(j) ==
  IF j = <<>> THEN [error |-> "Empty", offset |-> 0]
  ELSE IF j[1].kind # "ExecutionStarted"
    THEN [error |-> "UnexpectedEvent", offset |-> 0]
  ELSE LET folded == Fold(Tail(j))
       IN [error |-> folded.error, offset |-> folded.offset]

Parse(j) ==
  IF j = <<>> THEN [error |-> "Empty", offset |-> 0]
  ELSE IF j[1].kind # "ExecutionStarted"
    THEN [error |-> "UnexpectedEvent", offset |-> 0]
  ELSE LET folded == Fold(Tail(j))
       IN IF folded.error = "none" /\ NoNextAttempt(folded.end)
          THEN [error |-> "AttemptOverflow", offset |-> Len(j) - 1]
          ELSE [error |-> folded.error, offset |-> folded.offset]

Accepted(j) == Parse(j).error = "none"

-----------------------------------------------------------------------------
(* The generator.  A refused journal is grown once more, so that errors    *)
(* before the tail are seen too.                                           *)

Init == journal = <<>>

Grow(ev) ==
  /\ Len(journal) < MaxLen
  /\ Len(journal) > 1 => Legal(Front(journal))
  /\ journal' = Append(journal, ev)

Next == \E ev \in Events : Grow(ev)

Spec == Init /\ [][Next]_journal

-----------------------------------------------------------------------------
(* A declarative reading of the grammar, over the whole journal.           *)

Before(j, i, kinds) == {k \in 1 .. i - 1 : j[k].kind \in kinds}

AttemptsBefore(j, i) ==
  {k \in Before(j, i, {"StepStarted"}) : j[k].seq = j[i].seq}

\* Positions count the commands opened so far; an event that follows a
\* command carries the position of the last one opened.
Numbered(j) ==
  \A i \in DOMAIN j :
    LET opened == Cardinality(Before(j, i, CommandRecordKinds))
    IN /\ j[i].kind \in CommandRecordKinds => j[i].seq = opened
       /\ j[i].kind \in PositionedKinds \ CommandRecordKinds
            => opened > 0 /\ j[i].seq = opened - 1

\* A command opens, and an execution ends, only once every command opened
\* before has been answered.
Sequential(j) ==
  \A i \in DOMAIN j :
    LET opened == Before(j, i, CommandRecordKinds)
        settled == Before(j, i, SettlingKinds)
    IN Cardinality(settled) <= Cardinality(opened)
       /\ (j[i].kind \in CommandRecordKinds \cup TerminalKinds
             => Cardinality(settled) = Cardinality(opened))
       /\ (j[i].kind \in {"StepStarted", "StepCompleted", "StepFailed", "TimerFired"}
             => Cardinality(settled) < Cardinality(opened))

\* Attempts of a step count up from one and stop at its outcome, which
\* belongs to the last of them.
AttemptsCounted(j) ==
  \A i \in DOMAIN j :
    LET attempts == Cardinality(AttemptsBefore(j, i))
    IN /\ j[i].kind = "StepStarted" => j[i].attempt = attempts + 1
       /\ j[i].kind = "StepCompleted" => attempts > 0
       /\ j[i].kind = "StepFailed" => attempts > 0 /\ j[i].attempt = attempts

\* Followers answer a command of their own kind.
Paired(j) ==
  \A i \in DOMAIN j : \A k \in DOMAIN j :
    k < i /\ j[k].kind \in CommandRecordKinds /\ j[k].seq = j[i].seq
      => /\ j[i].kind \in {"StepStarted", "StepCompleted", "StepFailed"}
              => j[k].kind = "StepScheduled"
         /\ j[i].kind = "TimerFired" => j[k].kind = "TimerScheduled"

Bracketed(j) ==
  /\ \A i \in DOMAIN j : j[i].kind = "ExecutionStarted" <=> i = 1
  /\ \A i \in DOMAIN j : j[i].kind \in TerminalKinds => i = Len(j)
  /\ j # <<>>

Representable(j) ==
  \A i \in DOMAIN j : ~ (j[i].kind \in PositionedKinds /\ j[i].seq = MaxSeq)

WellFormed(j) ==
  /\ Bracketed(j) /\ Representable(j)
  /\ Numbered(j) /\ Sequential(j) /\ AttemptsCounted(j) /\ Paired(j)
-----------------------------------------------------------------------------
\* The fold accepts exactly the journals that are well formed as a whole and
\* do not end in an attempt without a successor (ValidatedHistory::parse).
\* The neighbour-wise Legal and Resumable that the engine modules use say the
\* same, so what they prove is about the parser.
ParseIsTheGrammar ==
  /\ Accepted(journal) <=>
       /\ WellFormed(journal)
       /\ journal[Len(journal)] \notin {StepStarted(q, MaxAttempt) : q \in Seqs}
  /\ Accepted(journal) <=> Parses(journal)

\* An error names the first event that does not fit: the journal is legal up
\* to that offset and illegal with it, but for an exhausted attempt at the
\* tail (HistoryError, the offset of every variant).
ErrorLocatesFirstMisfit ==
  LET result == Parse(journal)
      upTo(n) == SubSeq(journal, 1, n)
  IN result.error # "none" /\ result.offset > 0 =>
       /\ Legal(upTo(result.offset))
       /\ \/ ~ Legal(upTo(result.offset + 1))
          \/ result.error = "AttemptOverflow" /\ result.offset + 1 = Len(journal)
=============================================================================
