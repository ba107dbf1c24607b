--------------------------- MODULE EngineRefines ---------------------------
(***************************************************************************)
(* Engine implements DurableExecution.  The mapping reads the journal, not *)
(* the engines: what is durable is what happened, and a crashed run's      *)
(* progress beyond it is a stutter.  The journal alone says which command  *)
(* is open; the effects say what its last attempt returned.                *)
(***************************************************************************)
EXTENDS Engine

\* The result on record at a settled position.
AnswerAt(j, seq) ==
  LET i == CHOOSE i \in DOMAIN j : Settles(j[i], seq)
  IN ResultOf(j[i])

\* The results of the first n commands.
AnswersTo(j, n) == [k \in 1 .. n |-> AnswerAt(j, k - 1)]

\* The results of all commands on record; the settled positions are the first
\* ones (EngineRecord).
Answers(j) ==
  [k \in {q + 1 : q \in {p \in Seqs : \E i \in DOMAIN j : Settles(j[i], p)}} |->
     AnswerAt(j, k - 1)]

OpenPhases == {"Scheduled", "Started", "Timer"}

OpeningKinds == {"StepScheduled", "TimerScheduled"}

CommandOpenedBy(ev) == IF ev.kind = "StepScheduled" THEN RunStep(ev.value) ELSE Sleep(ev.value)

\* The command left open at the journal's end, as a sequence of at most one.
OpenCommand(j) ==
  IF j = <<>> \/ EndState(j).phase \notin OpenPhases THEN <<>>
  ELSE LET i == CHOOSE i \in DOMAIN j :
                  j[i].kind \in OpeningKinds /\ j[i].seq = EndState(j).seq
       IN << CommandOpenedBy(j[i]) >>

\* The result of the open step's last body, if one has run.
LastPerformance(j, performed) ==
  IF /\ OpenCommand(j) # <<>>
     /\ performed # <<>>
     /\ performed[Len(performed)].seq = EndState(j).seq
    THEN << performed[Len(performed)].result >>
    ELSE <<>>

Beginning(j) == IF j = <<>> THEN <<>> ELSE << j[1].value >>

Ending(j) == IF Terminal(j) THEN << ResultOf(j[Len(j)]) >> ELSE <<>>

Durable ==
  INSTANCE DurableExecution WITH
    invocation <- Beginning(journal),
    results <- Answers(journal),
    request <- OpenCommand(journal),
    performed <- LastPerformance(journal, effects),
    outcome <- Ending(journal)

\* Crashed, contended and retried runs of the engine add up to one run of the
\* workflow's code: every command on record is one the code issues after the
\* results before it, and the outcome is the one it returns after all of them.
ImplementsDurable == Durable!Spec
=============================================================================
