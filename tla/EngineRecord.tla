---------------------------- MODULE EngineRecord ----------------------------
(***************************************************************************)
(* The second inductive invariant, on top of EngineInvariant's: what the   *)
(* journal says of the commands before its end, what the effects say of    *)
(* the journal, and what the lease holder's run has seen of both.          *)
(***************************************************************************)
EXTENDS EngineInvariant, EngineRefines

-----------------------------------------------------------------------------
(* The journal.                                                            *)

\* The journal goes on.
Continues(j) == j # <<>> /\ ~ Terminal(j)

SettledOnce(j) ==
  \A i, k \in DOMAIN j :
    /\ j[i].kind \in SettlingKinds /\ j[k].kind \in SettlingKinds
    /\ j[i].seq = j[k].seq
    => i = k

\* The positions before the one the journal stands at are settled, no others.
SettledInOrder(j) ==
  Continues(j) =>
    /\ \A i \in DOMAIN j : j[i].kind \in SettlingKinds => j[i].seq < EndState(j).seq
    /\ \A q \in Seqs : q < EndState(j).seq => \E i \in DOMAIN j : Settles(j[i], q)

\* Event i opens the command the journal ends in, and no other event does.
Opens(j, i) ==
  /\ j[i].kind = IF EndState(j).phase = "Timer" THEN "TimerScheduled" ELSE "StepScheduled"
  /\ j[i].seq = EndState(j).seq
  /\ \A k \in DOMAIN j : j[k].kind \in OpeningKinds /\ j[k].seq = EndState(j).seq => k = i

OpenedOnce(j) ==
  Continues(j) =>
    /\ EndState(j).phase \in OpenPhases => \E i \in DOMAIN j : Opens(j, i)
    /\ \A i \in DOMAIN j : j[i].kind \in OpeningKinds =>
         \/ j[i].seq < EndState(j).seq
         \/ j[i].seq = EndState(j).seq /\ EndState(j).phase \in OpenPhases

\* Each command on record is one the code issues after the results before it.
IssuedByCode(j) ==
  \A i \in DOMAIN j : j[i].kind \in CommandRecordKinds =>
    \E cmd \in Commands :
      /\ cmd \in Code(j[1].value.definition, j[1].value.input, AnswersTo(j, j[i].seq))
      /\ Matches(j[i], cmd)

RecordOK(j) == SettledOnce(j) /\ SettledInOrder(j) /\ OpenedOnce(j) /\ IssuedByCode(j)

-----------------------------------------------------------------------------
(* The effects.                                                            *)

\* The bodies that ran are those of earlier steps, and of the open step's
\* attempts so far.
EffectsBounded(j, performed) ==
  Continues(j) => \A k \in DOMAIN performed :
    \/ performed[k].seq < EndState(j).seq
    \/ /\ EndState(j).phase = "Started"
       /\ performed[k].seq = EndState(j).seq
       /\ performed[k].attempt <= EndState(j).attempt

\* A body has run, its outcome is not durable, and nobody is about to record it.
Lost ==
  /\ effects # <<>> /\ journal # <<>>
  /\ EndState(journal).phase = "Started"
  /\ effects[Len(effects)].seq = EndState(journal).seq
  /\ \A e \in Engines : ~ EffectAtRisk(run[e])

\* An interruption has paid for every repeat, and for the one a lost outcome
\* will cost.
RepeatsArePaid ==
  Len(effects) + (IF Lost THEN 1 ELSE 0)
    <= Cardinality({effects[k].seq : k \in DOMAIN effects}) + interruptions

\* The run is in the attempt the journal ends in.
InAttempt(r) == r.pc = "AfterStepStarted" \/ EffectAtRisk(r)

\* Attempts cost interruptions: one for each attempt after the first, and one
\* more once nobody is in the last attempt on record.
AttemptsArePaid ==
  journal # <<>> /\ EndState(journal).phase = "Started" =>
    EndState(journal).attempt
      <= interruptions + (IF \E e \in Engines : InAttempt(run[e]) THEN 1 ELSE 0)

-----------------------------------------------------------------------------
(* A run.                                                                  *)

\* The results are those on record at the first positions.
Seen(j, obs) ==
  \A k \in DOMAIN obs : \E i \in DOMAIN j :
    Settles(j[i], k - 1) /\ ResultOf(j[i]) = obs[k]

\* A command has taken its position and not returned.
InCommand(r) ==
  \/ r.pc \in {"ReplayStep", "ReplayTimer"} \cup {CheckpointAfter[k] : k \in DOMAIN CheckpointAfter}
  \/ r.pc = "Appending" /\ r.pending.kind \in PositionedKinds

ObservedOK(j, r) ==
  /\ Seen(j, r.obs)
  /\ Healthy(r) => Len(r.obs) = IF InCommand(r) THEN Position(r) ELSE r.seq

InvocationOf(r) == [definition |-> r.definition, input |-> r.input]

InvocationOK(j, r) ==
  /\ r.pc \notin {"Idle", "Starting", "Recovering"} /\ j # <<>> => j[1].value = InvocationOf(r)
  /\ r.pc = "Appending" /\ r.pending.kind = "ExecutionStarted" =>
       r.pending.value = InvocationOf(r)

\* What the workflow returned, from the record of it.
OutcomeOf(ev) ==
  [kind |-> IF ev.kind = "ExecutionCompleted" THEN "Ok" ELSE "Err", arg |-> ev.value]

\* The code asked for what is being appended.
PendingIssued(r) ==
  r.pc = "Appending" =>
    /\ r.pending.kind \in CommandRecordKinds =>
         \E cmd \in Commands :
           cmd \in Code(r.definition, r.input, r.obs) /\ Matches(r.pending, cmd)
    /\ r.pending.kind \in TerminalKinds =>
         OutcomeOf(r.pending) \in Code(r.definition, r.input, r.obs)

\* The attempt in progress has not run its body; an outcome being appended is
\* what the last body returned.
BodyOK(performed, r) ==
  /\ r.pc = "AfterStepStarted" => \A k \in DOMAIN performed :
       performed[k].seq = Position(r) => performed[k].attempt < r.attempt
  /\ EffectAtRisk(r) =>
       /\ performed # <<>>
       /\ performed[Len(performed)].seq = r.pending.seq
       /\ performed[Len(performed)].result = ResultOf(r.pending)

\* What a checkpoint follows is durable; the seal comes after every command on
\* record; a terminal journal is not replayed.
RecordedOK(j, r) ==
  /\ r.pc \in {"AfterStepCompleted", "AfterTimerFired"} => r.pending = j[Len(j)]
  /\ r.pc = "Appending" /\ r.pending.kind \in TerminalKinds => EndState(j) = Ready(r.seq)
  /\ r.mode = "Replaying" => ~ Terminal(j)

RunSees(j, performed, r) ==
  /\ ObservedOK(j, r) /\ InvocationOK(j, r) /\ PendingIssued(r)
  /\ BodyOK(performed, r) /\ RecordedOK(j, r)

RecordInv ==
  /\ RecordOK(journal)
  /\ EffectsFollowAttempts /\ EffectsBounded(journal, effects)
  /\ OutcomeWasPerformed /\ RepliesAreDurable /\ RepeatsArePaid
  /\ \A e \in Engines : RunSees(journal, effects, run[e])
=============================================================================
