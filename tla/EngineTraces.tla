---------------------------- MODULE EngineTraces ----------------------------
(***************************************************************************)
(* The effects of a finished execution against those of an uninterrupted   *)
(* one, under the trace predicates of Equivalence.  A record is a step's   *)
(* operation key (its position, there being one execution) and its name;   *)
(* payloads are left out, since a body need not return the same result     *)
(* twice.                                                                  *)
(***************************************************************************)
EXTENDS EngineRefines, SequencesExt

E == INSTANCE Equivalence

EffectRecord(seq, step) == [operation |-> seq, step |-> step, payload |-> NoValue]

Observed == [k \in DOMAIN effects |-> EffectRecord(effects[k].seq, effects[k].step)]

\* Without interruption each step on record runs its body once.
RecordOnce(trace, ev) ==
  IF ev.kind = "StepScheduled" THEN Append(trace, EffectRecord(ev.seq, ev.value)) ELSE trace

StepsOf(j) == FoldLeft(RecordOnce, <<>>, j)

Uninterrupted == StepsOf(journal)

\* However often it was interrupted, an execution that ended ran every step's
\* body, under one key, with first appearances in order (OrderedRetries).
FinishedWithOrderedRetries ==
  Terminal(journal) => E!OrderedRetries(Observed, Uninterrupted)

\* One interruption costs at most one repeated effect, next to the original
\* (SingleAdjacentDuplicate, tests/crash_recovery.rs); none costs none.
OneInterruptionOneDuplicate ==
  /\ Terminal(journal) /\ interruptions = 1 =>
       E!SingleAdjacentDuplicate(Observed, Uninterrupted)
  /\ Terminal(journal) /\ interruptions = 0 => E!ExactTrace(Observed, Uninterrupted)
-----------------------------------------------------------------------------
(* The invariant behind both.                                              *)

StepPhases == {"Scheduled", "Started"}

\* The journal ends inside a step.
InStep(j) == j # <<>> /\ EndState(j).phase \in StepPhases

\* The steps on record are in the order of their positions, the open one last.
StepsInOrder(j) ==
  /\ StepsOf(j) \in Seq([operation : Seqs, step : StepNames, payload : {NoValue}])
  /\ \A n \in DOMAIN StepsOf(j) : \E i \in DOMAIN j :
       j[i].kind = "StepScheduled" /\ StepsOf(j)[n] = EffectRecord(j[i].seq, j[i].value)
  /\ \A m, n \in DOMAIN StepsOf(j) :
       m < n => StepsOf(j)[m].operation < StepsOf(j)[n].operation
  /\ InStep(j) => StepsOf(j) # <<>> /\ StepsOf(j)[Len(StepsOf(j))].operation = EndState(j).seq
  /\ \A i, k \in DOMAIN j :
       j[i].kind = "StepScheduled" /\ j[k].kind = "StepScheduled" /\ j[i].seq = j[k].seq => i = k

\* How many steps ran among the first k effects.
Rank(performed, k) == Cardinality({performed[i].seq : i \in 1 .. k})

Ran(performed, seq) == \E k \in DOMAIN performed : performed[k].seq = seq

\* Each effect is that of the step its rank says, and every step on record but
\* an open one has run.
EffectsByRank(j, performed) ==
  /\ \A k \in DOMAIN performed :
       /\ Rank(performed, k) \in DOMAIN StepsOf(j)
       /\ StepsOf(j)[Rank(performed, k)] = EffectRecord(performed[k].seq, performed[k].step)
  /\ Len(StepsOf(j)) = Rank(performed, Len(performed))
                         + IF InStep(j) /\ ~ Ran(performed, EndState(j).seq) THEN 1 ELSE 0

\* A run inside a step knows it by the name on record.
AtStep(r) ==
  \/ r.pc \in {"ReplayStep", "AfterStepScheduled", "AfterStepStarted"}
  \/ r.pc = "Appending" /\ r.pending.kind \in {"StepScheduled", "StepStarted"}

StepKnown(j, r) ==
  AtStep(r) =>
    /\ \A i \in DOMAIN j :
         j[i].kind = "StepScheduled" /\ j[i].seq = Position(r) => j[i].value = r.step
    /\ r.pc = "Appending" /\ r.pending.kind = "StepScheduled" => r.pending.value = r.step

TraceInv ==
  /\ StepsInOrder(journal) /\ EffectsByRank(journal, effects)
  /\ \A e \in Engines : StepKnown(journal, run[e])
=============================================================================
