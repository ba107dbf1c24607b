---------------------------- MODULE DriverProofs ----------------------------
(***************************************************************************)
(* What interruptions can be seen to cost.  First the engine's effects     *)
(* against those of an uninterrupted execution, under the trace predicates *)
(* of src/equivalence.rs.  Then the two programs that drive the engine:    *)
(* the demo binary's processes (Demo) and the crash-injection runs         *)
(* (Failpoints).  Their steps are steps of Engine, so Engine's invariants  *)
(* hold under them, and each adds what its own state says of the run it    *)
(* drives.                                                                 *)
(***************************************************************************)
EXTENDS EngineRecordProofs, Demo, Failpoints

Record == INSTANCE FoldLemmas WITH Op <- RecordOnce, Base <- <<>>

\* One turn of the scan of ordered retries.
Turn(next, place) == E!Advance(next, place)

Scan == INSTANCE FoldLemmas WITH Op <- Turn, Base <- 0

-----------------------------------------------------------------------------
(* The steps on record.                                                    *)

LEMMA RecordFolds ==
  \A s : Record!FoldLeft(RecordOnce, <<>>, s) = FoldLeft(RecordOnce, <<>>, s)
BY DEF FoldLeft, Record!FoldLeft, MapThenFoldSet, Record!MapThenFoldSet, Max, Record!Max

\* An event more is at most a step more.
LEMMA StepsGrow ==
  ASSUME NEW j \in Seq(Events), NEW ev \in Events
  PROVE  StepsOf(Append(j, ev)) = RecordOnce(StepsOf(j), ev)
BY Record!FoldOfAppend, RecordFolds DEF StepsOf

LEMMA NoSteps == StepsOf(<<>>) = <<>>
BY Record!FoldOfNone, RecordFolds DEF StepsOf

\* A step is recorded under its position and its name.
LEMMA StepRecord ==
  ASSUME NEW ev \in Events, ev.kind = "StepScheduled"
  PROVE  /\ ev.value \in StepNames
         /\ EffectRecord(ev.seq, ev.value) \in
              [operation : Seqs, step : StepNames, payload : {NoValue}]
<1>1. ev.value \in StepNames
  BY DEF Events, Event, ExecutionStarted, StepScheduled, StepStarted, StepCompleted,
         StepFailed, NowRecorded, RandomRecorded, TimerScheduled, TimerFired,
         ExecutionCompleted, ExecutionFailed
<1> QED BY <1>1, EventFields DEF EffectRecord

LEMMA StepsOfEmpty == StepsInOrder(<<>>)
<1>1. \A S : <<>> \in Seq(S) /\ Len(<<>>) = 0
  OBVIOUS
<1>2. DOMAIN <<>> = {}
  BY <1>1
<1> QED BY <1>1, <1>2, NoSteps DEF StepsInOrder, InStep

\* What the grammar admits keeps the steps in order.
LEMMA StepsStayInOrder ==
  ASSUME NEW j \in Seq(Events), NEW ev \in Events, StepsInOrder(j), RecordOK(j),
         \/ j = <<>> /\ ev.kind = "ExecutionStarted"
         \/ j # <<>> /\ Admits(EndState(j), ev)
  PROVE  StepsInOrder(Append(j, ev))
<1> DEFINE k == Append(j, ev)
           U == StepsOf(j)
           V == StepsOf(k)
           n == Len(j) + 1
<1>0. /\ DOMAIN k = DOMAIN j \cup {n} /\ n \notin DOMAIN j /\ k[n] = ev
      /\ \A i \in DOMAIN j : k[i] = j[i]
      /\ EndState(k) = StateAfter(ev)
      /\ V = IF ev.kind = "StepScheduled" THEN Append(U, EffectRecord(ev.seq, ev.value)) ELSE U
  BY AppendedAt, StepsGrow DEF RecordOnce
<1>1. /\ U \in Seq([operation : Seqs, step : StepNames, payload : {NoValue}])
      /\ \A m \in DOMAIN U : \E i \in DOMAIN j :
           j[i].kind = "StepScheduled" /\ U[m] = EffectRecord(j[i].seq, j[i].value)
      /\ \A l, m \in DOMAIN U : l < m => U[l].operation < U[m].operation
      /\ InStep(j) => U # <<>> /\ U[Len(U)].operation = EndState(j).seq
      /\ \A i, m \in DOMAIN j :
           j[i].kind = "StepScheduled" /\ j[m].kind = "StepScheduled" /\ j[i].seq = j[m].seq
             => i = m
  BY DEF StepsInOrder
<1> HIDE DEF k, U, V, n
<1>2. CASE ev.kind # "StepScheduled"
  <2>1. V = U
    BY <1>0, <1>2
  <2>2. InStep(k) => U # <<>> /\ U[Len(U)].operation = EndState(k).seq
    <3> SUFFICES ASSUME InStep(k) PROVE U # <<>> /\ U[Len(U)].operation = EndState(k).seq
      OBVIOUS
    <3>1. ev.kind = "StepStarted"
      BY <1>0, <1>2, StateTells DEF InStep, StepPhases
    <3>2. j # <<>> /\ EndState(j).phase \in StepPhases /\ EndState(k).seq = EndState(j).seq
      BY <1>0, <3>1, AdmittedAfter, StateTells, KindSets DEF StepPhases
    <3> QED BY <1>1, <3>2 DEF InStep
  <2>3. \A m \in DOMAIN U : \E i \in DOMAIN k :
          k[i].kind = "StepScheduled" /\ U[m] = EffectRecord(k[i].seq, k[i].value)
    BY <1>0, <1>1
  <2>4. \A i, m \in DOMAIN k :
          k[i].kind = "StepScheduled" /\ k[m].kind = "StepScheduled" /\ k[i].seq = k[m].seq
            => i = m
    BY <1>0, <1>1, <1>2
  <2> QED BY <1>1, <2>1, <2>2, <2>3, <2>4 DEF StepsInOrder, V, k
<1>3. CASE ev.kind = "StepScheduled"
  <2> DEFINE x == EffectRecord(ev.seq, ev.value)
  <2>1. /\ j # <<>> /\ EndState(j).phase = "Ready" /\ ev.seq = EndState(j).seq
        /\ EndState(k).seq = ev.seq /\ x.operation = ev.seq
        /\ x \in [operation : Seqs, step : StepNames, payload : {NoValue}]
    BY <1>0, <1>3, AdmittedAfter, StateTells, StepRecord, KindSets DEF EffectRecord
  <2>2. \A i \in DOMAIN j : j[i].kind = "StepScheduled" => j[i].seq < ev.seq
    <3>1. Continues(j)
      BY <2>1, JournalEnd
    <3> QED BY <2>1, <3>1 DEF RecordOK, OpenedOnce, OpeningKinds, OpenPhases
  <2>3. \A m \in DOMAIN U : U[m].operation < ev.seq
    BY <1>1, <2>2 DEF EffectRecord
  <2> HIDE DEF x
  <2>4. /\ V \in Seq([operation : Seqs, step : StepNames, payload : {NoValue}])
        /\ V # <<>> /\ Len(V) = Len(U) + 1 /\ V[Len(U) + 1] = x
        /\ DOMAIN V = DOMAIN U \cup {Len(U) + 1} /\ DOMAIN U = 1 .. Len(U) /\ Len(U) \in Nat
        /\ \A m \in DOMAIN U : V[m] = U[m]
    BY <1>0, <1>1, <1>3, <2>1, AppendProperties DEF x
  <2>5. \A m \in DOMAIN V : \E i \in DOMAIN k :
          k[i].kind = "StepScheduled" /\ V[m] = EffectRecord(k[i].seq, k[i].value)
    <3>1. ASSUME NEW m \in DOMAIN U
          PROVE  \E i \in DOMAIN k :
                   k[i].kind = "StepScheduled" /\ V[m] = EffectRecord(k[i].seq, k[i].value)
      BY <1>0, <1>1, <2>4
    <3>2. n \in DOMAIN k /\ k[n].kind = "StepScheduled"
          /\ V[Len(U) + 1] = EffectRecord(k[n].seq, k[n].value)
      BY <1>0, <1>3, <2>4 DEF x
    <3> QED BY <2>4, <3>1, <3>2
  <2>6. \A l, m \in DOMAIN V : l < m => V[l].operation < V[m].operation
    BY <1>1, <2>1, <2>3, <2>4
  <2>7. InStep(k) => V # <<>> /\ V[Len(V)].operation = EndState(k).seq
    BY <2>1, <2>4
  <2>8. \A i, m \in DOMAIN k :
          k[i].kind = "StepScheduled" /\ k[m].kind = "StepScheduled" /\ k[i].seq = k[m].seq
            => i = m
    <3>1. ev.seq \in Nat /\ \A i \in DOMAIN j : j[i].kind = "StepScheduled" => j[i].seq # ev.seq
      <4>1. ev.seq \in Nat
        BY EventFields, SeqAssumption DEF Seqs
      <4> QED BY <2>2, <4>1
    <3> QED BY <1>0, <1>1, <3>1
  <2> QED BY <2>4, <2>5, <2>6, <2>7, <2>8 DEF StepsInOrder, V, k
<1> QED BY <1>2, <1>3

-----------------------------------------------------------------------------
(* The effects by rank.                                                    *)

\* Ranks count: none before the first effect, and never past their number.
LEMMA RankCounts ==
  ASSUME NEW performed \in Seq(Effects), NEW k \in 0 .. Len(performed)
  PROVE  /\ IsFiniteSet({performed[i].seq : i \in 1 .. k})
         /\ Rank(performed, k) \in Nat
         /\ Rank(performed, 0) = 0
<1> DEFINE at == {performed[i].seq : i \in 1 .. k}
<1>0. Len(performed) \in Nat /\ DOMAIN performed = 1 .. Len(performed)
  OBVIOUS
<1>1. at \subseteq {performed[i].seq : i \in DOMAIN performed}
  BY <1>0
<1>2. IsFiniteSet(at)
  <2> HIDE DEF at
  <2> QED BY <1>1, PositionsCounted, FS_Subset
<1>3. Cardinality(at) \in Nat
  BY <1>2, FS_CardinalityType
<1>4. {performed[i].seq : i \in 1 .. 0} = {}
  OBVIOUS
<1> QED BY <1>2, <1>3, <1>4, FS_EmptySet DEF Rank

\* The next effect has the next rank, unless its step ran before.
LEMMA RankSteps ==
  ASSUME NEW performed \in Seq(Effects), NEW k \in 0 .. Len(performed), k < Len(performed)
  PROVE  Rank(performed, k + 1) = Rank(performed, k)
           + IF \E i \in 1 .. k : performed[i].seq = performed[k + 1].seq THEN 0 ELSE 1
<1> DEFINE at == {performed[i].seq : i \in 1 .. k}
           next == {performed[i].seq : i \in 1 .. k + 1}
           q == performed[k + 1].seq
<1>1. next = at \cup {q}
  <2>1. 1 .. k + 1 = (1 .. k) \cup {k + 1}
    OBVIOUS
  <2> QED BY <2>1
<1>2. IsFiniteSet(at) /\ Cardinality(at) \in Nat
  BY RankCounts DEF Rank
<1>3. q \in at <=> \E i \in 1 .. k : performed[i].seq = q
  OBVIOUS
<1>4. Rank(performed, k + 1) = Cardinality(next) /\ Rank(performed, k) = Cardinality(at)
  BY DEF Rank
<1> HIDE DEF at, next, q
<1>5. Cardinality(at \cup {q}) = IF q \in at THEN Cardinality(at) ELSE Cardinality(at) + 1
  BY <1>2, FS_AddElement
<1>6. Rank(performed, k + 1) = Rank(performed, k) + IF q \in at THEN 0 ELSE 1
  BY <1>1, <1>2, <1>4, <1>5
<1> QED BY <1>3, <1>6 DEF q

\* An effect more changes no rank.
LEMMA RankStays ==
  ASSUME NEW performed \in Seq(Effects), NEW x \in Effects, NEW k \in 0 .. Len(performed)
  PROVE  Rank(Append(performed, x), k) = Rank(performed, k)
<1>1. \A i \in 1 .. k : Append(performed, x)[i] = performed[i]
  OBVIOUS
<1>2. {Append(performed, x)[i].seq : i \in 1 .. k} = {performed[i].seq : i \in 1 .. k}
  BY <1>1
<1> QED BY <1>2 DEF Rank

\* The body of the open step: the first time its rank is the last step's, and
\* so it is each time after.
LEMMA BodyByRank ==
  ASSUME NEW j \in Seq(Events), NEW performed \in Seq(Effects), NEW x \in Effects,
         StepsInOrder(j), EffectsByRank(j, performed),
         InStep(j), x.seq = EndState(j).seq,
         \A i \in DOMAIN j : j[i].kind = "StepScheduled" /\ j[i].seq = x.seq => j[i].value = x.step
  PROVE  EffectsByRank(j, Append(performed, x))
<1> DEFINE later == Append(performed, x)
           n == Len(performed)
           U == StepsOf(j)
<1>0. /\ later \in Seq(Effects) /\ n \in Nat /\ Len(later) = n + 1 /\ later[n + 1] = x
      /\ DOMAIN performed = 1 .. n /\ DOMAIN later = 1 .. n + 1
      /\ \A i \in 1 .. n : later[i] = performed[i]
  BY AppendProperties
<1>1. \A k \in 0 .. n : Rank(later, k) = Rank(performed, k) /\ Rank(performed, k) \in Nat
  BY RankStays, RankCounts
<1>2. Rank(later, n + 1) = Rank(performed, n) + IF Ran(performed, x.seq) THEN 0 ELSE 1
  <2>1. n \in 0 .. Len(later) /\ n < Len(later)
    BY <1>0
  <2>2. Rank(later, n + 1)
          = Rank(later, n) + IF \E i \in 1 .. n : later[i].seq = later[n + 1].seq THEN 0 ELSE 1
    BY <1>0, <2>1, RankSteps
  <2>3. (\E i \in 1 .. n : later[i].seq = later[n + 1].seq) <=> Ran(performed, x.seq)
    BY <1>0 DEF Ran
  <2>4. Rank(later, n) = Rank(performed, n)
    BY <1>0, <1>1
  <2> QED BY <2>2, <2>3, <2>4
<1>3. Len(U) = Rank(performed, n) + IF Ran(performed, x.seq) THEN 0 ELSE 1
  BY <1>0, <1>1 DEF EffectsByRank
<1>4. Rank(later, n + 1) = Len(U)
  BY <1>2, <1>3
<1>5. Len(U) \in DOMAIN U /\ U[Len(U)] = EffectRecord(x.seq, x.step)
  <2>1. U \in Seq([operation : Seqs, step : StepNames, payload : {NoValue}]) /\ U # <<>>
        /\ U[Len(U)].operation = x.seq
    BY DEF StepsInOrder
  <2>2. Len(U) \in DOMAIN U
    BY <2>1, EmptySeq
  <2>3. PICK i \in DOMAIN j :
          j[i].kind = "StepScheduled" /\ U[Len(U)] = EffectRecord(j[i].seq, j[i].value)
    BY <2>2 DEF StepsInOrder
  <2>4. j[i].seq = x.seq
    BY <2>1, <2>3 DEF EffectRecord
  <2> QED BY <2>2, <2>3, <2>4
<1>6. Ran(later, x.seq)
  BY <1>0 DEF Ran
<1> HIDE DEF later, U, n
<1>7. ASSUME NEW k \in DOMAIN later
      PROVE  Rank(later, k) \in DOMAIN U
             /\ U[Rank(later, k)] = EffectRecord(later[k].seq, later[k].step)
  <2>1. CASE k = n + 1
    BY <1>0, <1>4, <1>5, <2>1
  <2>2. CASE k \in 1 .. n
    <3>1. Rank(later, k) = Rank(performed, k) /\ later[k] = performed[k]
      BY <1>0, <1>1, <2>2
    <3> QED BY <1>0, <2>2, <3>1 DEF EffectsByRank, U
  <2> QED BY <1>0, <2>1, <2>2
<1> QED BY <1>0, <1>4, <1>6, <1>7 DEF EffectsByRank, U, later

\* What the journal's growth leaves: a step opens that has not run, and closes
\* once it has.
LEMMA JournalByRank ==
  ASSUME NEW j \in Seq(Events), NEW ev \in Events, NEW performed \in Seq(Effects),
         StepsInOrder(j), EffectsByRank(j, performed), EffectsBounded(j, performed),
         \/ j = <<>> /\ ev.kind = "ExecutionStarted"
         \/ j # <<>> /\ Admits(EndState(j), ev),
         ev.kind \in {"StepCompleted", "StepFailed"} => Ran(performed, ev.seq)
  PROVE  EffectsByRank(Append(j, ev), performed)
<1> DEFINE k == Append(j, ev)
           U == StepsOf(j)
           V == StepsOf(k)
           m == Rank(performed, Len(performed))
           Due(l) == InStep(l) /\ ~ Ran(performed, EndState(l).seq)
<1>0. /\ k # <<>> /\ EndState(k) = StateAfter(ev)
      /\ V = IF ev.kind = "StepScheduled" THEN Append(U, EffectRecord(ev.seq, ev.value)) ELSE U
      /\ U \in Seq([operation : Seqs, step : StepNames, payload : {NoValue}])
  BY AppendedAt, StepsGrow DEF RecordOnce, StepsInOrder
<1>1. /\ m \in Nat /\ Len(U) = m + IF Due(j) THEN 1 ELSE 0
      /\ \A i \in DOMAIN performed :
           /\ Rank(performed, i) \in DOMAIN U
           /\ U[Rank(performed, i)] = EffectRecord(performed[i].seq, performed[i].step)
  <2>1. Len(performed) \in 0 .. Len(performed)
    OBVIOUS
  <2> QED BY <2>1, RankCounts DEF EffectsByRank
<1>2. InStep(k) <=> ev.kind \in {"StepScheduled", "StepStarted"}
  BY <1>0, StateTells DEF InStep, StepPhases
<1> HIDE DEF k, U, V, m
<1>3. CASE ev.kind # "StepScheduled"
  <2>1. Due(k) <=> Due(j)
    <3>1. CASE ev.kind = "StepStarted"
      <4>1. /\ j # <<>> /\ EndState(j).phase \in StepPhases
            /\ EndState(k).seq = EndState(j).seq
        BY <1>0, <3>1, AdmittedAfter, StateTells, KindSets DEF StepPhases
      <4> QED BY <1>2, <3>1, <4>1 DEF InStep
    <3>2. CASE ev.kind \in {"StepCompleted", "StepFailed"}
      <4>1. j # <<>> /\ EndState(j).seq = ev.seq
        BY <3>2, AdmittedAfter, KindSets
      <4> QED BY <1>2, <3>2, <4>1
    <3>3. CASE ev.kind \notin {"StepStarted", "StepCompleted", "StepFailed"}
      <4>1. j # <<>> => EndState(j).phase \notin StepPhases
        BY <1>3, <3>3, AdmittedAfter, EventFields, KindSets DEF StepPhases
      <4> QED BY <1>2, <1>3, <3>3, <4>1 DEF InStep
    <3> QED BY <3>1, <3>2, <3>3
  <2>2. V = U
    BY <1>0, <1>3
  <2> HIDE DEF Due
  <2> QED BY <1>1, <2>1, <2>2 DEF EffectsByRank, U, V, k, m, Due
<1>4. CASE ev.kind = "StepScheduled"
  <2>1. /\ j # <<>> /\ EndState(j).phase = "Ready" /\ ev.seq = EndState(j).seq
        /\ EndState(k).seq = ev.seq /\ EndState(j).seq \in Nat
    BY <1>0, <1>4, AdmittedAfter, StateTells, KindSets, JournalEnd
  <2>2. ~ Due(j)
    BY <2>1 DEF InStep, StepPhases
  <2>3. Due(k)
    <3>1. Continues(j)
      BY <2>1, JournalEnd
    <3>2. \A i \in DOMAIN performed : performed[i].seq < EndState(j).seq
      BY <2>1, <3>1 DEF EffectsBounded
    <3>3. ~ Ran(performed, ev.seq)
      <4>1. ASSUME NEW i \in DOMAIN performed PROVE performed[i].seq # ev.seq
        BY <2>1, <3>2
      <4> QED BY <4>1 DEF Ran
    <3> QED BY <1>2, <1>4, <2>1, <3>3
  <2>4. /\ Len(V) = Len(U) + 1 /\ DOMAIN U \subseteq DOMAIN V
        /\ \A i \in DOMAIN U : V[i] = U[i]
    <3>1. EffectRecord(ev.seq, ev.value) \in
            [operation : Seqs, step : StepNames, payload : {NoValue}]
      BY <1>4, StepRecord
    <3> QED BY <1>0, <1>4, <3>1, AppendProperties
  <2> HIDE DEF Due
  <2> QED BY <1>1, <2>2, <2>3, <2>4 DEF EffectsByRank, U, V, k, m, Due
<1> QED BY <1>3, <1>4

-----------------------------------------------------------------------------
(* The name of the open step.                                              *)

\* A run outside a step need not know a name.
LEMMA OutsideSteps ==
  ASSUME NEW j, NEW s,
         \/ s.pc \in {"Idle", "Starting", "Recovering", "Workflow", "ReplayTimer",
                      "AfterStepCompleted", "AfterTimerScheduled", "AfterTimerFired"}
         \/ s.pc = "Appending" /\ s.pending.kind \notin {"StepScheduled", "StepStarted"}
  PROVE  StepKnown(j, s)
  BY DEF StepKnown, AtStep

\* A run that stays in its step keeps the name.
LEMMA NameKept ==
  ASSUME NEW j, NEW r, NEW s, StepKnown(j, r), AtStep(r), s.step = r.step, s.seq = r.seq,
         s.pc = "Appending" => s.pending.kind # "StepScheduled"
  PROVE  StepKnown(j, s)
  BY DEF StepKnown, Position

\* What the operators of a run make of its pc, its pending event and its step.
LEMMA RunShapes ==
  ASSUME NEW r \in Runs
  PROVE  /\ Back(r).pc = "Workflow"
         /\ \A x : Return(r, x).pc = "Workflow"
         /\ \A x : [Return(r, x) EXCEPT !.pos = @ + 1].pc = "Workflow"
         /\ \A x : Fault(r, x).pc = "Workflow"
         /\ \A x : Fault(Taken(r), x).pc = "Workflow"
         /\ \A x : [Return(Taken(r), x) EXCEPT !.pos = @ + 1].pc = "Workflow"
         /\ \A t \in {r, GoLive(r)} : \A ev :
              /\ Begin(t, ev).pc = "Appending" /\ Begin(t, ev).pending = ev
              /\ Begin(t, ev).step = r.step /\ Begin(t, ev).seq = r.seq
  BY DEF Runs, Back, Return, Fault, Begin, GoLive, Taken

\* Acquiring, entering and leaving are outside steps.
LEMMA EntryNames ==
  ASSUME IInv, NEW e \in Engines, Acquire(e) \/ Enter(e) \/ Leave(e)
  PROVE  \E s : /\ run' = [run EXCEPT ![e] = s]
                /\ run[e].pc # "Idle" \/ owner = NoOwner
                /\ StepKnown(journal', s)
<1> DEFINE Known(s) == StepKnown(journal', s)
<1>0. run[e] \in Runs
  BY DEF IInv, TypeOK
<1>i. Known(IdleRun)
  BY OutsideSteps DEF IdleRun
<1>1. ASSUME NEW d \in Definitions, NEW i \in Payloads, RunAcquire(e, d, i)
      PROVE  \E s : run' = [run EXCEPT ![e] = s] /\ owner = NoOwner /\ Known(s)
  <2> DEFINE s == [IdleRun EXCEPT !.pc = "Starting", !.definition = d, !.input = i]
  <2>1. s.pc = "Starting" BY DEF IdleRun
  <2> HIDE DEF s
  <2>2. Known(s) BY <2>1, OutsideSteps
  <2> QED BY <1>1, <2>2 DEF RunAcquire, Set, s
<1>2. ASSUME NEW d \in Definitions, RecoverAcquire(e, d)
      PROVE  \E s : run' = [run EXCEPT ![e] = s] /\ owner = NoOwner /\ Known(s)
  <2> DEFINE s == [IdleRun EXCEPT !.pc = "Recovering", !.definition = d]
  <2>1. s.pc = "Recovering" BY DEF IdleRun
  <2> HIDE DEF s
  <2>2. Known(s) BY <2>1, OutsideSteps
  <2> QED BY <1>2, <2>2 DEF RecoverAcquire, Set, s
<1>3. CASE StartExisting(e) \/ RecoverRejected(e) \/ RecoverTerminal(e) \/ FinishFaulted(e)
           \/ \E outcome \in Outcomes : FinishUnconsumed(e, outcome)
  <2>1. run' = [run EXCEPT ![e] = IdleRun] /\ run[e].pc # "Idle"
    BY <1>3 DEF StartExisting, RecoverRejected, RecoverTerminal, FinishFaulted,
       FinishUnconsumed, Returns, EndRun, Set
  <2> QED BY <1>i, <2>1
<1>4. CASE StartAbsent(e)
  <2> DEFINE ev == ExecutionStarted([definition |-> run[e].definition, input |-> run[e].input])
             s == Begin(run[e], ev)
  <2>1. ev.kind = "ExecutionStarted" BY DEF ExecutionStarted, Event
  <2> HIDE DEF ev
  <2>2. s.pc = "Appending" /\ s.pending = ev BY <1>0, RunShapes
  <2> HIDE DEF s
  <2>3. Known(s) BY <2>1, <2>2, OutsideSteps
  <2>4. run' = [run EXCEPT ![e] = s] /\ run[e].pc # "Idle"
    BY <1>4 DEF StartAbsent, Update, Set, s, ev
  <2> QED BY <2>3, <2>4
<1>5. CASE RecoverRunning(e)
  <2> DEFINE s == [run[e] EXCEPT !.pc = "Workflow",
                  !.input = journal[1].value.input,
                  !.history = journal, !.pos = 2,
                  !.mode = IF Len(journal) > 1 THEN "Replaying" ELSE "Live"]
  <2>1. s.pc = "Workflow" BY <1>0 DEF Runs
  <2> HIDE DEF s
  <2>2. Known(s) BY <2>1, OutsideSteps
  <2>3. run' = [run EXCEPT ![e] = s] /\ run[e].pc # "Idle"
    BY <1>5 DEF RecoverRunning, Update, Set, s
  <2> QED BY <2>2, <2>3
<1>6. ASSUME NEW outcome \in Outcomes, Finish(e, outcome)
      PROVE  \E s : run' = [run EXCEPT ![e] = s] /\ run[e].pc # "Idle" /\ Known(s)
  <2> DEFINE ev == IF outcome.kind = "Ok" THEN ExecutionCompleted(outcome.arg)
                                          ELSE ExecutionFailed(outcome.arg)
             s == Begin(run[e], ev)
  <2>1. ev.kind \in {"ExecutionCompleted", "ExecutionFailed"}
    BY DEF ExecutionCompleted, ExecutionFailed, Event
  <2> HIDE DEF ev
  <2>2. s.pc = "Appending" /\ s.pending = ev BY <1>0, RunShapes
  <2> HIDE DEF s
  <2>3. Known(s) BY <2>1, <2>2, OutsideSteps
  <2>4. run' = [run EXCEPT ![e] = s] /\ run[e].pc # "Idle"
    BY <1>6 DEF Finish, Returns, Update, Set, s, ev
  <2> QED BY <2>3, <2>4
<1> QED BY <1>1, <1>2, <1>3, <1>4, <1>5, <1>6 DEF Acquire, Enter, Leave

\* A command that opens or replays a step learns its name.
LEMMA CommandNames ==
  ASSUME IInv, RecordInv, TraceInv, NEW e \in Engines, Command(e)
  PROVE  \E s : /\ run' = [run EXCEPT ![e] = s] /\ run[e].pc # "Idle"
                /\ StepKnown(journal, s)
<1> DEFINE r == run[e]
           j == journal
           Known(s) == StepKnown(j, s)
<1>r. /\ r \in Runs /\ r.seq \in Seqs /\ RunAgrees(j, r) /\ j \in Seq(Events)
      /\ (j # <<>> => Legal(j)) /\ RecordOK(j) /\ StepsInOrder(j)
  BY DEF IInv, TypeOK, HistoryLegal, Runs, RecordInv, TraceInv
<1>w. r.pc = "Workflow" /\ Healthy(r) /\ r.pc # "Idle"
  BY DEF Command, SequenceExhausted, Diverges, ReplayReading, ReplayScheduled, BeginCommand,
         Takes, Issues
<1>j. j # <<>> /\ Legal(j) /\ CursorOK(j, r) /\ CursorState(j, r) = Ready(r.seq)
  BY <1>r, <1>w DEF RunAgrees, WorkflowOK
<1>1. ASSUME SequenceExhausted(e)
      PROVE  \E s : run' = [run EXCEPT ![e] = s] /\ Known(s)
  <2>1. Known(Fault(r, "Sequence")) BY <1>r, RunShapes, OutsideSteps
  <2> QED BY <1>1, <2>1 DEF SequenceExhausted, Update, Set
<1>2. ASSUME NEW cmd \in Commands, Diverges(e, cmd)
      PROVE  \E s : run' = [run EXCEPT ![e] = s] /\ Known(s)
  <2>1. Known(Fault(Taken(r), "Nondeterminism")) BY <1>r, RunShapes, OutsideSteps
  <2> QED BY <1>2, <2>1 DEF Diverges, Update, Set
<1>3. ASSUME NEW cmd \in Commands, ReplayReading(e, cmd)
      PROVE  \E s : run' = [run EXCEPT ![e] = s] /\ Known(s)
  <2> DEFINE s == [Return(Taken(r), ResultOf(NextRecorded(r))) EXCEPT !.pos = @ + 1]
  <2>1. s.pc = "Workflow" BY <1>r, RunShapes
  <2>2. run' = [run EXCEPT ![e] = s] BY <1>3 DEF ReplayReading, Update, Set
  <2> HIDE DEF s
  <2> QED BY <2>1, <2>2, OutsideSteps
<1>4. ASSUME NEW cmd \in Commands, ReplayScheduled(e, cmd)
      PROVE  \E s : run' = [run EXCEPT ![e] = s] /\ Known(s)
  <2> DEFINE t == Taken(r)
             s1 == [t EXCEPT !.pc = "ReplayStep", !.pos = @ + 1, !.step = cmd.arg, !.attempt = 1]
             s2 == [t EXCEPT !.pc = "ReplayTimer", !.pos = @ + 1]
             ev == NextRecorded(r)
  <2>1. /\ Takes(r, cmd) /\ Unread(r) /\ Matches(ev, cmd)
        /\ run' = [run EXCEPT ![e] = IF cmd.kind = "RunStep" THEN s1 ELSE s2]
    BY <1>4 DEF ReplayScheduled, Update, Set
  <2>2. t \in Runs /\ Position(t) = r.seq
    BY <1>r, <2>1, TakenRun DEF Takes
  <2>3. CASE cmd.kind # "RunStep"
    <3>1. s2.pc = "ReplayTimer"
      <4> HIDE DEF t
      <4> QED BY <2>2 DEF Runs
    <3> HIDE DEF s2
    <3>2. Known(s2) BY <3>1, OutsideSteps
    <3> QED BY <2>1, <2>3, <3>2
  <2>4. CASE cmd.kind = "RunStep"
    <3>1. s1.pc = "ReplayStep" /\ s1.step = cmd.arg /\ Position(s1) = r.seq
      <4> HIDE DEF t
      <4> QED BY <2>2 DEF Runs, Position
    <3> HIDE DEF s1
    <3>2. /\ r.pos \in DOMAIN j /\ ev = j[r.pos] /\ ev.seq = r.seq
          /\ ev.kind = "StepScheduled" /\ ev.value = cmd.arg
      <4>1. ev.kind = "StepScheduled" /\ ev.value = cmd.arg
        BY <2>1, <2>4, CommandFields DEF Matches
      <4>2. r.pos \in DOMAIN j /\ ev = j[r.pos] /\ ev.seq = r.seq
        BY <1>w, <2>1, ReplayFindsCommands
      <4> QED BY <4>1, <4>2
    <3>3. ASSUME NEW i \in DOMAIN j, j[i].kind = "StepScheduled", j[i].seq = r.seq
          PROVE  j[i].value = cmd.arg
      <4>1. i = r.pos
        BY <1>r, <3>2, <3>3 DEF StepsInOrder
      <4> QED BY <3>2, <4>1
    <3>4. Known(s1)
      BY <3>1, <3>3 DEF StepKnown
    <3> QED BY <2>1, <2>4, <3>4
  <2> QED BY <2>3, <2>4
<1>5. ASSUME NEW cmd \in Commands, BeginCommand(e, cmd)
      PROVE  \E s : run' = [run EXCEPT ![e] = s] /\ Known(s)
  <2> DEFINE t == GoLive(Taken(r))
             step == IF cmd.kind = "RunStep" THEN cmd.arg ELSE NoValue
  <2>1. Takes(r, cmd) /\ ~ Unread(r)
    BY <1>5 DEF BeginCommand
  <2>2. PICK ev \in FirstEvents(r.seq, cmd) : Update(e, [Begin(t, ev) EXCEPT !.step = step])
    BY <1>5 DEF BeginCommand
  <2> DEFINE s == [Begin(t, ev) EXCEPT !.step = step]
  <2>3. Taken(r) \in Runs /\ Position(Taken(r)) = r.seq
    BY <1>r, <2>1, TakenRun DEF Takes
  <2>4. s.pc = "Appending" /\ s.pending = ev /\ s.step = step /\ Position(s) = r.seq
    <3> HIDE DEF step
    <3> QED BY <2>3 DEF Begin, GoLive, Runs, Position
  <2>5. run' = [run EXCEPT ![e] = s]
    BY <2>2 DEF Update, Set
  <2> HIDE DEF s
  <2>6. ev.kind = RecordKind(cmd.kind) /\ ev.kind \in CommandRecordKinds /\ Matches(ev, cmd)
    BY <1>r, FirstEvent, FirstEventMatches
  <2>7. CASE cmd.kind # "RunStep"
    <3>1. ev.kind \notin {"StepScheduled", "StepStarted"}
      BY <2>6, <2>7, CommandFields, KindSets DEF CommandKinds
    <3> QED BY <2>4, <2>5, <3>1, OutsideSteps
  <2>8. CASE cmd.kind = "RunStep"
    <3>1. ev.value = cmd.arg
      BY <2>6, <2>8 DEF Matches
    <3>2. EndState(j) = Ready(r.seq)
      BY <1>r, <1>j, <2>1, ReadAll
    <3>3. EndState(j).seq = r.seq /\ EndState(j).phase = "Ready" /\ r.seq \in Nat
      BY <1>r, <3>2, SeqAssumption DEF Ready, HistoryState, Seqs
    <3>4. Continues(j)
      BY <1>r, <1>j, <3>3, JournalEnd
    <3>5. ASSUME NEW i \in DOMAIN j, j[i].kind = "StepScheduled" PROVE j[i].seq # r.seq
      BY <1>r, <3>3, <3>4, <3>5 DEF RecordOK, OpenedOnce, OpeningKinds, OpenPhases
    <3> QED BY <2>4, <2>5, <2>8, <3>1, <3>5 DEF StepKnown
  <2> QED BY <2>7, <2>8
<1> HIDE DEF Known
<1>6. \E s : run' = [run EXCEPT ![e] = s] /\ Known(s)
  BY <1>1, <1>2, <1>3, <1>4, <1>5 DEF Command
<1> QED BY <1>6, <1>w DEF Known

\* Inside a step the run keeps its name up to the outcome.
LEMMA ResolveNames ==
  ASSUME IInv, TraceInv, NEW e \in Engines, Resolve(e)
  PROVE  \E s : /\ run' = [run EXCEPT ![e] = s] /\ run[e].pc # "Idle"
                /\ StepKnown(journal, s)
<1> DEFINE r == run[e]
           j == journal
           Known(s) == StepKnown(j, s)
<1>r. r \in Runs /\ Known(r)
  BY DEF IInv, TypeOK, TraceInv
<1>w. r.pc # "Idle"
  BY DEF Resolve, ReplayAttempt, ReplayFollower, RerunStep, Rearm, StartFirstAttempt, RunBody, Wake,
     ReturnRecorded
<1>1. ASSUME ReplayAttempt(e)
      PROVE  \E s : run' = [run EXCEPT ![e] = s] /\ Known(s)
  <2> DEFINE s == [r EXCEPT !.pos = @ + 1, !.attempt = NextRecorded(r).attempt + 1]
  <2>1. s.pc = r.pc /\ s.step = r.step /\ s.seq = r.seq /\ r.pc = "ReplayStep"
    BY <1>1, <1>r DEF ReplayAttempt, Runs
  <2>2. run' = [run EXCEPT ![e] = s]
    BY <1>1 DEF ReplayAttempt, Update, Set
  <2> HIDE DEF s
  <2>3. Known(s)
    BY <1>r, <2>1, NameKept DEF AtStep
  <2> QED BY <2>2, <2>3
<1>2. ASSUME ReplayFollower(e) \/ ReturnRecorded(e)
      PROVE  \E s : run' = [run EXCEPT ![e] = s] /\ Known(s)
  <2>1. PICK s : run' = [run EXCEPT ![e] = s]
                 /\ \/ \E x : s = Return(r, x)
                    \/ \E x : s = [Return(r, x) EXCEPT !.pos = @ + 1]
                    \/ \E x : s = Fault(r, x)
    BY <1>2 DEF ReplayFollower, ReturnRecorded, Update, Set
  <2>2. s.pc = "Workflow"
    <3>1. r \in Runs /\ \A x : /\ Return(r, x).pc = "Workflow" /\ Fault(r, x).pc = "Workflow"
                             /\ [Return(r, x) EXCEPT !.pos = @ + 1].pc = "Workflow"
      BY <1>r, RunShapes
    <3> HIDE DEF r
    <3> QED BY <2>1, <3>1
  <2> QED BY <2>1, <2>2, OutsideSteps
<1>3. ASSUME RerunStep(e) \/ StartFirstAttempt(e)
      PROVE  \E s : run' = [run EXCEPT ![e] = s] /\ Known(s)
  <2>1. PICK s : run' = [run EXCEPT ![e] = s]
                 /\ \/ s = Fault(r, "Attempt")
                    \/ \E ev : ev.kind = "StepStarted" /\ s = Begin(GoLive(r), ev)
                    \/ \E ev : ev.kind = "StepStarted" /\ s = Begin([r EXCEPT !.attempt = 1], ev)
    <3>1. \A q, a : StepStarted(q, a).kind = "StepStarted"
      BY DEF StepStarted, Event
    <3> QED BY <1>3, <3>1 DEF RerunStep, StartFirstAttempt, Update, Set
  <2>2. AtStep(r)
    BY <1>3 DEF RerunStep, StartFirstAttempt, AtStep
  <2>3. CASE s = Fault(r, "Attempt")
    <3>1. s.pc = "Workflow"
      BY <1>r, <2>3, RunShapes
    <3> QED BY <2>1, <3>1, OutsideSteps
  <2>4. ASSUME NEW ev, ev.kind = "StepStarted",
               s = Begin(GoLive(r), ev) \/ s = Begin([r EXCEPT !.attempt = 1], ev)
        PROVE  Known(s)
    <3>1. s.pending = ev /\ s.step = r.step /\ s.seq = r.seq
      BY <1>r, <2>4 DEF Begin, GoLive, Runs
    <3> QED BY <1>r, <2>2, <2>4, <3>1, NameKept
  <2> QED BY <2>1, <2>3, <2>4
<1>4. ASSUME Rearm(e) \/ RunBody(e) \/ Wake(e)
      PROVE  \E s : run' = [run EXCEPT ![e] = s] /\ Known(s)
  <2>1. PICK s : run' = [run EXCEPT ![e] = s]
                 /\ \E ev : /\ ev.kind \in {"TimerFired", "StepCompleted", "StepFailed"}
                           /\ (s = Begin(GoLive(r), ev) \/ s = Begin(r, ev))
    <3>1. /\ \A q : TimerFired(q).kind = "TimerFired"
          /\ \A q, v : StepCompleted(q, v).kind = "StepCompleted"
          /\ \A q, a, x : StepFailed(q, a, x).kind = "StepFailed"
      BY DEF TimerFired, StepCompleted, StepFailed, Event
    <3>2. ASSUME RunBody(e)
          PROVE  \E ev : ev.kind \in {"StepCompleted", "StepFailed"}
                         /\ run' = [run EXCEPT ![e] = Begin(r, ev)]
      <4> DEFINE Outcome(x) == run' = [run EXCEPT ![e] = Begin(r, x)]
      <4>1. PICK ev \in {StepCompleted(Position(r), v) : v \in Payloads}
                     \cup {StepFailed(Position(r), r.attempt, x) : x \in StepErrors} :
              Outcome(ev)
        BY <3>2 DEF RunBody, Set
      <4>2. ev.kind \in {"StepCompleted", "StepFailed"}
        BY <3>1, <4>1
      <4> HIDE DEF Outcome
      <4>3. \E x : x.kind \in {"StepCompleted", "StepFailed"} /\ Outcome(x)
        BY <4>1, <4>2
      <4> QED BY <4>3 DEF Outcome
    <3>3. ASSUME Rearm(e) PROVE run' = [run EXCEPT ![e] = Begin(GoLive(r), TimerFired(Position(r)))]
      BY <3>3 DEF Rearm, Update, Set
    <3>4. ASSUME Wake(e) PROVE run' = [run EXCEPT ![e] = Begin(r, TimerFired(Position(r)))]
      BY <3>4 DEF Wake, Update, Set
    <3> QED BY <1>4, <3>1, <3>2, <3>3, <3>4
  <2>2. s.pc = "Appending" /\ s.pending.kind \notin {"StepScheduled", "StepStarted"}
    <3>1. \A ev : /\ Begin(r, ev).pc = "Appending" /\ Begin(r, ev).pending = ev
                  /\ Begin(GoLive(r), ev).pc = "Appending" /\ Begin(GoLive(r), ev).pending = ev
      BY <1>r, RunShapes
    <3> HIDE DEF r
    <3> QED BY <2>1, <3>1
  <2> QED BY <2>1, <2>2, OutsideSteps
<1> HIDE DEF Known
<1>5. \E s : run' = [run EXCEPT ![e] = s] /\ Known(s)
  BY <1>1, <1>2, <1>3, <1>4 DEF Resolve
<1> QED BY <1>5, <1>w DEF Known

\* The record of a step carries the name its run knows it by.
LEMMA AppendNames ==
  ASSUME IInv, TraceInv, NEW e \in Engines, AppendEvent(e)
  PROVE  \E s : /\ run' = [run EXCEPT ![e] = s] /\ run[e].pc # "Idle"
                /\ StepKnown(journal', s)
<1> DEFINE r == run[e]
           j == journal
           Known(s) == StepKnown(journal', s)
<1>r. r \in Runs /\ StepKnown(j, r) /\ j \in Seq(Events) /\ AppendingOK(j, r)
  BY DEF IInv, TypeOK, TraceInv, RunAgrees
<1>w. r.pc = "Appending" /\ journal' = Append(j, r.pending) /\ r.pending \in Events
  BY <1>r DEF AppendEvent, AppendThenCheckpoint, AppendThenReturn, AppendStart, AppendTerminal,
     AppendingOK
<1>1. ASSUME AppendThenCheckpoint(e)
      PROVE  \E s : run' = [run EXCEPT ![e] = s] /\ Known(s)
  <2> DEFINE s == [r EXCEPT !.pc = CheckpointAfter[r.pending.kind]]
  <2>1. /\ s.pc = CheckpointAfter[r.pending.kind] /\ s.step = r.step /\ Position(s) = Position(r)
        /\ r.pending.kind \in DOMAIN CheckpointAfter
    BY <1>1, <1>r DEF AppendThenCheckpoint, Runs, Position
  <2>2. run' = [run EXCEPT ![e] = s]
    BY <1>1 DEF AppendThenCheckpoint, Set
  <2> HIDE DEF s
  <2>3. CASE r.pending.kind \in {"StepCompleted", "TimerScheduled", "TimerFired"}
    <3>1. s.pc \in {"AfterStepCompleted", "AfterTimerScheduled", "AfterTimerFired"}
      BY <2>1, <2>3, Checkpoints
    <3> QED BY <2>2, <3>1, OutsideSteps
  <2>4. CASE r.pending.kind \in {"StepScheduled", "StepStarted"}
    <3>1. s.pc \in {"AfterStepScheduled", "AfterStepStarted"}
      BY <2>1, <2>4, Checkpoints
    <3>2. AtStep(r)
      BY <1>w, <2>4 DEF AtStep
    <3>3. ASSUME NEW i \in DOMAIN journal', journal'[i].kind = "StepScheduled",
                 journal'[i].seq = Position(s)
          PROVE  journal'[i].value = s.step
      <4>1. CASE i \in DOMAIN j
        BY <1>r, <1>w, <2>1, <3>2, <3>3, <4>1, AppendedAt DEF StepKnown
      <4>2. CASE i = Len(j) + 1
        BY <1>r, <1>w, <2>1, <3>2, <3>3, <4>2, AppendedAt DEF StepKnown
      <4> QED BY <1>r, <1>w, <4>1, <4>2, AppendedAt
    <3> QED BY <2>2, <3>1, <3>3 DEF StepKnown
  <2> QED BY <2>1, <2>3, <2>4, Checkpoints
<1>2. ASSUME AppendThenReturn(e) \/ AppendStart(e)
      PROVE  \E s : run' = [run EXCEPT ![e] = s] /\ Known(s)
  <2>1. PICK s : run' = [run EXCEPT ![e] = s] /\ (s = Back(r) \/ \E x : s = Return(r, x))
    BY <1>2 DEF AppendThenReturn, AppendStart, Set
  <2>2. s.pc = "Workflow"
    BY <1>r, <2>1, RunShapes
  <2> QED BY <2>1, <2>2, OutsideSteps
<1>3. ASSUME AppendTerminal(e)
      PROVE  \E s : run' = [run EXCEPT ![e] = s] /\ Known(s)
  <2>1. IdleRun.pc = "Idle" BY DEF IdleRun
  <2>2. Known(IdleRun) BY <2>1, OutsideSteps
  <2> QED BY <1>3, <2>2 DEF AppendTerminal, EndRun, Set
<1> HIDE DEF Known
<1>4. \E s : run' = [run EXCEPT ![e] = s] /\ Known(s)
  BY <1>1, <1>2, <1>3 DEF AppendEvent
<1> QED BY <1>4, <1>w DEF Known

\* An interruption leaves no run inside a step.
LEMMA InterruptionNames ==
  ASSUME IInv, NEW e \in Engines, Interruption(e)
  PROVE  \E s : /\ run' = [run EXCEPT ![e] = s] /\ run[e].pc # "Idle"
                /\ StepKnown(journal', s)
<1>r. run[e] \in Runs
  BY DEF IInv, TypeOK
<1>w. run[e].pc # "Idle"
  BY DEF Interruption, Kill, InjectCrash, CommandAppendFails, LifecycleAppendFails,
     LoadFails, CrashPointOf, CheckpointAfter
<1>1. PICK s : run' = [run EXCEPT ![e] = s] /\ (s = IdleRun \/ \E x : s = Fault(run[e], x))
  BY DEF Interruption, Kill, InjectCrash, CommandAppendFails, LifecycleAppendFails,
     LoadFails, EndRun, Set
<1>2. s.pc \in {"Idle", "Workflow"}
  BY <1>r, <1>1, RunShapes DEF IdleRun
<1> QED BY <1>1, <1>2, <1>w, OutsideSteps

\* Whatever step is taken, a run inside a step knows the name on record.
LEMMA NamesKept ==
  ASSUME IInv, RecordInv, TraceInv, [Next]_vars
  PROVE  \A f \in Engines : StepKnown(journal', run'[f])
<1> DEFINE Moves(e, s) ==
      /\ run' = [run EXCEPT ![e] = s]
      /\ run[e].pc # "Idle" \/ owner = NoOwner
      /\ StepKnown(journal', s)
<1>1. CASE UNCHANGED vars
  BY <1>1 DEF vars, TraceInv
<1>2. ASSUME NEW e \in Engines, Command(e) \/ Resolve(e) PROVE journal' = journal
  BY <1>2 DEF Command, SequenceExhausted, Diverges, ReplayReading, ReplayScheduled, BeginCommand,
     Resolve, ReplayAttempt, ReplayFollower, RerunStep, Rearm, StartFirstAttempt, RunBody,
     Wake, ReturnRecorded, Update
<1>3. ASSUME NEW e \in Engines, Acquire(e) \/ Proceed(e) \/ Interruption(e)
      PROVE  \E s : Moves(e, s)
  <2>1. CASE Command(e) BY <1>2, <2>1, CommandNames
  <2>2. CASE Resolve(e) BY <1>2, <2>2, ResolveNames
  <2>3. CASE Acquire(e) \/ Enter(e) \/ Leave(e) BY <2>3, EntryNames
  <2>4. CASE AppendEvent(e) BY <2>4, AppendNames
  <2>5. CASE Interruption(e) BY <2>5, InterruptionNames
  <2> HIDE DEF Moves
  <2> QED BY <1>3, <2>1, <2>2, <2>3, <2>4, <2>5 DEF Proceed
<1>4. ASSUME NEW e \in Engines, NEW s, Moves(e, s)
      PROVE  \A f \in Engines : StepKnown(journal', run'[f])
  <2>1. run'[e] = s /\ \A f \in Engines \ {e} : run'[f] = IdleRun
    BY <1>4, OthersStayIdle
  <2>2. StepKnown(journal', IdleRun)
    BY OutsideSteps DEF IdleRun
  <2> QED BY <1>4, <2>1, <2>2
<1> HIDE DEF Moves
<1> QED BY <1>1, <1>3, <1>4 DEF Next

-----------------------------------------------------------------------------
(* The invariant.                                                          *)

LEMMA InitTraces == Init => TraceInv
<1> SUFFICES ASSUME Init PROVE TraceInv
  OBVIOUS
<1>1. journal = <<>> /\ effects = <<>> /\ run = [e \in Engines |-> IdleRun]
  BY DEF Init
<1>2. Len(<<>>) = 0 /\ DOMAIN <<>> = {} /\ <<>> \in Seq(Effects)
  BY EmptySeq
<1>3. EffectsByRank(<<>>, <<>>)
  <2>1. Rank(<<>>, 0) = 0
    <3>1. 0 \in 0 .. Len(<<>>)
      BY <1>2
    <3> QED BY <1>2, <3>1, RankCounts
  <2> QED BY <1>2, <2>1, NoSteps DEF EffectsByRank, InStep
<1>4. \A e \in Engines : StepKnown(journal, run[e])
  BY <1>1, OutsideSteps DEF IdleRun
<1> QED BY <1>1, <1>3, <1>4, StepsOfEmpty DEF TraceInv

\* An outcome is recorded by the run whose body returned it.
LEMMA OutcomeRan ==
  ASSUME IInv, RecordInv, NEW e \in Engines, run[e].pc = "Appending",
         run[e].pending.kind \in {"StepCompleted", "StepFailed"}
  PROVE  Ran(effects, run[e].pending.seq)
<1>1. /\ effects \in Seq(Effects) /\ effects # <<>>
      /\ effects[Len(effects)].seq = run[e].pending.seq
  BY DEF IInv, TypeOK, RecordInv, RunSees, BodyOK, EffectAtRisk
<1> QED BY <1>1, LastEffect DEF Ran

LEMMA NextTraces == IInv /\ RecordInv /\ TraceInv /\ [Next]_vars => TraceInv'
<1> SUFFICES ASSUME IInv, RecordInv, TraceInv, [Next]_vars PROVE TraceInv'
  OBVIOUS
<1>0. journal \in Seq(Events) /\ effects \in Seq(Effects)
  BY DEF IInv, TypeOK
<1>1. \A f \in Engines : StepKnown(journal', run'[f])
  BY NamesKept
<1>2. CASE journal' # journal
  <2>1. PICK e \in Engines : AppendPending(e) /\ effects' = effects
    BY <1>2, OnlyAppendsWrite
  <2> DEFINE ev == run[e].pending
  <2>2. /\ run[e].pc = "Appending" /\ journal' = Append(journal, ev) /\ ev \in Events
        /\ \/ journal = <<>> /\ ev.kind = "ExecutionStarted"
           \/ journal # <<>> /\ Admits(EndState(journal), ev)
        /\ ev.kind \in {"StepCompleted", "StepFailed"} => Ran(effects, ev.seq)
    BY <2>1, PendingEvent, OutcomeRan DEF AppendPending
  <2>3. RecordOK(journal) /\ EffectsBounded(journal, effects)
        /\ StepsInOrder(journal) /\ EffectsByRank(journal, effects)
    BY DEF RecordInv, TraceInv
  <2> HIDE DEF ev
  <2>4. StepsInOrder(journal')
    BY <1>0, <2>2, <2>3, StepsStayInOrder
  <2>5. EffectsByRank(journal', effects')
    BY <1>0, <2>1, <2>2, <2>3, JournalByRank
  <2> QED BY <1>1, <2>4, <2>5 DEF TraceInv
<1>3. CASE journal' = journal /\ effects' # effects
  <2>1. PICK e \in Engines : RunBody(e)
    BY <1>3, OnlyBodiesRun
  <2> DEFINE r == run[e]
             q == Position(r)
  <2>2. /\ journal # <<>> /\ EndState(journal).phase = "Started" /\ EndState(journal).seq = q
        /\ \E ev \in Events : /\ ev.kind \in {"StepCompleted", "StepFailed"} /\ ev.seq = q
              /\ effects' = Append(effects, [seq |-> q, attempt |-> r.attempt,
                                             step |-> r.step, result |-> ResultOf(ev)])
    BY <2>1, BodyOfOpenStep
  <2>3. PICK x : /\ effects' = Append(effects, x) /\ x.seq = q /\ x.step = r.step
                 /\ x \in Effects
    <3>1. PICK ev \in Events : /\ ev.kind \in {"StepCompleted", "StepFailed"}
              /\ effects' = Append(effects, [seq |-> q, attempt |-> r.attempt,
                                             step |-> r.step, result |-> ResultOf(ev)])
      BY <2>2
    <3>2. ResultOf(ev) \in Results
      BY <3>1, EventFields, KindSets
    <3>3. r \in Runs /\ r.seq > 0 /\ r.attempt \in Attempts /\ r.step \in StepNames
      BY <2>1, CommandPcs DEF RunBody, IInv, TypeOK, RunAgrees, CheckpointOK
    <3>4. q \in Seqs
      BY <3>3, PositionInRange
    <3> DEFINE x == [seq |-> q, attempt |-> r.attempt, step |-> r.step, result |-> ResultOf(ev)]
    <3>5. x \in Effects /\ x.seq = q /\ x.step = r.step
      BY <3>2, <3>3, <3>4 DEF Effects
    <3> QED BY <3>1, <3>5
  <2>4. InStep(journal)
    BY <2>2 DEF InStep, StepPhases
  <2>5. \A i \in DOMAIN journal :
          journal[i].kind = "StepScheduled" /\ journal[i].seq = q => journal[i].value = r.step
    BY <2>1 DEF TraceInv, StepKnown, AtStep, RunBody
  <2> HIDE DEF q, r
  <2>6. EffectsByRank(journal, effects')
    BY <1>0, <2>2, <2>3, <2>4, <2>5, BodyByRank DEF TraceInv
  <2> QED BY <1>1, <1>3, <2>6 DEF TraceInv
<1>4. CASE journal' = journal /\ effects' = effects
  BY <1>1, <1>4 DEF TraceInv
<1> QED BY <1>2, <1>3, <1>4

\* In every execution the effects are those of the steps on record, by rank.
THEOREM TraceInvariance == Spec => []TraceInv
  BY InitTraces, NextTraces, RecordInvariance, Invariance, PTL DEF Spec

-----------------------------------------------------------------------------
(* Traces by rank.  U is an uninterrupted trace, O one of length n whose    *)
(* k-th record is that of rank R[k] in U; ranks start at none and grow by   *)
(* at most one.                                                             *)

Traces == Seq([operation : Seqs, step : StepNames, payload : {NoValue}])

Ranked(U, O, R, n) ==
  /\ n \in Nat /\ R \in [0 .. n -> Nat] /\ R[0] = 0
  /\ \A k \in 0 .. n : k < n => R[k + 1] = R[k] \/ R[k + 1] = R[k] + 1
  /\ U \in Traces /\ Len(U) = R[n]
  /\ O \in Traces /\ Len(O) = n
  /\ \A k \in 1 .. n : R[k] \in DOMAIN U /\ O[k] = U[R[k]]

\* The records behind their number never catch up.
LEMMA RanksLag ==
  ASSUME NEW U, NEW O, NEW R, NEW n, Ranked(U, O, R, n)
  PROVE  \A m \in 0 .. n : R[m] <= m /\ \A k \in 0 .. m : k - R[k] <= m - R[m]
<1> DEFINE Lags(m) == R[m] <= m /\ \A k \in 0 .. m : k - R[k] <= m - R[m]
           S == {m \in Nat : m <= n => Lags(m)}
<1>0. n \in Nat /\ R[0] = 0 /\ (\A k \in 0 .. n : R[k] \in Nat)
      /\ \A k \in 0 .. n : k < n => R[k + 1] = R[k] \/ R[k + 1] = R[k] + 1
  BY DEF Ranked
<1>1. 0 \in S
  BY <1>0
<1>2. ASSUME NEW m \in Nat, m \in S PROVE m + 1 \in S
  <2>1. SUFFICES ASSUME m + 1 <= n PROVE Lags(m + 1)
    OBVIOUS
  <2>2. Lags(m) /\ m \in 0 .. n /\ m + 1 \in 0 .. n
    BY <1>0, <1>2, <2>1
  <2>3. R[m] \in Nat /\ (R[m + 1] = R[m] \/ R[m + 1] = R[m] + 1)
    BY <1>0, <2>1, <2>2
  <2>4. ASSUME NEW k \in 0 .. m + 1 PROVE k - R[k] <= (m + 1) - R[m + 1]
    <3>1. CASE k = m + 1
      BY <1>0, <2>2, <2>3, <3>1
    <3>2. CASE k \in 0 .. m
      <4>1. R[k] \in Nat
        BY <1>0, <2>1, <3>2
      <4> QED BY <2>2, <2>3, <3>2, <4>1
    <3> QED BY <3>1, <3>2
  <2> QED BY <2>2, <2>3, <2>4
<1> HIDE DEF S
<1>3. Nat \subseteq S
  BY <1>1, <1>2, Record!NatSetInduction
<1> QED BY <1>0, <1>3 DEF S

\* As many records as ranks: nothing was repeated.
LEMMA NoneRepeated ==
  ASSUME NEW U, NEW O, NEW R, NEW n, Ranked(U, O, R, n), n = Len(U)
  PROVE  O = U
<1>0. n \in Nat /\ U \in Traces /\ O \in Traces /\ Len(O) = n /\ R[n] = n
      /\ (\A k \in 0 .. n : R[k] \in Nat)
      /\ \A k \in 1 .. n : O[k] = U[R[k]]
  BY DEF Ranked
<1>1. ASSUME NEW k \in 1 .. n PROVE O[k] = U[k]
  <2>1. R[k] <= k /\ k - R[k] <= n - R[n]
    BY <1>0, RanksLag
  <2>2. R[k] = k
    BY <1>0, <2>1
  <2> QED BY <1>0, <2>2
<1> QED BY <1>0, <1>1, SeqEqual DEF Traces

\* A trace with its i-th record repeated in place.
LEMMA RepeatedAt ==
  ASSUME NEW T, NEW U \in Seq(T), NEW i \in 1 .. Len(U)
  PROVE  LET V == E!Repeated(U, i)
         IN /\ V \in Seq(T) /\ Len(V) = Len(U) + 1
            /\ \A k \in 1 .. Len(U) + 1 : V[k] = U[IF k <= i THEN k ELSE k - 1]
<1> DEFINE l == Len(U)
           before == SubSeq(U, 1, i - 1)
           after == SubSeq(U, i, l)
           upTo == before \o <<U[i]>>
           V == upTo \o after
<1>0. l \in Nat /\ i \in Nat /\ i >= 1 /\ i <= l /\ \A k \in 1 .. l : U[k] \in T
  BY LenProperties, ElementOfSeq
<1> HIDE DEF l
<1>1. /\ before \in Seq(T) /\ Len(before) = i - 1
      /\ \A k \in 1 .. i - 1 : before[k] = U[k]
  <2>1. \A k \in 1 .. i - 1 : U[k] \in T
    BY <1>0
  <2>2. /\ before \in Seq(T)
        /\ Len(before) = IF 1 <= i - 1 THEN (i - 1) - 1 + 1 ELSE 0
        /\ \A k \in 1 .. (i - 1) - 1 + 1 : before[k] = U[1 + k - 1]
    BY <1>0, <2>1, SubSeqProperties
  <2> HIDE DEF before
  <2> QED BY <1>0, <2>2
<1>2. /\ after \in Seq(T) /\ Len(after) = l + 1 - i
      /\ \A k \in 1 .. l + 1 - i : after[k] = U[i + k - 1]
  <2>1. \A k \in i .. l : U[k] \in T
    BY <1>0
  <2>2. /\ after \in Seq(T)
        /\ Len(after) = IF i <= l THEN l - i + 1 ELSE 0
        /\ \A k \in 1 .. l - i + 1 : after[k] = U[i + k - 1]
    BY <1>0, <2>1, SubSeqProperties
  <2> HIDE DEF after
  <2> QED BY <1>0, <2>2
<1> HIDE DEF before, after
<1>3. /\ upTo \in Seq(T) /\ Len(upTo) = i
      /\ \A k \in 1 .. i : upTo[k] = U[k]
  <2>1. <<U[i]>> \in Seq(T) /\ Len(<<U[i]>>) = 1 /\ <<U[i]>>[1] = U[i]
    BY <1>0
  <2>2. /\ upTo \in Seq(T) /\ Len(upTo) = Len(before) + 1
        /\ \A k \in 1 .. Len(before) + 1 :
              upTo[k] = IF k <= Len(before) THEN before[k] ELSE <<U[i]>>[k - Len(before)]
    BY <1>1, <2>1, ConcatProperties
  <2> HIDE DEF upTo
  <2>3. ASSUME NEW k \in 1 .. i PROVE upTo[k] = U[k]
    <3>1. CASE k = i BY <1>0, <1>1, <2>1, <2>2, <3>1
    <3>2. CASE k # i BY <1>0, <1>1, <2>2, <3>2
    <3> QED BY <3>1, <3>2
  <2> QED BY <1>0, <1>1, <2>2, <2>3
<1> HIDE DEF upTo
<1>4. /\ V \in Seq(T) /\ Len(V) = Len(upTo) + Len(after)
      /\ \A k \in 1 .. Len(upTo) + Len(after) :
            V[k] = IF k <= Len(upTo) THEN upTo[k] ELSE after[k - Len(upTo)]
  BY <1>2, <1>3, ConcatProperties
<1> HIDE DEF V
<1>5. ASSUME NEW k \in 1 .. l + 1 PROVE V[k] = U[IF k <= i THEN k ELSE k - 1]
  <2>1. CASE k <= i
    BY <1>0, <1>2, <1>3, <1>4, <2>1
  <2>2. CASE ~ (k <= i)
    <3>1. k - i \in 1 .. l + 1 - i /\ i + (k - i) - 1 = k - 1
      BY <1>0, <2>2
    <3>2. V[k] = after[k - i]
      BY <1>0, <1>2, <1>3, <1>4, <2>2
    <3>3. after[k - i] = U[i + (k - i) - 1]
      BY <1>2, <3>1
    <3> QED BY <2>2, <3>1, <3>2, <3>3
  <2> QED BY <2>1, <2>2
<1>6. Len(V) = l + 1
  BY <1>0, <1>2, <1>3, <1>4
<1>7. E!Repeated(U, i) = V
  BY DEF E!Repeated, E!InsertAt, V, upTo, before, after, l
<1> QED BY <1>4, <1>5, <1>6, <1>7 DEF l

\* One record more than ranks: one was repeated on the spot.
LEMMA OneRepeated ==
  ASSUME NEW U, NEW O, NEW R, NEW n, Ranked(U, O, R, n), n = Len(U) + 1
  PROVE  \E i \in DOMAIN U : E!Repeated(U, i) = O
<1>0. /\ n \in Nat /\ U \in Traces /\ O \in Traces /\ Len(O) = n /\ R[n] = n - 1 /\ R[0] = 0
      /\ Len(U) = n - 1 /\ DOMAIN U = 1 .. n - 1 /\ n - 1 \in Nat
      /\ \A k \in 0 .. n : R[k] \in Nat
      /\ \A k \in 1 .. n : R[k] \in DOMAIN U /\ O[k] = U[R[k]]
  BY DEF Ranked, Traces
<1> DEFINE late == {k \in 0 .. n : R[k] # k}
<1>1. late \in SUBSET Nat /\ n \in late
  BY <1>0
<1>2. PICK m \in late : \A k \in late : m <= k
  <2> HIDE DEF late
  <2> QED BY <1>1, Record!HasLeast
<1>3. m \in 2 .. n
  <2>1. m # 0
    BY <1>0, <1>2
  <2>2. R[1] = 1
    <3>1. 1 \in 0 .. n /\ 1 \in 1 .. n
      BY <1>0
    <3>2. R[1] \in 1 .. n - 1 /\ R[1] <= 1
      BY <1>0, <3>1, RanksLag
    <3> QED BY <3>2
  <2> QED BY <1>0, <1>2, <2>1, <2>2
<1>4. ASSUME NEW k \in 1 .. m - 1 PROVE O[k] = U[k]
  <2>1. k \in 0 .. n /\ k \notin late /\ k \in 1 .. n
    BY <1>0, <1>2, <1>3
  <2> QED BY <1>0, <2>1
<1>5. ASSUME NEW k \in m .. n PROVE O[k] = U[k - 1]
  <2>1. R[m] <= m /\ R[m] # m /\ R[m] \in Nat
    BY <1>0, <1>2, <1>3, RanksLag
  <2>2. m - R[m] <= k - R[k] /\ k - R[k] <= n - R[n] /\ R[k] \in Nat
    <3>1. k \in 0 .. n /\ m \in 0 .. k /\ n \in 0 .. n
      BY <1>0, <1>3
    <3> QED BY <1>0, <3>1, RanksLag
  <2>3. R[k] = k - 1
    <3>1. m \in Nat /\ n \in Nat /\ k \in Nat /\ R[n] = n - 1
      BY <1>0, <1>3
    <3> QED BY <2>1, <2>2, <3>1
  <2>4. k \in 1 .. n
    BY <1>0, <1>3
  <2> QED BY <1>0, <2>3, <2>4
<1> HIDE DEF late
<1>6. m - 1 \in DOMAIN U /\ m - 1 \in 1 .. Len(U)
  BY <1>0, <1>3
<1> DEFINE T == [operation : Seqs, step : StepNames, payload : {NoValue}]
           V == E!Repeated(U, m - 1)
<1>7. /\ V \in Seq(T) /\ Len(V) = n
      /\ \A k \in 1 .. n : V[k] = U[IF k <= m - 1 THEN k ELSE k - 1]
  <2>1. U \in Seq(T) /\ Len(U) + 1 = n
    BY <1>0 DEF Traces
  <2> HIDE DEF T
  <2> QED BY <1>6, <2>1, RepeatedAt
<1> HIDE DEF V
<1>8. ASSUME NEW k \in 1 .. n PROVE V[k] = O[k]
  <2>1. CASE k \in 1 .. m - 1
    BY <1>4, <1>7, <2>1
  <2>2. CASE k \in m .. n
    <3>1. ~ (k <= m - 1)
      BY <1>3, <2>2
    <3> QED BY <1>5, <1>7, <2>2, <3>1
  <2> QED BY <1>3, <2>1, <2>2
<1>9. V = O
  <2>1. O \in Seq(T) /\ Len(O) = n
    BY <1>0 DEF Traces
  <2> HIDE DEF T
  <2> QED BY <1>7, <1>8, <2>1, SeqEqual
<1> QED BY <1>6, <1>9 DEF V

\* A record is found where it stands, if no other has its operation.
LEMMA PlaceOfRecord ==
  ASSUME NEW U, E!UniqueOperations(U), NEW i \in DOMAIN U
  PROVE  E!Place(U, U[i]) = i
<1> DEFINE known == {k \in DOMAIN U : U[k].operation = U[i].operation}
<1>1. known = {i}
  BY DEF E!UniqueOperations
<1>2. U[i] \in {U[k] : k \in known}
  BY <1>1
<1>3. E!Place(U, U[i]) = CHOOSE k \in known : TRUE
  BY <1>2 DEF E!Place
<1> HIDE DEF known
<1> QED BY <1>1, <1>3

\* The scan's two folds are the same operator.
LEMMA ScanFolds ==
  \A s : E!FoldLeft(E!Advance, 0, s) = Scan!FoldLeft(Turn, 0, s)
BY DEF E!FoldLeft, Scan!FoldLeft, E!MapThenFoldSet, Scan!MapThenFoldSet, E!Max, Scan!Max, Turn

LEMMA TurnOfRanks ==
  ASSUME NEW a \in Nat, NEW b \in Nat, b > 0, b = a \/ b = a + 1
  PROVE  Turn(a, b) = b
BY DEF Turn, E!Advance, E!NoMatch, E!Nowhere

\* The scan of a trace by rank counts the ranks, and so it ends with all of
\* the uninterrupted trace seen in order.
LEMMA RanksAreOrderedRetries ==
  ASSUME NEW U, NEW O, NEW R, NEW n, Ranked(U, O, R, n), E!UniqueOperations(U)
  PROVE  E!OrderedRetries(O, U)
<1> DEFINE First(k) == [i \in 1 .. k |-> R[i]]
           S == {k \in Nat : k <= n => Scan!FoldLeft(Turn, 0, First(k)) = R[k]}
<1>0. /\ n \in Nat /\ R[0] = 0 /\ U \in Traces /\ O \in Traces /\ Len(O) = n /\ Len(U) = R[n]
      /\ DOMAIN O = 1 .. n /\ \A k \in 0 .. n : R[k] \in Nat
      /\ \A k \in 0 .. n : k < n => R[k + 1] = R[k] \/ R[k + 1] = R[k] + 1
      /\ \A k \in 1 .. n : R[k] \in DOMAIN U /\ R[k] > 0 /\ O[k] = U[R[k]]
  BY DEF Ranked, Traces
<1>1. 0 \in S
  <2>1. DOMAIN First(0) = {}
    OBVIOUS
  <2> HIDE DEF First
  <2> QED BY <1>0, <2>1, Scan!FoldOfNone
<1>2. ASSUME NEW k \in Nat, k \in S PROVE k + 1 \in S
  <2>1. SUFFICES ASSUME k + 1 <= n PROVE Scan!FoldLeft(Turn, 0, First(k + 1)) = R[k + 1]
    OBVIOUS
  <2>2. /\ Scan!FoldLeft(Turn, 0, First(k)) = R[k]
        /\ R[k] \in Nat /\ R[k + 1] \in Nat /\ R[k + 1] > 0
        /\ R[k + 1] = R[k] \/ R[k + 1] = R[k] + 1
    <3>1. k \in 0 .. n /\ k < n /\ k + 1 \in 1 .. n /\ k + 1 \in 0 .. n
      BY <1>0, <2>1
    <3> QED BY <1>0, <1>2, <3>1
  <2>3. First(k) \in Seq(Nat) /\ First(k + 1) = Append(First(k), R[k + 1])
    <3>1. \A i \in 1 .. k : R[i] \in Nat
      BY <1>0, <2>1
    <3>2. First(k) \in [1 .. k -> Nat]
      BY <3>1
    <3>3. First(k) \in Seq(Nat) /\ Len(First(k)) = k
      BY <3>2
    <3>4. First(k + 1) \in Seq(Nat) /\ Len(First(k + 1)) = k + 1
      <4>1. \A i \in 1 .. k + 1 : R[i] \in Nat
        BY <1>0, <2>1
      <4>2. First(k + 1) \in [1 .. k + 1 -> Nat]
        BY <4>1
      <4> QED BY <4>2
    <3>5. \A i \in 1 .. k + 1 : First(k + 1)[i] = IF i <= k THEN First(k)[i] ELSE R[k + 1]
      OBVIOUS
    <3> HIDE DEF First
    <3>6. /\ Append(First(k), R[k + 1]) \in Seq(Nat) /\ Len(Append(First(k), R[k + 1])) = k + 1
          /\ Append(First(k), R[k + 1])[k + 1] = R[k + 1]
          /\ \A i \in 1 .. k : Append(First(k), R[k + 1])[i] = First(k)[i]
      BY <2>2, <3>3, AppendProperties
    <3>7. \A i \in 1 .. k + 1 : First(k + 1)[i] = Append(First(k), R[k + 1])[i]
      BY <3>5, <3>6
    <3> QED BY <3>3, <3>4, <3>6, <3>7, SeqEqual
  <2> HIDE DEF First
  <2>4. Scan!FoldLeft(Turn, 0, First(k + 1)) = Turn(R[k], R[k + 1])
    BY <2>2, <2>3, Scan!FoldOfAppend
  <2>5. Turn(R[k], R[k + 1]) = R[k + 1]
    BY <2>2, TurnOfRanks
  <2> QED BY <2>4, <2>5
<1>3. E!Places(O, U) = First(n)
  <2>1. ASSUME NEW k \in 1 .. n PROVE E!Place(U, O[k]) = R[k]
    BY <1>0, PlaceOfRecord
  <2> QED BY <1>0, <2>1 DEF E!Places
<1> HIDE DEF S, First
<1>4. Nat \subseteq S
  BY <1>1, <1>2, Record!NatSetInduction
<1>5. Scan!FoldLeft(Turn, 0, First(n)) = R[n]
  BY <1>0, <1>4 DEF S
<1> QED BY <1>0, <1>3, <1>5, ScanFolds DEF E!OrderedRetries

-----------------------------------------------------------------------------
(* The theorems.                                                           *)

\* The effects of an execution that ended are a trace by rank.
LEMMA EndedRanked ==
  ASSUME IInv, TraceInv, Terminal(journal)
  PROVE  /\ Ranked(Uninterrupted, Observed, [k \in 0 .. Len(effects) |-> Rank(effects, k)],
                   Len(effects))
         /\ E!UniqueOperations(Uninterrupted)
<1> DEFINE U == Uninterrupted
           n == Len(effects)
           R == [k \in 0 .. n |-> Rank(effects, k)]
           T == [operation : Seqs, step : StepNames, payload : {NoValue}]
<1>0. journal \in Seq(Events) /\ effects \in Seq(Effects) /\ n \in Nat /\ DOMAIN effects = 1 .. n
  BY DEF IInv, TypeOK
<1>1. U \in Traces
  BY DEF TraceInv, StepsInOrder, Traces, Uninterrupted
<1>2. E!UniqueOperations(U)
  <2>1. \A k, m \in DOMAIN U : k < m => U[k].operation < U[m].operation
    BY DEF TraceInv, StepsInOrder, Uninterrupted
  <2>2. DOMAIN U = 1 .. Len(U) /\ Len(U) \in Nat /\ \A k \in DOMAIN U : U[k].operation \in Nat
    <3>1. \A k \in 1 .. Len(U) : U[k] \in T
      BY <1>1, ElementOfSeq DEF Traces
    <3> QED BY <1>1, <3>1, LenProperties, SeqAssumption DEF Traces, Seqs
  <2> HIDE DEF U
  <2>3. ASSUME NEW k \in DOMAIN U, NEW m \in DOMAIN U, U[k].operation = U[m].operation, k # m
        PROVE  FALSE
    <3>1. k < m \/ m < k
      BY <2>2, <2>3
    <3> QED BY <2>1, <2>2, <2>3, <3>1
  <2> QED BY <2>3 DEF E!UniqueOperations
<1>3. Len(U) = Rank(effects, n)
  <2>1. ~ InStep(journal)
    <3>1. journal # <<>> /\ ~ Continues(journal)
      BY DEF Terminal, Continues
    <3> QED BY <1>0, <3>1, JournalEnd DEF InStep, StepPhases, OpenPhases
  <2>2. n \in 0 .. n
    BY <1>0
  <2>3. Rank(effects, n) \in Nat
    BY <1>0, <2>2, RankCounts
  <2>4. Len(U) = Rank(effects, n)
                   + IF InStep(journal) /\ ~ Ran(effects, EndState(journal).seq) THEN 1 ELSE 0
    BY DEF TraceInv, EffectsByRank, Uninterrupted
  <2> QED BY <2>1, <2>3, <2>4
<1>4. /\ \A k \in 0 .. n : R[k] = Rank(effects, k) /\ Rank(effects, k) \in Nat
      /\ R[0] = 0
  <2>1. \A k \in 0 .. n : Rank(effects, k) \in Nat /\ Rank(effects, 0) = 0
    BY <1>0, RankCounts
  <2>2. 0 \in 0 .. n
    BY <1>0
  <2> QED BY <2>1, <2>2
<1>5. ASSUME NEW k \in 0 .. n, k < n PROVE R[k + 1] = R[k] \/ R[k + 1] = R[k] + 1
  <2>1. Rank(effects, k + 1) = Rank(effects, k) \/ Rank(effects, k + 1) = Rank(effects, k) + 1
    BY <1>0, <1>4, <1>5, RankSteps
  <2>2. k + 1 \in 0 .. n
    BY <1>0, <1>5
  <2> QED BY <1>4, <2>1, <2>2
<1>6. Observed \in Traces /\ Len(Observed) = n /\ DOMAIN Observed = 1 .. n
  <2>1. \A k \in 1 .. n : EffectRecord(effects[k].seq, effects[k].step) \in T
    <3>1. \A k \in 1 .. n : effects[k] \in Effects
      BY <1>0, ElementOfSeq
    <3> QED BY <3>1 DEF Effects, EffectRecord
  <2> HIDE DEF T
  <2>2. Observed \in [1 .. n -> T]
    BY <1>0, <2>1 DEF Observed
  <2>3. Observed \in Seq(T) /\ Len(Observed) = n /\ DOMAIN Observed = 1 .. n
    BY <1>0, <2>2
  <2> QED BY <2>3 DEF Traces, T
<1>7. ASSUME NEW k \in 1 .. n PROVE R[k] \in DOMAIN U /\ Observed[k] = U[R[k]]
  <2>1. Rank(effects, k) \in DOMAIN U
        /\ U[Rank(effects, k)] = EffectRecord(effects[k].seq, effects[k].step)
    BY <1>0 DEF TraceInv, EffectsByRank, Uninterrupted
  <2>2. R[k] = Rank(effects, k)
    BY <1>0
  <2>3. Observed[k] = EffectRecord(effects[k].seq, effects[k].step)
    BY <1>0 DEF Observed
  <2> QED BY <2>1, <2>2, <2>3
<1>8. n \in 0 .. n /\ R \in [0 .. n -> Nat]
  BY <1>0, <1>4
<1> HIDE DEF U, R, n
<1>9. Ranked(U, Observed, R, n)
  BY <1>0, <1>1, <1>3, <1>4, <1>5, <1>6, <1>7, <1>8 DEF Ranked
<1> QED BY <1>2, <1>9 DEF U, R, n

\* However an execution was interrupted, once it ended every step's body has
\* run, under one key, with first appearances in order (OrderedRetries,
\* src/equivalence.rs).
THEOREM EndsWithOrderedRetries == Spec => []FinishedWithOrderedRetries
<1>1. IInv /\ TraceInv => FinishedWithOrderedRetries
  BY EndedRanked, RanksAreOrderedRetries DEF FinishedWithOrderedRetries
<1> QED BY <1>1, TraceInvariance, Invariance, PTL

\* How many effects more than steps ran.
LEMMA EndedRepeats ==
  ASSUME IInv, TraceInv, Terminal(journal)
  PROVE  LET n == Len(effects)
             U == Uninterrupted
             R == [k \in 0 .. n |-> Rank(effects, k)]
         IN /\ Ranked(U, Observed, R, n) /\ n \in Nat
            /\ Len(U) = Cardinality({effects[k].seq : k \in DOMAIN effects}) /\ Len(U) \in Nat
            /\ Len(U) <= n /\ Len(Observed) = n
<1> DEFINE U == Uninterrupted
           n == Len(effects)
           R == [k \in 0 .. n |-> Rank(effects, k)]
<1>1. effects \in Seq(Effects) /\ n \in Nat /\ DOMAIN effects = 1 .. n
  BY DEF IInv, TypeOK
<1>2. Ranked(U, Observed, R, n)
  BY EndedRanked
<1>3. Rank(effects, n) = Cardinality({effects[k].seq : k \in DOMAIN effects})
  <2>1. {effects[k].seq : k \in DOMAIN effects} = {effects[k].seq : k \in 1 .. n}
    BY <1>1
  <2> QED BY <2>1 DEF Rank
<1>4. n \in 0 .. n /\ R[n] = Rank(effects, n)
  BY <1>1
<1>5. Rank(effects, n) \in Nat
  BY <1>1, <1>4, RankCounts
<1> HIDE DEF R, U, n
<1>6. R[n] <= n
  BY <1>2, <1>4, RanksLag
<1>7. Len(U) = R[n] /\ Len(Observed) = n
  BY <1>2 DEF Ranked
<1> QED BY <1>1, <1>2, <1>3, <1>4, <1>5, <1>6, <1>7 DEF R, U, n

LEMMA EndedWithNoRepeat ==
  ASSUME IInv, TraceInv, Terminal(journal),
         Len(effects) <= Cardinality({effects[k].seq : k \in DOMAIN effects})
  PROVE  Observed = Uninterrupted
<1> DEFINE n == Len(effects)
           R == [k \in 0 .. n |-> Rank(effects, k)]
<1>1. Ranked(Uninterrupted, Observed, R, n) /\ n = Len(Uninterrupted)
  BY EndedRepeats
<1> HIDE DEF R, n
<1> QED BY <1>1, NoneRepeated

LEMMA EndedWithOneRepeat ==
  ASSUME IInv, TraceInv, Terminal(journal),
         Len(effects) <= Cardinality({effects[k].seq : k \in DOMAIN effects}) + 1
  PROVE  E!SingleAdjacentDuplicate(Observed, Uninterrupted)
<1> DEFINE n == Len(effects)
           U == Uninterrupted
           R == [k \in 0 .. n |-> Rank(effects, k)]
<1>1. /\ Ranked(U, Observed, R, n) /\ Len(Observed) = n
      /\ n = Len(U) \/ n = Len(U) + 1
  BY EndedRepeats
<1> HIDE DEF R, U, n
<1>2. CASE n = Len(U)
  <2>1. Observed = U
    BY <1>1, <1>2, NoneRepeated
  <2> QED BY <2>1 DEF E!SingleAdjacentDuplicate, U
<1>3. CASE n = Len(U) + 1
  <2>1. \E i \in DOMAIN U : E!Repeated(U, i) = Observed
    BY <1>1, <1>3, OneRepeated
  <2> QED BY <1>1, <1>3, <2>1 DEF E!SingleAdjacentDuplicate, U
<1> QED BY <1>1, <1>2, <1>3

\* An execution that ended uninterrupted has the uninterrupted trace; one
\* interruption adds at most one effect, right after the one it repeats
\* (ExactTrace, SingleAdjacentDuplicate, tests/crash_recovery.rs).
THEOREM OneInterruptionCosts == Spec => []OneInterruptionOneDuplicate
<1> DEFINE ran == Cardinality({effects[k].seq : k \in DOMAIN effects})
<1>1. ASSUME IInv, RecordInv, TraceInv, Terminal(journal)
      PROVE  /\ interruptions = 0 => Observed = Uninterrupted
             /\ interruptions = 1 => E!SingleAdjacentDuplicate(Observed, Uninterrupted)
  <2>1. effects \in Seq(Effects) /\ Len(effects) \in Nat /\ interruptions \in Nat
    BY <1>1, InterruptionAssumption DEF IInv, TypeOK
  <2>2. ran \in Nat
    BY <2>1, PositionsCounted
  <2>3. Len(effects) + (IF Lost THEN 1 ELSE 0) <= ran + interruptions
    BY <1>1 DEF RecordInv, RepeatsArePaid
  <2> HIDE DEF ran
  <2>4. Len(effects) <= ran + interruptions
    BY <2>1, <2>2, <2>3
  <2>5. /\ interruptions = 0 => Len(effects) <= ran
        /\ interruptions = 1 => Len(effects) <= ran + 1
    BY <2>1, <2>2, <2>4
  <2> QED BY <1>1, <2>5, EndedWithNoRepeat, EndedWithOneRepeat DEF ran
<1>2. IInv /\ RecordInv /\ TraceInv => OneInterruptionOneDuplicate
  BY <1>1 DEF OneInterruptionOneDuplicate, E!ExactTrace
<1> QED BY <1>2, TraceInvariance, RecordInvariance, Invariance, PTL

-----------------------------------------------------------------------------
(* Demo: a process's run.                                                  *)

EngineInv == IInv /\ RecordInv /\ AttemptsArePaid

\* A process that is killed between run and recover_and_run has no run to lose.
LEMMA IdleKillKeeps ==
  ASSUME EngineInv, Interrupt, UNCHANGED <<journal, owner, run, effects, replies>>
  PROVE  EngineInv'
<1>1. /\ interruptions' = interruptions + 1 /\ interruptions \in Nat
      /\ interruptions' \in 0 .. MaxInterruptions
  BY InterruptionAssumption DEF EngineInv, IInv, TypeOK, Interrupt
<1>2. IInv'
  BY <1>1 DEF EngineInv, IInv, TypeOK, LeaseExclusive, HistoryLegal
<1>3. RepeatsArePaid'
  <2> DEFINE c == Cardinality({effects[k].seq : k \in DOMAIN effects})
             lost == IF Lost THEN 1 ELSE 0
  <2>1. Lost' = Lost
    BY DEF Lost
  <2>2. effects \in Seq(Effects) /\ Len(effects) \in Nat
    BY DEF EngineInv, IInv, TypeOK
  <2>3. c \in Nat
    BY <2>2, PositionsCounted
  <2>4. Len(effects) + lost <= c + interruptions
    BY DEF EngineInv, RecordInv, RepeatsArePaid
  <2>5. Len(effects) + lost <= c + interruptions' => RepeatsArePaid'
    BY <2>1 DEF RepeatsArePaid
  <2>6. lost \in Nat
    OBVIOUS
  <2> HIDE DEF c, lost
  <2> QED BY <1>1, <2>2, <2>3, <2>4, <2>5, <2>6
<1>4. RecordInv'
  BY <1>3 DEF EngineInv, RecordInv, EffectsFollowAttempts, OutcomeWasPerformed, RepliesAreDurable
<1>5. AttemptsArePaid'
  <2> DEFINE in == IF \E e \in Engines : InAttempt(run[e]) THEN 1 ELSE 0
             Open == journal # <<>> /\ EndState(journal).phase = "Started"
  <2>1. Open => EndState(journal).attempt <= interruptions + in
    BY DEF EngineInv, AttemptsArePaid
  <2>2. (Open => EndState(journal).attempt <= interruptions' + in) => AttemptsArePaid'
    BY DEF AttemptsArePaid
  <2>3. Open => EndState(journal).attempt \in Nat
    <3>1. ASSUME Open PROVE EndState(journal).attempt = journal[Len(journal)].attempt
                            /\ journal[Len(journal)] \in Events
      BY <3>1, JournalEnd, StateTells DEF EngineInv, IInv, TypeOK
    <3> QED BY <3>1, EventFields, AttemptAssumption
  <2>4. in \in Nat
    OBVIOUS
  <2> HIDE DEF in, Open
  <2> QED BY <1>1, <2>1, <2>2, <2>3, <2>4
<1> QED BY <1>2, <1>4, <1>5 DEF EngineInv

\* Every step of Engine keeps its invariants.
LEMMA EngineStepKeeps == EngineInv /\ [Next]_vars => EngineInv'
  BY NextPreserves, NextRecords, AttemptsKept DEF EngineInv

\* A process moves: its run, stage and exit change, and it may append what it was
\* about to.
Moves(e, s, t, x) ==
  /\ run' = [run EXCEPT ![e] = s]
  /\ stage' = [stage EXCEPT ![e] = t]
  /\ exit' = [exit EXCEPT ![e] = x]
  /\ binary' = binary
  /\ journal' = journal \/ AppendPending(e)

\* Where a process may move to.
LandsWell(e, s, t, x) ==
  /\ t \in {"NotRunning", "Run", "Recover"}
  /\ t = "NotRunning" => s.pc = "Idle"
  /\ t = "Recover" => journal' # <<>>
  /\ s.pc = "Recovering" => journal' # <<>> /\ s.definition = binary[e]
  /\ s.health \in {"Healthy", "Journal"}
  /\ s.pc = "Appending" => s.pending.kind # "ExecutionFailed"
  /\ x \in {"none", "owned", "success", "version", "journal", "killed"}

LEMMA MoveKeeps ==
  ASSUME EngineInv, DemoInv, NEW e \in Engines, NEW s, NEW t, NEW x,
         Moves(e, s, t, x), LandsWell(e, s, t, x)
  PROVE  DemoInv'
<1>1. journal \in Seq(Events) /\ run \in [Engines -> Runs]
  BY DEF EngineInv, IInv, TypeOK
<1>2. journal # <<>> => journal' # <<>>
  <2>1. ASSUME AppendPending(e) PROVE journal' # <<>>
    BY <2>1, AppendedJournal DEF EngineInv
  <2> QED BY <2>1 DEF Moves
<1>3. /\ run'[e] = s /\ stage'[e] = t /\ exit'[e] = x
      /\ \A f \in Engines \ {e} : run'[f] = run[f] /\ stage'[f] = stage[f] /\ exit'[f] = exit[f]
  BY <1>1 DEF Moves, DemoInv
<1>4. ASSUME NEW f \in Engines PROVE ProcessOK(f)'
  <2>1. CASE f = e
    BY <1>3, <2>1 DEF ProcessOK, LandsWell, Moves
  <2>2. CASE f # e
    BY <1>2, <1>3, <2>2 DEF ProcessOK, DemoInv, Moves
  <2> QED BY <2>1, <2>2
<1>5. ASSUME NEW i \in DOMAIN journal' PROVE journal'[i].kind # "ExecutionFailed"
  <2>1. CASE journal' = journal
    BY <2>1 DEF DemoInv
  <2>2. CASE AppendPending(e)
    <3> DEFINE ev == run[e].pending
    <3>1. ev \in Events /\ journal' = Append(journal, ev) /\ ev.kind # "ExecutionFailed"
      BY <2>2 DEF AppendPending, DemoInv, ProcessOK, EngineInv, IInv, RunAgrees, AppendingOK
    <3> QED BY <1>1, <3>1, AppendedAt DEF DemoInv
  <2> QED BY <2>1, <2>2 DEF Moves
<1>6. OnlyInterruptionsShow'
  BY <1>3 DEF OnlyInterruptionsShow, DemoInv, LandsWell
<1>7. /\ binary' \in [Engines -> Definitions]
      /\ stage' \in [Engines -> {"NotRunning", "Run", "Recover"}]
      /\ exit' \in [Engines -> {"none", "owned", "success", "failed", "version", "journal",
                               "killed", "error"}]
  BY DEF Moves, DemoInv, LandsWell
<1> QED BY <1>4, <1>5, <1>6, <1>7 DEF DemoInv

\* The steps of a call short of its return.
LEMMA CallKeeps ==
  ASSUME EngineInv, DemoInv, UNCHANGED main, NEW e \in Engines, run[e].pc # "Idle",
         NEW s, run' = [run EXCEPT ![e] = s], journal' = journal \/ AppendPending(e),
         s.pc # "Recovering", s.health \in {"Healthy", "Journal"},
         s.pc = "Appending" => s.pending.kind # "ExecutionFailed"
  PROVE  DemoInv'
<1> DEFINE t == stage[e]
           x == exit[e]
<1>1. Moves(e, s, t, x)
  BY DEF main, Moves, DemoInv
<1>2. journal # <<>> => journal' # <<>>
  <2>1. ASSUME AppendPending(e) PROVE journal' # <<>>
    BY <2>1, AppendedJournal DEF EngineInv
  <2> QED BY <2>1
<1>3. LandsWell(e, s, t, x)
  BY <1>2 DEF LandsWell, DemoInv, ProcessOK, OnlyInterruptionsShow
<1> QED BY <1>1, <1>3, MoveKeeps

\* Launching, finding the execution, trying again, and being refused.
LEMMA LaunchKeeps ==
  ASSUME EngineInv, DemoInv, NEW e \in Engines,
         \/ Launch(e) \/ LaunchRefused(e) \/ Retry(e) \/ RetryRefused(e) \/ RunFindsExisting(e)
  PROVE  DemoInv'
<1>0. IdleRun.pc = "Idle" /\ IdleRun.health = "Healthy" /\ IdleRun \in Runs
  BY IdleRunTyped DEF IdleRun
<1>1. run \in [Engines -> Runs] /\ stage[e] \in {"NotRunning", "Run", "Recover"}
      /\ exit[e] \in {"none", "owned", "success", "version", "journal", "killed"}
      /\ ProcessOK(e)
  BY DEF EngineInv, IInv, TypeOK, DemoInv, OnlyInterruptionsShow
<1>2. CASE Launch(e)
  <2>1. PICK i \in Payloads : RunAcquire(e, binary[e], i)
    BY <1>2 DEF Launch
  <2> DEFINE s == [IdleRun EXCEPT !.pc = "Starting", !.definition = binary[e], !.input = i]
  <2>2. s.pc = "Starting" /\ s.health = "Healthy"
    BY <1>0 DEF Runs
  <2>3. run' = [run EXCEPT ![e] = s] /\ journal' = journal
    BY <2>1 DEF RunAcquire, Set
  <2> HIDE DEF s
  <2>4. Moves(e, s, "Run", exit[e]) /\ LandsWell(e, s, "Run", exit[e])
    BY <1>1, <1>2, <2>2, <2>3 DEF Launch, At, Moves, LandsWell, DemoInv
  <2> QED BY <2>4, MoveKeeps
<1>3. CASE LaunchRefused(e) \/ RetryRefused(e)
  <2>1. run[e].pc = "Idle" /\ run' = [run EXCEPT ![e] = run[e]] /\ journal' = journal
    BY <1>1, <1>3 DEF LaunchRefused, RetryRefused, Idle, ProcessOK, vars
  <2>2. run[e].health \in {"Healthy", "Journal"}
    BY <1>1 DEF ProcessOK
  <2>3. Moves(e, run[e], "NotRunning", "owned") /\ LandsWell(e, run[e], "NotRunning", "owned")
    BY <1>3, <2>1, <2>2 DEF LaunchRefused, RetryRefused, Exit, Moves, LandsWell
  <2> QED BY <2>3, MoveKeeps
<1>4. CASE Retry(e)
  <2> DEFINE s == [IdleRun EXCEPT !.pc = "Recovering", !.definition = binary[e]]
  <2>1. s.pc = "Recovering" /\ s.health = "Healthy" /\ s.definition = binary[e]
    BY <1>0 DEF Runs
  <2>2. run' = [run EXCEPT ![e] = s] /\ journal' = journal
    BY <1>4 DEF Retry, RecoverAcquire, Set
  <2>3. stage[e] = "Recover" /\ journal # <<>> /\ UNCHANGED main
    BY <1>1, <1>4 DEF Retry, Idle, ProcessOK
  <2> HIDE DEF s
  <2>4. Moves(e, s, "Recover", exit[e]) /\ LandsWell(e, s, "Recover", exit[e])
    BY <1>1, <2>1, <2>2, <2>3 DEF main, Moves, LandsWell, DemoInv
  <2> QED BY <2>4, MoveKeeps
<1>5. CASE RunFindsExisting(e)
  <2>1. journal # <<>> /\ journal' = journal /\ run' = [run EXCEPT ![e] = IdleRun]
    BY <1>5 DEF RunFindsExisting, StartExisting, EndRun, Set
  <2>2. Moves(e, IdleRun, "Recover", exit[e]) /\ LandsWell(e, IdleRun, "Recover", exit[e])
    BY <1>0, <1>1, <1>5, <2>1 DEF RunFindsExisting, At, Moves, LandsWell, DemoInv
  <2> QED BY <2>2, MoveKeeps
<1> QED BY <1>2, <1>3, <1>4, <1>5

\* A call that returns an outcome returns the recorded success, and one that is
\* interrupted ends the process or leaves a journal fault.
LEMMA ExitKeeps ==
  ASSUME EngineInv, DemoInv, NEW e \in Engines,
         ReturnOutcome(e) \/ ReturnFault(e) \/ StoreFails(e) \/ KillProcess(e)
  PROVE  DemoInv'
<1>0. IdleRun.pc = "Idle" /\ IdleRun.health = "Healthy"
  BY DEF IdleRun
<1>1. /\ run \in [Engines -> Runs] /\ journal \in Seq(Events) /\ ProcessOK(e)
  BY DEF EngineInv, IInv, TypeOK, DemoInv
<1>2. ASSUME NEW x \in {"none", "owned", "success", "version", "journal", "killed"},
             run' = [run EXCEPT ![e] = IdleRun], Exit(e, x),
             journal' = journal \/ AppendPending(e)
      PROVE  DemoInv'
  <2>1. Moves(e, IdleRun, "NotRunning", x) /\ LandsWell(e, IdleRun, "NotRunning", x)
    BY <1>0, <1>2 DEF Exit, Moves, LandsWell
  <2> QED BY <2>1, MoveKeeps
<1>3. CASE ReturnOutcome(e)
  <2>1. run' = [run EXCEPT ![e] = IdleRun] /\ (journal' = journal \/ AppendPending(e))
    BY <1>3 DEF ReturnOutcome, AppendTerminal, RecoverTerminal, EndRun, Set, AppendPending
  <2>2. journal'[Len(journal')].kind = "ExecutionCompleted"
    <3>1. CASE AppendTerminal(e)
      <4> DEFINE ev == run[e].pending
      <4>1. ev \in Events /\ journal' = Append(journal, ev) /\ ev.kind = "ExecutionCompleted"
        BY <1>1, <3>1, KindSets
           DEF AppendTerminal, ProcessOK, EngineInv, IInv, RunAgrees, AppendingOK
      <4> QED BY <1>1, <4>1, AppendedAt
    <3>2. CASE RecoverTerminal(e)
      <4>1. journal # <<>> /\ journal[Len(journal)].kind \in TerminalKinds /\ journal' = journal
        BY <3>2 DEF RecoverTerminal, Terminal
      <4>2. Len(journal) \in DOMAIN journal
        BY <1>1, <4>1, JournalEnd
      <4> QED BY <4>1, <4>2, KindSets DEF DemoInv
    <3> QED BY <1>3, <3>1, <3>2 DEF ReturnOutcome
  <2>3. Exit(e, "success")
    BY <1>3, <2>2 DEF ReturnOutcome
  <2> QED BY <1>2, <2>1, <2>3
<1>4. CASE ReturnFault(e)
  <2>1. run[e].health = "Journal"
    BY <1>1, <1>4 DEF ReturnFault, FinishFaulted, ProcessOK, Healthy
  <2>2. Exit(e, "journal") /\ run' = [run EXCEPT ![e] = IdleRun] /\ journal' = journal
    BY <1>4, <2>1 DEF ReturnFault, FinishFaulted, EndRun, Set
  <2> QED BY <1>2, <2>2
<1>5. CASE StoreFails(e)
  <2>1. CASE CommandAppendFails(e) /\ UNCHANGED main
    <3> DEFINE s == Fault(run[e], "Journal")
    <3>1. run[e] \in Runs /\ s.pc = "Workflow" /\ s.health = "Journal"
      BY <1>1, FaultRun DEF Faults
    <3>2. run' = [run EXCEPT ![e] = s] /\ run[e].pc # "Idle"
          /\ (journal' = journal \/ AppendPending(e))
      BY <2>1 DEF CommandAppendFails, AppendUncertain, AppendPending, Set
    <3> HIDE DEF s
    <3> QED BY <2>1, <3>1, <3>2, CallKeeps
  <2>2. CASE (LifecycleAppendFails(e) \/ LoadFails(e)) /\ Exit(e, "journal")
    <3>1. run' = [run EXCEPT ![e] = IdleRun] /\ (journal' = journal \/ AppendPending(e))
      BY <2>2 DEF LifecycleAppendFails, LoadFails, AppendUncertain, AppendPending, EndRun, Set
    <3> QED BY <1>2, <2>2, <3>1
  <2> QED BY <1>5, <2>1, <2>2 DEF StoreFails
<1>6. CASE KillProcess(e)
  <2>1. CASE Kill(e) /\ Exit(e, "killed")
    <3>1. run' = [run EXCEPT ![e] = IdleRun] /\ journal' = journal
      BY <2>1 DEF Kill, EndRun, Set
    <3> QED BY <1>2, <2>1, <3>1
  <2>2. CASE Idle(e) /\ Exit(e, "killed") /\ UNCHANGED <<journal, run>>
    <3>1. run[e].pc = "Idle" /\ run' = [run EXCEPT ![e] = run[e]] /\ journal' = journal
      BY <1>1, <2>2 DEF Idle
    <3>2. run[e].health \in {"Healthy", "Journal"}
      BY <1>1 DEF ProcessOK
    <3>3. Moves(e, run[e], "NotRunning", "killed") /\ LandsWell(e, run[e], "NotRunning", "killed")
      BY <2>2, <3>1, <3>2 DEF Exit, Moves, LandsWell
    <3> QED BY <3>3, MoveKeeps
  <2> QED BY <1>6, <2>1, <2>2 DEF KillProcess
<1> QED BY <1>3, <1>4, <1>5, <1>6

\* The demo's code, asked by a healthy run, has one thing to do: a command while
\* there are positions left, or success.
LEMMA DemoAsked ==
  ASSUME DemoWorkflow, EngineInv, NEW e \in Engines, run[e].pc = "Workflow", Healthy(run[e]),
         NEW x \in Code(run[e].definition, run[e].input, run[e].obs)
  PROVE  /\ x \in Outcomes => x.kind = "Ok"
         /\ run[e].seq = MaxSeq => x \notin Commands
         /\ \A y \in Code(run[e].definition, run[e].input, run[e].obs) : x = y
<1> DEFINE r == run[e]
<1>1. /\ r.definition \in Definitions /\ r.input \in Payloads /\ r.seq \in Seqs
      /\ r.obs \in [1 .. r.seq -> Results]
  BY CodeAsked DEF EngineInv
<1> HIDE DEF r
<1>2. /\ x \in Outcomes => x.kind = "Ok"
      /\ r.seq = MaxSeq => x \notin Commands
  BY <1>1 DEF DemoWorkflow, r
<1>3. \A y \in Code(r.definition, r.input, r.obs) : x = y
  BY <1>1 DEF DemoWorkflow, DeterministicCode, r
<1> QED BY <1>2, <1>3 DEF r

\* An outcome is no command.
LEMMA OutcomeIsNoCommand ==
  ASSUME NEW x \in Outcomes
  PROVE  x \notin Commands
<1>1. x.kind \in {"Ok", "Err"}
  BY DEF Outcomes
<1> QED BY <1>1, CommandFields DEF CommandKinds

\* Recovery refuses a demo's execution only for its version: the journal is one the
\* engine wrote, of the one workflow there is, and has an attempt left.
LEMMA RefusedForVersion ==
  ASSUME DemoWorkflow, EngineInv, DemoInv, NEW e \in Engines, run[e].pc = "Recovering",
         RecoverError(run[e].definition) # "none"
  PROVE  RecoverError(binary[e]) = "VersionMismatch"
<1> DEFINE j == journal
           d == binary[e]
<1>1. j # <<>> /\ run[e].definition = d /\ d \in Definitions
  BY DEF DemoInv, ProcessOK
<1>2. j \in Seq(Events) /\ Legal(j)
  BY <1>1 DEF EngineInv, IInv, TypeOK, HistoryLegal
<1>3. j[1] \in Events /\ j[1].kind = "ExecutionStarted" /\ j[1].value.definition \in Definitions
  <2>1. j[1] \in Events /\ j[1].kind = "ExecutionStarted"
    BY <1>1, <1>2, EmptySeq, ElementOfSeq DEF Legal
  <2> QED BY <2>1, EventFields DEF Invocations
<1>4. ASSUME NEW i \in 2 .. Len(j) PROVE j[i].kind # "ExecutionStarted"
  <2>1. j[i] \in Events /\ Admits(StateAfter(j[i - 1]), j[i])
    BY <1>2, ElementOfSeq DEF Legal
  <2> QED BY <2>1, AdmittedAfter
<1>5. j[1].value.definition.workflow = d.workflow
  BY <1>1, <1>3 DEF DemoWorkflow, Definitions
<1>6. Parses(j)
  <2>1. ASSUME EndState(j).phase = "Started" PROVE EndState(j).attempt # MaxAttempt
    <3>1. \A f \in Engines : ~ InAttempt(run[f])
      <4>1. ~ InAttempt(run[e]) /\ ~ InAttempt(IdleRun)
        BY DEF InAttempt, EffectAtRisk, IdleRun
      <4> QED BY <4>1, OthersIdle DEF EngineInv
    <3>2. EndState(j).attempt <= interruptions
      <4>1. EndState(j).attempt <= interruptions + 0
        BY <1>1, <2>1, <3>1 DEF EngineInv, AttemptsArePaid
      <4>2. interruptions \in Nat
        BY InterruptionAssumption DEF EngineInv, IInv, TypeOK
      <4> QED BY <4>1, <4>2
    <3>3. interruptions \in 0 .. MaxInterruptions /\ MaxInterruptions < MaxAttempt
      BY DEF EngineInv, IInv, TypeOK, DemoWorkflow
    <3>4. EndState(j).attempt = j[Len(j)].attempt /\ j[Len(j)] \in Events
      BY <1>1, <1>2, <2>1, JournalEnd, StateTells
    <3>5. EndState(j).attempt \in Nat
      BY <3>4, EventFields, AttemptAssumption
    <3> QED BY <3>2, <3>3, <3>5, AttemptAssumption, InterruptionAssumption
  <2> QED BY <1>2, <2>1 DEF Parses, Resumable, NoNextAttempt
<1> HIDE DEF d
<1>7. RecoverError(d) \in {"none", "VersionMismatch"}
  BY <1>1, <1>3, <1>4, <1>5, <1>6 DEF RecoverError
<1>8. RecoverError(d) # "none"
  BY <1>1
<1> QED BY <1>7, <1>8 DEF d

\* No other engine error reaches main: the code asks again for every command on
\* record, so it never returns before it has read them all.
LEMMA ErrorKeeps ==
  ASSUME DemoWorkflow, EngineInv, DemoInv, NEW e \in Engines, ReturnError(e)
  PROVE  DemoInv'
<1>1. ASSUME NEW o \in Outcomes, FinishUnconsumed(e, o) PROVE FALSE
  <2>1. /\ run[e].pc = "Workflow" /\ Healthy(run[e]) /\ Unread(run[e])
        /\ o \in Code(run[e].definition, run[e].input, run[e].obs)
    BY <1>1 DEF FinishUnconsumed, Returns, ReplayComplete
  <2>2. PICK old \in Commands : old \in Code(run[e].definition, run[e].input, run[e].obs)
    BY <2>1, RecordAsksAgain DEF EngineInv
  <2>3. o = old
    BY <2>1, <2>2, DemoAsked
  <2> QED BY <2>2, <2>3, OutcomeIsNoCommand
<1>2. RecoverRejected(e)
  BY <1>1 DEF ReturnError
<1>3. run[e].pc = "Recovering" /\ RecoverError(binary[e]) = "VersionMismatch"
  BY <1>2, RefusedForVersion DEF RecoverRejected
<1>4. Exit(e, "version") /\ run' = [run EXCEPT ![e] = IdleRun] /\ journal' = journal
  BY <1>2, <1>3 DEF ReturnError, RecoverRejected, EndRun, Set
<1>5. Moves(e, IdleRun, "NotRunning", "version") /\ LandsWell(e, IdleRun, "NotRunning", "version")
  BY <1>4 DEF Exit, Moves, LandsWell, IdleRun
<1> QED BY <1>5, MoveKeeps

\* What the steps inside a call make of the run.
LEMMA InsideMoves ==
  ASSUME DemoWorkflow, EngineInv, DemoInv, NEW e \in Engines, Inside(e)
  PROVE  \E s : /\ run' = [run EXCEPT ![e] = s] /\ run[e].pc # "Idle"
                /\ journal' = journal \/ AppendPending(e)
                /\ s.pc # "Recovering" /\ s.health = run[e].health
                /\ s.pc = "Appending" => s.pending.kind # "ExecutionFailed"
<1> DEFINE r == run[e]
           Good(s) == /\ run' = [run EXCEPT ![e] = s]
                      /\ s.pc # "Recovering" /\ s.health = r.health
                      /\ s.pc = "Appending" => s.pending.kind # "ExecutionFailed"
<1>0. r \in Runs
  BY DEF EngineInv, IInv, TypeOK
<1>b. ASSUME NEW ev
      PROVE  Begin(r, ev).pc = "Appending" /\ Begin(r, ev).health = r.health
             /\ Begin(r, ev).pending = ev
  BY <1>0 DEF Begin, Runs
<1>c. ASSUME NEW x
      PROVE  Return(r, x).pc = "Workflow" /\ Return(r, x).health = r.health
  BY <1>0 DEF Return, Back, Runs
<1>t. ASSUME NEW cmd \in Commands, Takes(r, cmd)
      PROVE  Taken(r) \in Runs /\ Taken(r).health = r.health
  BY <1>0, <1>t, TakenRun DEF Takes
<1>1. CASE StartAbsent(e) \/ \E o \in Outcomes : Finish(e, o)
  <2>1. ASSUME StartAbsent(e) PROVE \E s : Good(s)
    <3> DEFINE ev == ExecutionStarted([definition |-> r.definition, input |-> r.input])
    <3>1. ev.kind = "ExecutionStarted"
      BY DEF ExecutionStarted, Event
    <3>2. run' = [run EXCEPT ![e] = Begin(r, ev)]
      BY <2>1 DEF StartAbsent, Update, Set
    <3> HIDE DEF ev
    <3> QED BY <1>b, <3>1, <3>2
  <2>2. ASSUME NEW o \in Outcomes, Finish(e, o) PROVE \E s : Good(s)
    <3>1. o.kind = "Ok"
      BY <2>2, DemoAsked DEF Finish, Returns
    <3>2. run' = [run EXCEPT ![e] = Begin(r, ExecutionCompleted(o.arg))]
      BY <2>2, <3>1 DEF Finish, Update, Set
    <3>3. ExecutionCompleted(o.arg).kind = "ExecutionCompleted"
      BY DEF ExecutionCompleted, Event
    <3> QED BY <1>b, <3>2, <3>3
  <2>3. journal' = journal /\ r.pc # "Idle"
    BY <1>1 DEF StartAbsent, Finish, Returns, Update
  <2> QED BY <1>1, <2>1, <2>2, <2>3
<1>2. CASE RecoverRunning(e)
  <2> DEFINE m == IF Len(journal) > 1 THEN "Replaying" ELSE "Live"
             s == [r EXCEPT !.pc = "Workflow", !.input = journal[1].value.input,
                            !.history = journal, !.pos = 2, !.mode = m]
  <2>1. s.pc = "Workflow" /\ s.health = r.health
    <3> HIDE DEF m
    <3> QED BY <1>0 DEF Runs
  <2>2. run' = [run EXCEPT ![e] = s] /\ journal' = journal /\ r.pc # "Idle"
    BY <1>2 DEF RecoverRunning, Update, Set
  <2> HIDE DEF s
  <2> QED BY <2>1, <2>2
<1>3. CASE Command(e)
  <2>0. journal' = journal /\ r.pc # "Idle"
    BY <1>3 DEF Command, SequenceExhausted, Diverges, ReplayReading, ReplayScheduled, BeginCommand,
       Takes, Issues, Update
  <2>1. ASSUME SequenceExhausted(e) PROVE FALSE
    BY <2>1, DemoAsked DEF SequenceExhausted, Issues
  <2>2. ASSUME NEW cmd \in Commands, Diverges(e, cmd) PROVE FALSE
    BY <2>2, CodeAgrees DEF EngineInv, DemoWorkflow
  <2>3. ASSUME NEW cmd \in Commands, ReplayReading(e, cmd) PROVE \E s : Good(s)
    <3> DEFINE t == Taken(r)
               u == Return(t, ResultOf(NextRecorded(r)))
               s == [u EXCEPT !.pos = @ + 1]
    <3>1. t \in Runs /\ t.health = r.health
      BY <1>t, <2>3 DEF ReplayReading
    <3>2. s.health = t.health /\ s.pc = "Workflow"
      <4> HIDE DEF t
      <4> QED BY <3>1 DEF Return, Back, Runs
    <3>3. run' = [run EXCEPT ![e] = s]
      BY <2>3 DEF ReplayReading, Update, Set
    <3> HIDE DEF s, t
    <3> QED BY <3>1, <3>2, <3>3
  <2>4. ASSUME NEW cmd \in Commands, ReplayScheduled(e, cmd) PROVE \E s : Good(s)
    <3> DEFINE t == Taken(r)
               s1 == [t EXCEPT !.pc = "ReplayStep", !.pos = @ + 1, !.step = cmd.arg, !.attempt = 1]
               s2 == [t EXCEPT !.pc = "ReplayTimer", !.pos = @ + 1]
               s == IF cmd.kind = "RunStep" THEN s1 ELSE s2
    <3>1. t \in Runs /\ t.health = r.health
      BY <1>t, <2>4 DEF ReplayScheduled
    <3>2. s.health = t.health /\ s.pc \in {"ReplayStep", "ReplayTimer"}
      <4> HIDE DEF t
      <4> QED BY <3>1 DEF Runs
    <3>3. run' = [run EXCEPT ![e] = s]
      BY <2>4 DEF ReplayScheduled, Update, Set
    <3> HIDE DEF s, t
    <3> QED BY <3>1, <3>2, <3>3
  <2>5. ASSUME NEW cmd \in Commands, BeginCommand(e, cmd) PROVE \E s : Good(s)
    <3> DEFINE t == Taken(r)
               step == IF cmd.kind = "RunStep" THEN cmd.arg ELSE NoValue
    <3>1. t \in Runs /\ t.health = r.health /\ r.seq \in Seqs
      BY <1>0, <1>t, <2>5 DEF BeginCommand, Runs
    <3>2. PICK ev \in FirstEvents(r.seq, cmd) :
            run' = [run EXCEPT ![e] = [Begin(GoLive(t), ev) EXCEPT !.step = step]]
      BY <2>5 DEF BeginCommand, Update, Set
    <3> DEFINE s == [Begin(GoLive(t), ev) EXCEPT !.step = step]
    <3>3. s.health = t.health /\ s.pending = ev
      <4> HIDE DEF t
      <4> QED BY <3>1 DEF GoLive, Begin, Runs
    <3>4. s.pc = "Appending"
      <4> HIDE DEF t
      <4> QED BY <3>1 DEF GoLive, Begin, Runs
    <3>5. ev.kind # "ExecutionFailed"
      BY <3>1, <3>2, FirstEvent, CommandFields DEF CommandKinds
    <3> HIDE DEF s, t
    <3> QED BY <3>1, <3>2, <3>3, <3>4, <3>5 DEF s, t
  <2> HIDE DEF Good
  <2>6. \E s : Good(s)
    BY <1>3, <2>1, <2>2, <2>3, <2>4, <2>5 DEF Command
  <2> QED BY <2>0, <2>6 DEF Good
<1>4. CASE Resolve(e)
  <2>0. journal' = journal /\ r.pc # "Idle"
    BY <1>4 DEF Resolve, ReplayAttempt, ReplayFollower, RerunStep, Rearm, StartFirstAttempt, RunBody,
       Wake, ReturnRecorded, Update
  <2>1. ASSUME ReplayAttempt(e) PROVE \E s : Good(s)
    <3> DEFINE a == NextRecorded(r).attempt + 1
               s == [r EXCEPT !.pos = @ + 1, !.attempt = a]
    <3>1. s.health = r.health /\ s.pc = "ReplayStep"
      <4> HIDE DEF a
      <4> QED BY <1>0, <2>1 DEF Runs, ReplayAttempt
    <3>2. run' = [run EXCEPT ![e] = s]
      BY <2>1 DEF ReplayAttempt, Update, Set
    <3> HIDE DEF s
    <3> QED BY <3>1, <3>2
  <2>2. ASSUME ReplayFollower(e) PROVE \E s : Good(s)
    <3> DEFINE ev == NextRecorded(r)
               u == Return(r, ResultOf(ev))
               s == [u EXCEPT !.pos = @ + 1]
    <3>1. \/ r.pc = "ReplayStep" /\ ev.kind \in {"StepCompleted", "StepFailed"}
          \/ r.pc = "ReplayTimer" /\ ev.kind = "TimerFired"
      BY <2>2, ReplayCovers DEF ReplayFollower, ReplayIsTotal, EngineInv
    <3>2. run' = [run EXCEPT ![e] = s]
      BY <2>2, <3>1 DEF ReplayFollower, Update, Set
    <3>3. s.health = r.health /\ s.pc = "Workflow"
      BY <1>0 DEF Return, Back, Runs
    <3> HIDE DEF s
    <3> QED BY <3>2, <3>3
  <2>3. ASSUME RerunStep(e) \/ Rearm(e) PROVE \E s : Good(s)
    <3>1. \/ run' = [run EXCEPT ![e] = Fault(r, "Attempt")]
          \/ \E ev : /\ run' = [run EXCEPT ![e] = Begin(GoLive(r), ev)]
                     /\ ev.kind \in {"StepStarted", "TimerFired"}
      BY <2>3 DEF RerunStep, Rearm, Update, Set, StepStarted, TimerFired, Event
    <3>2. run' # [run EXCEPT ![e] = Fault(r, "Attempt")]
      <4>1. Next
        BY <1>4, <2>0 DEF Next, Proceed
      <4>2. IInv' /\ run \in [Engines -> Runs]
        BY <4>1, NextPreserves DEF EngineInv, IInv, TypeOK
      <4>3. run'[e].health # "Attempt"
        BY <4>2 DEF IInv, RunAgrees, ResumeOK
      <4>4. Fault(r, "Attempt").health = "Attempt"
        BY <1>0, HealthKept
      <4> QED BY <4>2, <4>3, <4>4
    <3>3. ASSUME NEW ev
          PROVE  Begin(GoLive(r), ev).health = r.health /\ Begin(GoLive(r), ev).pending = ev
                 /\ Begin(GoLive(r), ev).pc = "Appending"
      BY <1>0 DEF GoLive, Begin, Runs
    <3>4. PICK ev : /\ run' = [run EXCEPT ![e] = Begin(GoLive(r), ev)]
                    /\ ev.kind \in {"StepStarted", "TimerFired"}
      BY <3>1, <3>2
    <3> QED BY <3>3, <3>4
  <2>4. ASSUME StartFirstAttempt(e) PROVE \E s : Good(s)
    <3> DEFINE ev == StepStarted(Position(r), 1)
               s == Begin([r EXCEPT !.attempt = 1], ev)
    <3>1. ev.kind = "StepStarted"
      BY DEF StepStarted, Event
    <3>2. s.health = r.health /\ s.pending = ev /\ s.pc = "Appending"
      <4> HIDE DEF ev
      <4> QED BY <1>0 DEF Begin, Runs
    <3>3. run' = [run EXCEPT ![e] = s]
      BY <2>4 DEF StartFirstAttempt, Update, Set
    <3> HIDE DEF s, ev
    <3> QED BY <3>1, <3>2, <3>3
  <2>5. ASSUME RunBody(e) \/ Wake(e) PROVE \E s : Good(s)
    <3> DEFINE outcomes == {StepCompleted(Position(r), v) : v \in Payloads}
                             \cup {StepFailed(Position(r), r.attempt, x) : x \in StepErrors}
    <3>1. \A ev \in outcomes \cup {TimerFired(Position(r))} : ev.kind # "ExecutionFailed"
      BY DEF StepCompleted, StepFailed, TimerFired, Event
    <3>2. PICK ev \in outcomes \cup {TimerFired(Position(r))} :
            run' = [run EXCEPT ![e] = Begin(r, ev)]
      BY <2>5 DEF RunBody, Wake, Update, Set
    <3> DEFINE s == Begin(r, ev)
    <3>3. s.pc = "Appending" /\ s.health = r.health /\ s.pending = ev
      BY <1>b
    <3>4. ev.kind # "ExecutionFailed"
      BY <3>1
    <3> HIDE DEF outcomes, s
    <3> QED BY <3>2, <3>3, <3>4 DEF s
  <2>6. ASSUME ReturnRecorded(e) PROVE \E s : Good(s)
    BY <1>c, <2>6 DEF ReturnRecorded, Update, Set
  <2> HIDE DEF Good
  <2>7. \E s : Good(s)
    BY <1>4, <2>1, <2>2, <2>3, <2>4, <2>5, <2>6 DEF Resolve
  <2> QED BY <2>0, <2>7 DEF Good
<1>5. CASE AppendThenCheckpoint(e) \/ AppendThenReturn(e) \/ AppendStart(e)
  <2>0. AppendPending(e) /\ r.pc # "Idle"
    BY <1>5 DEF AppendThenCheckpoint, AppendThenReturn, AppendStart, AppendPending
  <2>1. ASSUME AppendThenCheckpoint(e) PROVE \E s : Good(s)
    <3> DEFINE c == CheckpointAfter[r.pending.kind]
               s == [r EXCEPT !.pc = c]
    <3>1. c \notin {"Recovering", "Appending"}
      BY <2>1, Checkpoints DEF AppendThenCheckpoint
    <3>2. s.health = r.health /\ s.pc = c
      <4> HIDE DEF c
      <4> QED BY <1>0 DEF Runs
    <3>3. run' = [run EXCEPT ![e] = s]
      BY <2>1 DEF AppendThenCheckpoint, Set
    <3> HIDE DEF s, c
    <3> QED BY <3>1, <3>2, <3>3
  <2>2. ASSUME AppendThenReturn(e) PROVE \E s : Good(s)
    BY <1>c, <2>2 DEF AppendThenReturn, Set
  <2>3. ASSUME AppendStart(e) PROVE \E s : Good(s)
    <3>1. Back(r).pc = "Workflow" /\ Back(r).health = r.health
      BY <1>0, BackRun
    <3> QED BY <2>3, <3>1 DEF AppendStart, Set
  <2> HIDE DEF Good
  <2>4. \E s : Good(s)
    BY <1>5, <2>1, <2>2, <2>3
  <2> QED BY <2>0, <2>4 DEF Good
<1> QED BY <1>1, <1>2, <1>3, <1>4, <1>5 DEF Inside

LEMMA InsideKeeps ==
  ASSUME DemoWorkflow, EngineInv, DemoInv, NEW e \in Engines, Inside(e)
  PROVE  DemoInv'
<1>1. PICK s : /\ run' = [run EXCEPT ![e] = s] /\ run[e].pc # "Idle"
               /\ journal' = journal \/ AppendPending(e)
               /\ s.pc # "Recovering" /\ s.health = run[e].health
               /\ s.pc = "Appending" => s.pending.kind # "ExecutionFailed"
  BY InsideMoves
<1>2. run[e].health \in {"Healthy", "Journal"} /\ UNCHANGED main
  BY DEF DemoInv, ProcessOK, Inside
<1> QED BY <1>1, <1>2, CallKeeps

\* Demo's steps are Engine's, but for the kill of a process between its two calls.
LEMMA DemoStepKeeps == EngineInv /\ DemoInv /\ [DemoNext]_dvars => EngineInv'
<1> SUFFICES ASSUME EngineInv, DemoInv, [DemoNext]_dvars PROVE EngineInv'
  OBVIOUS
<1>1. CASE UNCHANGED vars
  BY <1>1, EngineStepKeeps
<1>2. ASSUME NEW e \in Engines,
             Launch(e) \/ Retry(e) \/ Go(e) \/ StoreFails(e) \/ Kill(e)
      PROVE  Next
  <2>1. ASSUME Launch(e) \/ Retry(e) PROVE Acquire(e)
    <3>1. binary[e] \in Definitions
      BY DEF DemoInv
    <3> QED BY <2>1, <3>1 DEF Launch, Retry, Acquire
  <2>2. ASSUME Go(e) PROVE Proceed(e)
    BY <2>2 DEF Go, RunFindsExisting, Inside, ReturnOutcome, ReturnFault, ReturnError,
       Proceed, Enter, AppendEvent, Leave
  <2>3. ASSUME StoreFails(e) \/ Kill(e) PROVE Interruption(e)
    BY <2>3 DEF StoreFails, Interruption
  <2> QED BY <1>2, <2>1, <2>2, <2>3 DEF Next
<1>3. ASSUME NEW e \in Engines, KillProcess(e), ~ Kill(e) PROVE EngineInv'
  BY <1>3, IdleKillKeeps DEF KillProcess
<1>4. CASE DemoNext
  <2>1. PICK e \in Engines :
          \/ Launch(e) \/ LaunchRefused(e) \/ Retry(e) \/ RetryRefused(e)
          \/ Go(e) \/ StoreFails(e) \/ KillProcess(e)
    BY <1>4 DEF DemoNext
  <2>2. LaunchRefused(e) \/ RetryRefused(e) => UNCHANGED vars
    BY DEF LaunchRefused, RetryRefused
  <2> QED BY <1>1, <1>2, <1>3, <2>1, <2>2, EngineStepKeeps
<1> QED BY <1>1, <1>4 DEF dvars

\* Every step of a process keeps what is known of it.
LEMMA DemoInvKept ==
  ASSUME DemoWorkflow
  PROVE  EngineInv /\ DemoInv /\ [DemoNext]_dvars => DemoInv'
<1> SUFFICES ASSUME EngineInv, DemoInv, [DemoNext]_dvars PROVE DemoInv'
  OBVIOUS
<1>1. CASE UNCHANGED dvars
  BY <1>1 DEF dvars, vars, main, DemoInv, ProcessOK, OnlyInterruptionsShow
<1>2. CASE DemoNext
  BY <1>2, LaunchKeeps, ExitKeeps, ErrorKeeps, InsideKeeps DEF DemoNext, Go
<1> QED BY <1>1, <1>2

\* However many processes of however many versions are launched, killed and refused
\* the lease over one journal, a process ends in success, is refused, killed or meets
\* a store error: none sees a history it cannot continue, none finds the workflow
\* recorded as failed (main.rs, tests/kill9.rs).
THEOREM OnlyInterruptionsEverShow ==
  ASSUME DemoWorkflow
  PROVE  DemoSpec => []OnlyInterruptionsShow
<1>1. DemoInit => EngineInv /\ DemoInv
  <2> SUFFICES ASSUME DemoInit PROVE EngineInv /\ DemoInv
    OBVIOUS
  <2>1. EngineInv
    BY InitHolds, InitRecords DEF DemoInit, EngineInv, Init, AttemptsArePaid
  <2>2. journal = <<>> /\ \A e \in Engines : run[e] = IdleRun
    BY DEF DemoInit, Init
  <2>3. \A e \in Engines : ProcessOK(e)
    BY <2>2 DEF DemoInit, ProcessOK, IdleRun
  <2>4. DOMAIN journal = {}
    BY <2>2, EmptySeq
  <2>5. DemoInv
    BY <2>3, <2>4 DEF DemoInit, DemoInv, OnlyInterruptionsShow
  <2> QED BY <2>1, <2>5
<1>2. EngineInv /\ DemoInv /\ [DemoNext]_dvars => (EngineInv /\ DemoInv)'
  BY DemoStepKeeps, DemoInvKept
<1>3. DemoInv => OnlyInterruptionsShow
  BY DEF DemoInv
<1> QED BY <1>1, <1>2, <1>3, PTL DEF DemoSpec

-----------------------------------------------------------------------------
(* Failpoints: the windows.                                                *)

\* The crash points an event's live path goes through (checkpoint's callers).
LEMMA WindowsListed ==
  ASSUME NEW ev, NEW at \in WindowsOf(ev)
  PROVE  /\ at.seq = ev.seq
         /\ \/ ev.kind = "StepScheduled" /\ at.point \in {"BeforeStepScheduled", "AfterStepScheduled"}
            \/ ev.kind = "StepStarted" /\ at.point = "AfterStepStarted"
            \/ ev.kind = "StepCompleted" /\ at.point \in {"AfterSideEffect", "AfterStepCompleted"}
            \/ ev.kind = "TimerScheduled" /\ at.point = "AfterTimerScheduled"
            \/ ev.kind = "TimerFired" /\ at.point = "AfterTimerFired"
  BY DEF WindowsOf

\* An exhausted journal takes a record of the end only.
LEMMA ExhaustedTakesTheEnd ==
  ASSUME EngineInv, Exhausted(journal), NEW e \in Engines, AppendPending(e)
  PROVE  /\ run[e].pending.kind \in TerminalKinds
         /\ Exhausted(journal')
<1> DEFINE ev == run[e].pending
           j == journal
<1>1. /\ j \in Seq(Events) /\ ev \in Events /\ Admits(EndState(j), ev) /\ j # <<>>
      /\ ev.kind \in PositionedKinds => ev.seq = Position(run[e]) /\ run[e].seq > 0
      /\ run[e] \in Runs
  BY DEF EngineInv, IInv, TypeOK, RunAgrees, AppendingOK, AppendPending, Exhausted
<1>2. EndState(j) = Ready(MaxSeq)
  <2>1. ~ Terminal(j)
    BY <1>1, AppendContinues DEF Continues
  <2> QED BY <2>1 DEF Exhausted
<1>3. ev.kind \in CommandRecordKinds \cup TerminalKinds
  <2>1. EndState(j).phase = "Ready"
    BY <1>2 DEF Ready, HistoryState
  <2>2. "Ready" \notin {"Scheduled", "Started", "Timer"}
    OBVIOUS
  <2> QED BY <1>1, <2>1, <2>2, AdmittedAfter, EventFields, KindSets
<1>4. ev.kind \notin CommandRecordKinds
  <2> SUFFICES ASSUME ev.kind \in CommandRecordKinds PROVE FALSE
    OBVIOUS
  <2>1. ev.kind \in PositionedKinds
    BY KindSets
  <2>2. ev.seq = MaxSeq
    BY <1>1, <1>2, <2>1, AdmittedAfter DEF Ready, HistoryState
  <2>3. ev.seq < MaxSeq
    BY <1>1, <2>1, PositionInRange
  <2> QED BY <2>2, <2>3, SeqAssumption
<1>5. journal' = Append(j, ev) /\ ev.kind \in TerminalKinds
  BY <1>3, <1>4 DEF AppendPending
<1>6. Terminal(journal') /\ journal' # <<>>
  BY <1>1, <1>5, AppendedAt DEF Terminal
<1> QED BY <1>5, <1>6 DEF Exhausted

\* What a first run's next step makes of it.
ArmedStep(e) ==
  \E s : /\ run' = [run EXCEPT ![e] = s]
         /\ s.mode = "Live" /\ Healthy(s) /\ s.pc \notin {"Idle", "Starting", "Recovering"}
         /\ \/ journal' = journal
            \/ /\ AppendPending(e)
               /\ run[e].pending.kind \in DOMAIN CheckpointAfter =>
                    s.pc = CheckpointAfter[run[e].pending.kind] /\ s.seq = run[e].seq

\* A first run goes on live and without a fault, consulting its policy after every
\* event that has a checkpoint, until it records the end or runs out of positions.
LEMMA ArmedMoves ==
  ASSUME EngineInv, NEW e \in Engines, ArmedRun(e), ~ Exhausted(journal), Proceed(e),
         ~ AppendTerminal(e)
  PROVE  ArmedStep(e)
<1> DEFINE r == run[e]
<1>0. /\ r \in Runs /\ RunAgrees(journal, r)
      /\ r.mode = "Live" /\ r.health = "Healthy" /\ r.pc # "Recovering" /\ ~ Unread(r)
      /\ r.pc = "Starting" => journal = <<>>
  BY DEF EngineInv, IInv, TypeOK, ArmedRun, Healthy, Unread
<1>b. ASSUME NEW ev
      PROVE  LET s == Begin(r, ev)
             IN s.pc = "Appending" /\ s.health = "Healthy" /\ s.mode = "Live"
  BY <1>0 DEF Begin, Runs
<1>c. ASSUME NEW x
      PROVE  LET s == Return(r, x)
             IN s.pc = "Workflow" /\ s.health = "Healthy" /\ s.mode = "Live"
  BY <1>0 DEF Return, Back, Runs
<1>1. CASE Enter(e)
  <2>1. StartAbsent(e)
    BY <1>0, <1>1 DEF Enter, StartExisting, RecoverRejected, RecoverTerminal, RecoverRunning
  <2>2. \E ev : run' = [run EXCEPT ![e] = Begin(r, ev)]
    BY <2>1 DEF StartAbsent, Update, Set
  <2>3. journal' = journal
    BY <2>1 DEF StartAbsent, Update
  <2> QED BY <1>b, <2>2, <2>3 DEF ArmedStep, Healthy
<1>2. CASE Command(e)
  <2>1. ~ SequenceExhausted(e)
    <3> SUFFICES ASSUME SequenceExhausted(e) PROVE FALSE
      OBVIOUS
    <3>1. r.pc = "Workflow" /\ r.seq = MaxSeq
      BY DEF SequenceExhausted, Issues
    <3>2. journal # <<>> /\ EndState(journal) = Ready(MaxSeq)
      BY <1>0, <3>1 DEF RunAgrees, WorkflowOK, CursorState, Healthy
    <3> QED BY <3>2 DEF Exhausted
  <2>2. PICK cmd \in Commands : BeginCommand(e, cmd)
    BY <1>0, <1>2, <2>1 DEF Command, Diverges, ReplayReading, ReplayScheduled
  <2> DEFINE t == Taken(r)
             step == IF cmd.kind = "RunStep" THEN cmd.arg ELSE NoValue
  <2>3. t \in Runs /\ t.health = r.health
    BY <1>0, <2>2, TakenRun DEF BeginCommand, Takes
  <2>4. PICK ev \in FirstEvents(r.seq, cmd) :
          run' = [run EXCEPT ![e] = [Begin(GoLive(t), ev) EXCEPT !.step = step]]
    BY <2>2 DEF BeginCommand, Update, Set
  <2> DEFINE s == [Begin(GoLive(t), ev) EXCEPT !.step = step]
  <2>5. s.health = t.health /\ s.mode = "Live" /\ s.pc = "Appending"
    <3> HIDE DEF t
    <3> QED BY <2>3 DEF GoLive, Begin, Runs
  <2>6. journal' = journal
    BY <2>2 DEF BeginCommand, Update
  <2> HIDE DEF s, t
  <2>7. run' = [run EXCEPT ![e] = s]
    BY <2>4 DEF s, t
  <2> QED BY <1>0, <2>3, <2>5, <2>6, <2>7 DEF ArmedStep, Healthy
<1>3. CASE Resolve(e)
  <2>0. journal' = journal
    BY <1>3 DEF Resolve, ReplayAttempt, ReplayFollower, RerunStep, Rearm, StartFirstAttempt, RunBody,
       Wake, ReturnRecorded, Update
  <2>1. StartFirstAttempt(e) \/ RunBody(e) \/ Wake(e) \/ ReturnRecorded(e)
    BY <1>0, <1>3 DEF Resolve, ReplayAttempt, ReplayFollower, RerunStep, Rearm, RunAgrees, ReplayOK
  <2>2. CASE StartFirstAttempt(e)
    <3> DEFINE ev == StepStarted(Position(r), 1)
               s == Begin([r EXCEPT !.attempt = 1], ev)
    <3>1. s.health = "Healthy" /\ s.mode = "Live" /\ s.pc = "Appending"
      <4> HIDE DEF ev
      <4> QED BY <1>0 DEF Begin, Runs
    <3>2. run' = [run EXCEPT ![e] = s]
      BY <2>2 DEF StartFirstAttempt, Update, Set
    <3> HIDE DEF s
    <3> QED BY <2>0, <3>1, <3>2 DEF ArmedStep, Healthy
  <2>3. CASE RunBody(e) \/ Wake(e)
    <3>1. \E ev : run' = [run EXCEPT ![e] = Begin(r, ev)]
      BY <2>3 DEF RunBody, Wake, Update, Set
    <3> QED BY <1>b, <2>0, <3>1 DEF ArmedStep, Healthy
  <2>4. CASE ReturnRecorded(e)
    <3>1. run' = [run EXCEPT ![e] = Return(r, ResultOf(r.pending))]
      BY <2>4 DEF ReturnRecorded, Update, Set
    <3> QED BY <1>c, <2>0, <3>1 DEF ArmedStep, Healthy
  <2> QED BY <2>1, <2>2, <2>3, <2>4
<1>4. CASE AppendThenCheckpoint(e)
  <2> DEFINE c == CheckpointAfter[r.pending.kind]
             s == [r EXCEPT !.pc = c]
  <2>1. c \notin {"Idle", "Starting", "Recovering"}
    BY <1>4, Checkpoints DEF AppendThenCheckpoint
  <2>2. s.health = "Healthy" /\ s.mode = "Live" /\ s.pc = c /\ s.seq = r.seq
    <3> HIDE DEF c
    <3> QED BY <1>0 DEF Runs
  <2>3. run' = [run EXCEPT ![e] = s] /\ AppendPending(e)
    BY <1>4 DEF AppendThenCheckpoint, AppendPending, Set
  <2> HIDE DEF s
  <2> QED BY <2>1, <2>2, <2>3 DEF ArmedStep, Healthy
<1>5. CASE AppendThenReturn(e)
  <2>1. /\ run' = [run EXCEPT ![e] = Return(r, ResultOf(r.pending))] /\ AppendPending(e)
        /\ r.pending.kind \notin DOMAIN CheckpointAfter
    BY <1>5, Checkpoints DEF AppendThenReturn, AppendPending, Set
  <2> QED BY <1>c, <2>1 DEF ArmedStep, Healthy
<1>6. CASE AppendStart(e)
  <2>1. /\ run' = [run EXCEPT ![e] = Back(r)] /\ AppendPending(e)
        /\ r.pending.kind \notin DOMAIN CheckpointAfter
    BY <1>6, Checkpoints DEF AppendStart, AppendPending, Set
  <2>2. Back(r).pc = "Workflow" /\ Back(r).health = "Healthy" /\ Back(r).mode = "Live"
    BY <1>0, BackRun
  <2> QED BY <2>1, <2>2 DEF ArmedStep, Healthy
<1>7. CASE Leave(e)
  <2>1. PICK o \in Outcomes : Finish(e, o)
    BY <1>0, <1>7 DEF Leave, FinishFaulted, FinishUnconsumed, Healthy, ReplayComplete
  <2>2. \E ev : run' = [run EXCEPT ![e] = Begin(r, ev)]
    BY <2>1 DEF Finish, Update, Set
  <2>3. journal' = journal
    BY <2>1 DEF Finish, Update
  <2> QED BY <1>b, <2>2, <2>3 DEF ArmedStep, Healthy
<1> QED BY <1>1, <1>2, <1>3, <1>4, <1>5, <1>6, <1>7 DEF Proceed, AppendEvent

\* A run that goes on has passed no window of its policy's.
LEMMA NonePassed ==
  ASSUME EngineInv, WindowInv, ~ policy.fired, NEW e \in Engines, run[e].pc # "Idle",
         ~ Crashes(e), NEW k \in DOMAIN journal
  PROVE  policy.at \notin WindowsOf(journal[k])
<1> SUFFICES ASSUME policy.at \in WindowsOf(journal[k]) PROVE FALSE
  OBVIOUS
<1>1. PICK f \in Engines : Crashes(f)
  BY DEF WindowInv
<1>2. f # e /\ run[f] = IdleRun
  BY <1>1, OthersIdle DEF EngineInv
<1>3. CrashPointOf(IdleRun) = "none"
  BY CommandPcs DEF CrashPointOf, IdleRun
<1> QED BY <1>1, <1>2, <1>3 DEF Crashes, Consults

\* A first run that appends an event with a window of the policy's stands in it.
LEMMA StandsInWindow ==
  ASSUME EngineInv, WindowInv, ~ policy.fired, NEW e \in Engines, given[e] = "CrashOnce",
         ~ Crashes(e), AppendPending(e), UNCHANGED <<policy, given>>,
         policy.at \in WindowsOf(run[e].pending),
         run[e].pending.kind \in DOMAIN CheckpointAfter =>
           /\ run'[e].pc = CheckpointAfter[run[e].pending.kind]
           /\ run'[e].seq = run[e].seq
  PROVE  Crashes(e)' /\ run'[e].pc # "Appending"
<1> DEFINE r == run[e]
           ev == r.pending
           s == run'[e]
<1>1. /\ ev \in Events /\ r \in Runs /\ r.pc = "Appending"
      /\ ev.kind \in PositionedKinds => ev.seq = Position(r)
  BY DEF EngineInv, IInv, TypeOK, RunAgrees, AppendingOK, AppendPending
<1>2. policy.at \in CrashPoints
  BY DEF WindowInv
<1>3. policy.at.seq = Position(r)
  BY <1>1, WindowsListed, KindSets
<1>4. \A q : q.seq = r.seq => Position(q) = Position(r)
  BY DEF Position
<1>5. ASSUME NEW q, CrashPointOf(q) = policy.at.point, Position(q) = policy.at.seq
      PROVE  CrashOnce(PointOf(q))
  BY <1>2, <1>5 DEF CrashPoints, CrashOnce, PointOf
<1>6. CrashPointOf(r) # policy.at.point
  <2> SUFFICES ASSUME CrashPointOf(r) = policy.at.point PROVE FALSE
    OBVIOUS
  <2>1. CrashOnce(PointOf(r))
    BY <1>3, <1>5
  <2>2. Consults(r)
    BY WindowsListed DEF Consults
  <2> QED BY <2>1, <2>2 DEF Crashes
<1>7. ev.kind \in DOMAIN CheckpointAfter /\ CheckpointAfter[ev.kind] = policy.at.point
  <2>1. /\ ev.kind = "StepScheduled" => CrashPointOf(r) = "BeforeStepScheduled"
        /\ ev.kind = "StepCompleted" => CrashPointOf(r) = "AfterSideEffect"
    BY <1>1 DEF CrashPointOf
  <2> QED BY <1>6, <2>1, WindowsListed, Checkpoints
<1>8. s.pc = policy.at.point /\ Position(s) = policy.at.seq
  BY <1>3, <1>4, <1>7
<1>9. s.pc \in {"AfterStepScheduled", "AfterStepStarted", "AfterStepCompleted",
                "AfterTimerScheduled", "AfterTimerFired"}
  BY <1>7, <1>8, Checkpoints
<1>10. CrashPointOf(s) = s.pc /\ s.pc # "Appending"
  BY <1>9, CommandPcs DEF CrashPointOf
<1>11. CrashOnce(PointOf(s)) /\ Consults(s)
  BY <1>5, <1>8, <1>9, <1>10 DEF Consults
<1> QED BY <1>10, <1>11 DEF Crashes, CrashOnce

\* A run the policy lets continue keeps the invariant.
LEMMA ContinueKeeps ==
  ASSUME EngineInv, WindowInv, NEW e \in Engines, Continue(e)
  PROVE  WindowInv'
<1> DEFINE j == journal
           r == run[e]
<1>0. /\ j \in Seq(Events) /\ run \in [Engines -> Runs] /\ Proceed(e) /\ ~ Crashes(e)
      /\ UNCHANGED <<policy, given>>
  BY DEF EngineInv, IInv, TypeOK, Continue
<1> SUFFICES ASSUME ~ policy.fired PROVE WindowInv'
  BY <1>0 DEF WindowInv
<1>1. r.pc # "Idle"
  BY <1>0 DEF Proceed, Enter, StartExisting, StartAbsent, RecoverRejected, RecoverTerminal,
     RecoverRunning, Command, SequenceExhausted, Diverges, ReplayReading, ReplayScheduled,
     BeginCommand, Takes, Issues, Resolve, ReplayAttempt, ReplayFollower, RerunStep, Rearm,
     StartFirstAttempt, RunBody, Wake, ReturnRecorded, AppendEvent, AppendThenCheckpoint,
     AppendThenReturn, AppendStart, AppendTerminal, Leave, FinishFaulted, FinishUnconsumed,
     Finish, Returns
<1>2. \A k \in DOMAIN j : policy.at \notin WindowsOf(j[k])
  BY <1>0, <1>1, NonePassed
<1>3. \A f \in Engines \ {e} : run'[f].pc = "Idle"
  <2>1. \E s : run' = [run EXCEPT ![e] = s]
    BY <1>0 DEF Proceed, Enter, StartExisting, StartAbsent, RecoverRejected, RecoverTerminal,
       RecoverRunning, Command, SequenceExhausted, Diverges, ReplayReading, ReplayScheduled,
       BeginCommand, Resolve, ReplayAttempt, ReplayFollower, RerunStep, Rearm,
       StartFirstAttempt, RunBody, Wake, ReturnRecorded, AppendEvent, AppendThenCheckpoint,
       AppendThenReturn, AppendStart, AppendTerminal, Leave, FinishFaulted, FinishUnconsumed,
       Finish, Update, EndRun, Set
  <2>2. PICK s : run' = [run EXCEPT ![e] = s]
    BY <2>1
  <2>3. \A f \in Engines \ {e} : run'[f] = IdleRun
    BY <1>1, <2>2, OthersStayIdle DEF EngineInv
  <2> QED BY <2>3 DEF IdleRun
<1>4. journal' = j \/ AppendPending(e)
  <2>1. Next
    BY <1>0 DEF Next
  <2>2. journal' # j => \E f \in Engines : AppendPending(f)
    BY <2>1, OnlyAppendsWrite
  <2>3. \A f \in Engines \ {e} : run[f].pc = "Idle"
    BY <1>1, OthersIdle DEF EngineInv, IdleRun
  <2> QED BY <2>2, <2>3 DEF AppendPending
<1>5. CASE Exhausted(j) \/ AppendTerminal(e)
  <2>1. /\ Exhausted(journal')
        /\ AppendPending(e) => run[e].pending.kind \in TerminalKinds
    <3>1. CASE Exhausted(j)
      BY <1>4, <3>1, ExhaustedTakesTheEnd
    <3>2. CASE AppendTerminal(e)
      <4>1. AppendPending(e) /\ run[e].pending.kind \in TerminalKinds
        BY <3>2 DEF AppendTerminal, AppendPending
      <4>2. run[e].pending \in Events
        BY <4>1 DEF EngineInv, IInv, RunAgrees, AppendingOK, AppendPending
      <4> QED BY <1>0, <4>1, <4>2, AppendedAt DEF AppendPending, Exhausted, Terminal
    <3> QED BY <1>5, <3>1, <3>2
  <2>2. ASSUME NEW k \in DOMAIN journal' PROVE policy.at \notin WindowsOf(journal'[k])
    <3>1. CASE journal' = j
      BY <1>2, <3>1
    <3>2. CASE AppendPending(e)
      <4> DEFINE ev == run[e].pending
      <4>1. /\ ev \in Events /\ journal' = Append(j, ev)
            /\ ev.kind \in {"ExecutionCompleted", "ExecutionFailed"}
        BY <2>1, <3>2, KindSets DEF EngineInv, IInv, RunAgrees, AppendingOK, AppendPending
      <4>2. policy.at \notin WindowsOf(ev)
        BY <4>1, WindowsListed
      <4> HIDE DEF ev
      <4> QED BY <1>0, <1>2, <4>1, <4>2, AppendedAt
    <3> QED BY <1>4, <3>1, <3>2
  <2> QED BY <1>0, <2>1, <2>2 DEF WindowInv
<1>6. CASE ~ Exhausted(j) /\ ~ AppendTerminal(e)
  <2>1. ArmedRun(e)
    BY <1>1, <1>6 DEF WindowInv
  <2>2. ArmedStep(e)
    BY <1>0, <1>6, <2>1, ArmedMoves
  <2>3. PICK s :
         /\ run' = [run EXCEPT ![e] = s]
         /\ s.mode = "Live" /\ Healthy(s) /\ s.pc \notin {"Idle", "Starting", "Recovering"}
         /\ \/ journal' = journal
            \/ /\ AppendPending(e)
               /\ run[e].pending.kind \in DOMAIN CheckpointAfter =>
                    s.pc = CheckpointAfter[run[e].pending.kind] /\ s.seq = run[e].seq
    BY <2>2 DEF ArmedStep
  <2>4. run'[e] = s
    BY <1>0, <2>3
  <2>5. ArmedRun(e)'
    BY <1>0, <2>1, <2>3, <2>4 DEF ArmedRun, Healthy
  <2>6. ASSUME NEW k \in DOMAIN journal', policy.at \in WindowsOf(journal'[k])
        PROVE  k = Len(journal') /\ \E f \in Engines : Crashes(f)' /\ run'[f].pc # "Appending"
    <3>1. CASE journal' = j
      BY <1>2, <2>6, <3>1
    <3>2. CASE AppendPending(e) /\ journal' # j
      <4> DEFINE ev == run[e].pending
      <4>1. ev \in Events /\ journal' = Append(j, ev)
        BY <3>2 DEF EngineInv, IInv, RunAgrees, AppendingOK, AppendPending
      <4>2. k = Len(j) + 1 /\ Len(journal') = Len(j) + 1 /\ policy.at \in WindowsOf(ev)
        <5> HIDE DEF ev
        <5> QED BY <1>0, <1>2, <2>6, <4>1, AppendedAt
      <4>3. Crashes(e)' /\ run'[e].pc # "Appending"
        BY <1>0, <2>1, <2>3, <2>4, <3>2, <4>2, StandsInWindow DEF ArmedRun
      <4> QED BY <4>2, <4>3
    <3> QED BY <1>4, <3>1, <3>2
  <2> HIDE DEF j
  <2>7. (\A f \in Engines : run[f].pc # "Idle" => Exhausted(journal) \/ ArmedRun(f))'
    BY <1>3, <2>5
  <2>8. (\E f \in Engines : run[f].pc # "Idle")'
    BY <2>3, <2>4
  <2>9. (\A k \in DOMAIN journal : policy.at \in WindowsOf(journal[k]) =>
            k = Len(journal) /\ \E f \in Engines : Crashes(f) /\ run[f].pc # "Appending")'
    BY <1>0, <2>6
  <2> QED BY <1>0, <2>7, <2>8, <2>9 DEF WindowInv
<1> QED BY <1>5, <1>6

\* Starting under a fresh policy, recovering what the end left, and crashing.
LEMMA DriveKeeps ==
  ASSUME EngineInv, WindowInv, NEW e \in Engines, Drive(e)
  PROVE  WindowInv'
<1>0. run \in [Engines -> Runs] /\ IdleRun \in Runs /\ IdleRun.pc = "Idle"
      /\ IdleRun.mode = "Live" /\ IdleRun.health = "Healthy"
  BY IdleRunTyped DEF EngineInv, IInv, TypeOK, IdleRun
<1>1. ASSUME NEW d \in Definitions, NEW i \in Payloads, Run(e, d, i) PROVE WindowInv'
  <2> DEFINE s == [IdleRun EXCEPT !.pc = "Starting", !.definition = d, !.input = i]
  <2>1. s.pc = "Starting" /\ s.mode = "Live" /\ Healthy(s)
    BY <1>0 DEF Runs, Healthy
  <2>2. /\ run' = [run EXCEPT ![e] = s] /\ journal = <<>> /\ journal' = journal /\ owner = NoOwner
        /\ given' = [given EXCEPT ![e] = "CrashOnce"] /\ policy' = policy
    BY <1>1 DEF Run, RunAcquire, Set
  <2>3. run'[e] = s /\ \A f \in Engines \ {e} : run'[f] = IdleRun
    BY <2>2, OthersStayIdle DEF EngineInv
  <2>4. given' \in [Engines -> {"CrashOnce", "NeverCrash"}] /\ given'[e] = "CrashOnce"
    BY <2>2 DEF WindowInv
  <2> HIDE DEF s
  <2>5. ArmedRun(e)'
    BY <2>1, <2>2, <2>3, <2>4 DEF ArmedRun
  <2>6. DOMAIN journal' = {}
    BY <2>2, EmptySeq
  <2> QED BY <1>0, <2>2, <2>3, <2>4, <2>5, <2>6 DEF WindowInv
<1>2. CASE Recover(e)
  <2>1. /\ journal # <<>> /\ journal' = journal /\ owner = NoOwner /\ policy' = policy
        /\ \E s : run' = [run EXCEPT ![e] = s] /\ s.pc = "Recovering"
    <3> DEFINE s == [IdleRun EXCEPT !.pc = "Recovering", !.definition = journal[1].value.definition]
    <3>1. s.pc = "Recovering"
      BY <1>0 DEF Runs
    <3>2. run' = [run EXCEPT ![e] = s]
      BY <1>2 DEF Recover, RecoverAcquire, Set
    <3> HIDE DEF s
    <3> QED BY <1>2, <3>1, <3>2 DEF Recover, RecoverAcquire
  <2>2. given' \in [Engines -> {"CrashOnce", "NeverCrash"}]
    BY <1>2 DEF Recover, WindowInv
  <2>3. \A f \in Engines : run[f].pc = "Idle" /\ ~ Crashes(f)
    <3>1. \A f \in Engines : run[f] = IdleRun
      BY <2>1, FreeLease DEF EngineInv
    <3>2. CrashPointOf(IdleRun) = "none"
      BY <1>0, CommandPcs DEF CrashPointOf
    <3> QED BY <1>0, <3>1, <3>2 DEF Crashes, Consults
  <2>4. ~ policy.fired => Exhausted(journal)
    BY <2>1, <2>3 DEF WindowInv
  <2>5. ~ policy.fired => \A k \in DOMAIN journal : policy.at \notin WindowsOf(journal[k])
    BY <2>3 DEF WindowInv
  <2> QED BY <2>1, <2>2, <2>4, <2>5 DEF WindowInv
<1>3. CASE Crash(e)
  <2>1. policy' \in [at : CrashPoints, fired : BOOLEAN] /\ policy'.fired /\ given' = given
    BY <1>3 DEF Crash, WindowInv
  <2> QED BY <2>1 DEF WindowInv
<1>4. CASE Continue(e)
  BY <1>4, ContinueKeeps
<1> QED BY <1>1, <1>2, <1>3, <1>4 DEF Drive

\* The drivers' steps are Engine's.
LEMMA DriveIsEngine ==
  ASSUME EngineInv, NEW e \in Engines, Drive(e)
  PROVE  Next
<1>1. Crash(e) \/ Continue(e) => Next
  BY DEF Crash, Continue, Next, Interruption
<1>2. (\E d \in Definitions, i \in Payloads : Run(e, d, i)) => Next
  BY DEF Run, Next, Acquire
<1>3. ASSUME Recover(e) PROVE Next
  <2>1. journal # <<>> /\ journal \in Seq(Events) /\ Legal(journal)
    BY <1>3 DEF Recover, EngineInv, IInv, TypeOK, HistoryLegal
  <2>2. journal[1] \in Events /\ journal[1].kind = "ExecutionStarted"
    BY <2>1, EmptySeq, ElementOfSeq DEF Legal
  <2>3. journal[1].value.definition \in Definitions
    BY <2>2, EventFields DEF Invocations
  <2> QED BY <1>3, <2>3 DEF Recover, Next, Acquire
<1> QED BY <1>1, <1>2, <1>3 DEF Drive

LEMMA FailpointsStart ==
  FailpointsInit => EngineInv /\ WindowInv
<1> SUFFICES ASSUME FailpointsInit PROVE EngineInv /\ WindowInv
  OBVIOUS
<1>1. EngineInv
  BY InitHolds, InitRecords DEF FailpointsInit, EngineInv, Init, AttemptsArePaid
<1>2. journal = <<>> /\ \A e \in Engines : run[e].pc = "Idle"
  BY DEF FailpointsInit, Init, IdleRun
<1>3. DOMAIN journal = {}
  BY <1>2, EmptySeq
<1> QED BY <1>1, <1>2, <1>3 DEF FailpointsInit, WindowInv

LEMMA FailpointsStep ==
  ASSUME EngineInv, WindowInv, [FailpointsNext]_fvars
  PROVE  [Next]_vars /\ EngineInv' /\ WindowInv'
<1>1. CASE UNCHANGED fvars
  <2>1. UNCHANGED <<journal, run, policy, given>> /\ UNCHANGED vars
    BY <1>1 DEF fvars, vars
  <2>2. WindowInv'
    BY <2>1 DEF WindowInv, ArmedRun, Crashes, CrashOnce
  <2> QED BY <2>1, <2>2, EngineStepKeeps
<1>2. CASE FailpointsNext
  BY <1>2, DriveIsEngine, DriveKeeps, EngineStepKeeps DEF FailpointsNext
<1> QED BY <1>1, <1>2

\* Whatever the workflow does, wherever its failures and limits end a run, and
\* however many engines recover it under the policy or another: an execution that
\* ended without the policy firing has no event whose live path goes through the
\* policy's window. The live paths consult the policy at every CrashPoint they pass
\* (checkpoint, run_live, sleep_live).
THEOREM EveryWindowIsConsulted == FailpointsSpec => []NoWindowIsSkipped
<1>1. EngineInv /\ WindowInv /\ [FailpointsNext]_fvars => (EngineInv /\ WindowInv)'
  BY FailpointsStep
<1>2. WindowInv => NoWindowIsSkipped
  <2> SUFFICES ASSUME WindowInv, Terminal(journal), ~ policy.fired,
                      NEW k \in DOMAIN journal, policy.at \in WindowsOf(journal[k])
               PROVE  FALSE
    BY DEF NoWindowIsSkipped
  <2>1. k = Len(journal)
    BY DEF WindowInv
  <2>2. journal[k].kind \in {"ExecutionCompleted", "ExecutionFailed"}
    BY <2>1, KindSets DEF Terminal
  <2> QED BY <2>2, WindowsListed
<1> QED BY <1>1, <1>2, FailpointsStart, PTL DEF FailpointsSpec

-----------------------------------------------------------------------------
(* Failpoints: what a crash costs.                                         *)

\* The step of a run that only moves it.
Quietly(e, s) == run' = [run EXCEPT ![e] = s] /\ ~ EffectAtRisk(s)

\* Entering and leaving a run, and starting a command, put no outcome at risk.
LEMMA CommandsRiskNothing ==
  ASSUME IInv, NEW e \in Engines, Enter(e) \/ Command(e) \/ Leave(e)
  PROVE  \E s : Quietly(e, s)
<1> DEFINE r == run[e]
<1>r. r \in Runs /\ r.seq \in Seqs
  BY DEF IInv, TypeOK, Runs
<1>k. /\ \A i : ExecutionStarted(i).kind = "ExecutionStarted"
      /\ \A v : ExecutionCompleted(v).kind = "ExecutionCompleted"
      /\ \A v : ExecutionFailed(v).kind = "ExecutionFailed"
  BY DEF ExecutionStarted, ExecutionCompleted, ExecutionFailed, Event
<1>1. ASSUME NEW s, run' = [run EXCEPT ![e] = s],
             s.pc # "Appending" \/ s.pending.kind \notin {"StepCompleted", "StepFailed"}
      PROVE  \E t : Quietly(e, t)
  BY <1>1 DEF Quietly, EffectAtRisk
<1>2. CASE StartAbsent(e)
  <2>1. PICK i : run' = [run EXCEPT ![e] = Begin(r, ExecutionStarted(i))]
    BY <1>2 DEF StartAbsent, Update, Set
  <2>2. Begin(r, ExecutionStarted(i)).pending.kind = "ExecutionStarted"
    BY <1>r, <1>k, RunShapes
  <2> QED BY <1>1, <2>1, <2>2
<1>7. CASE RecoverRunning(e)
  <2> DEFINE s == [r EXCEPT !.pc = "Workflow", !.input = journal[1].value.input,
                            !.history = journal, !.pos = 2,
                            !.mode = IF Len(journal) > 1 THEN "Replaying" ELSE "Live"]
  <2>1. s.pc = "Workflow"
    BY <1>r DEF Runs
  <2>2. run' = [run EXCEPT ![e] = s]
    BY <1>7 DEF RecoverRunning, Update, Set
  <2> HIDE DEF s
  <2> QED BY <1>1, <2>1, <2>2
<1>8. CASE StartExisting(e) \/ RecoverRejected(e) \/ RecoverTerminal(e)
  <2>1. run' = [run EXCEPT ![e] = IdleRun] /\ IdleRun.pc = "Idle"
    BY <1>8 DEF StartExisting, RecoverRejected, RecoverTerminal, EndRun, Set, IdleRun
  <2> QED BY <1>1, <2>1
<1>3. CASE Leave(e)
  <2>1. PICK s : /\ run' = [run EXCEPT ![e] = s]
                 /\ \/ s = IdleRun
                    \/ \E v : s = Begin(r, ExecutionCompleted(v)) \/ s = Begin(r, ExecutionFailed(v))
    BY <1>3 DEF Leave, FinishFaulted, FinishUnconsumed, Finish, EndRun, Update, Set
  <2>2. IdleRun.pc = "Idle"
    BY DEF IdleRun
  <2>3. \A v : /\ Begin(r, ExecutionCompleted(v)).pending.kind = "ExecutionCompleted"
               /\ Begin(r, ExecutionFailed(v)).pending.kind = "ExecutionFailed"
    BY <1>r, <1>k, RunShapes
  <2>4. s.pc # "Appending" \/ s.pending.kind \notin {"StepCompleted", "StepFailed"}
    <3> HIDE DEF r
    <3> QED BY <2>1, <2>2, <2>3
  <2> QED BY <1>1, <2>1, <2>4
<1>4. CASE SequenceExhausted(e) \/ \E cmd \in Commands : Diverges(e, cmd) \/ ReplayReading(e, cmd)
  <2>1. PICK s : /\ run' = [run EXCEPT ![e] = s]
                 /\ \E x : \/ s = Fault(r, x) \/ s = Fault(Taken(r), x)
                           \/ s = [Return(Taken(r), x) EXCEPT !.pos = @ + 1]
    BY <1>4 DEF SequenceExhausted, Diverges, ReplayReading, Update, Set
  <2>2. \A x : /\ Fault(r, x).pc = "Workflow" /\ Fault(Taken(r), x).pc = "Workflow"
              /\ [Return(Taken(r), x) EXCEPT !.pos = @ + 1].pc = "Workflow"
    BY <1>r, RunShapes
  <2>3. s.pc = "Workflow"
    <3> HIDE DEF r
    <3> QED BY <2>1, <2>2
  <2> QED BY <1>1, <2>1, <2>3
<1>5. ASSUME NEW cmd \in Commands, ReplayScheduled(e, cmd) PROVE \E s : Quietly(e, s)
  <2> DEFINE t == Taken(r)
  <2>1. PICK s : /\ run' = [run EXCEPT ![e] = s]
                 /\ \/ s = [t EXCEPT !.pc = "ReplayStep", !.pos = @ + 1, !.step = cmd.arg, !.attempt = 1]
                    \/ s = [t EXCEPT !.pc = "ReplayTimer", !.pos = @ + 1]
    BY <1>5 DEF ReplayScheduled, Update, Set
  <2>2. t \in Runs
    BY <1>r, <1>5, TakenRun DEF ReplayScheduled, Takes
  <2>3. s.pc # "Appending"
    <3> HIDE DEF t
    <3> QED BY <2>1, <2>2 DEF Runs
  <2> QED BY <1>1, <2>1, <2>3
<1>6. ASSUME NEW cmd \in Commands, BeginCommand(e, cmd) PROVE \E s : Quietly(e, s)
  <2> DEFINE t == GoLive(Taken(r))
             step == IF cmd.kind = "RunStep" THEN cmd.arg ELSE NoValue
  <2>1. PICK ev \in FirstEvents(r.seq, cmd) : Update(e, [Begin(t, ev) EXCEPT !.step = step])
    BY <1>6 DEF BeginCommand
  <2> DEFINE s == [Begin(t, ev) EXCEPT !.step = step]
  <2>2. Taken(r) \in Runs
    BY <1>r, <1>6, TakenRun DEF BeginCommand, Takes
  <2>3. s.pending = ev
    <3> HIDE DEF step
    <3> QED BY <2>2 DEF Begin, GoLive, Runs
  <2>4. run' = [run EXCEPT ![e] = s]
    BY <2>1 DEF Update, Set
  <2> HIDE DEF s
  <2>5. ev.kind \in CommandRecordKinds
    BY <1>r, FirstEvent, FirstEventMatches
  <2> QED BY <1>1, <2>3, <2>4, <2>5, KindSets
<1> QED BY <1>2, <1>3, <1>4, <1>5, <1>6, <1>7, <1>8 DEF Enter, Command

\* Only the run of a body does.
LEMMA OnlyBodiesRisk ==
  ASSUME IInv, NEW e \in Engines, Proceed(e), ~ RunBody(e)
  PROVE  \E s : Quietly(e, s)
<1> DEFINE r == run[e]
<1>r. r \in Runs
  BY DEF IInv, TypeOK
<1>1. ASSUME NEW s, run' = [run EXCEPT ![e] = s],
             s.pc # "Appending" \/ s.pending.kind \notin {"StepCompleted", "StepFailed"}
      PROVE  \E t : Quietly(e, t)
  BY <1>1 DEF Quietly, EffectAtRisk
<1>2. CASE ReplayAttempt(e)
  <2> DEFINE s == [r EXCEPT !.pos = @ + 1, !.attempt = NextRecorded(r).attempt + 1]
  <2>1. s.pc = "ReplayStep"
    BY <1>2, <1>r DEF ReplayAttempt, Runs
  <2>2. run' = [run EXCEPT ![e] = s]
    BY <1>2 DEF ReplayAttempt, Update, Set
  <2> HIDE DEF s
  <2> QED BY <1>1, <2>1, <2>2
<1>3. CASE \/ ReplayFollower(e) \/ ReturnRecorded(e) \/ AppendThenReturn(e) \/ AppendStart(e)
           \/ RerunStep(e) /\ r.attempt > MaxAttempt
  <2>1. PICK s : run' = [run EXCEPT ![e] = s]
                 /\ \/ \E x : s = Return(r, x)
                    \/ \E x : s = [Return(r, x) EXCEPT !.pos = @ + 1]
                    \/ \E x : s = Fault(r, x)
                    \/ s = Back(r)
    BY <1>3 DEF ReplayFollower, ReturnRecorded, RerunStep, AppendThenReturn, AppendStart, Update, Set
  <2>2. s.pc = "Workflow"
    <3>1. /\ Back(r).pc = "Workflow"
          /\ \A x : /\ Return(r, x).pc = "Workflow" /\ Fault(r, x).pc = "Workflow"
                    /\ [Return(r, x) EXCEPT !.pos = @ + 1].pc = "Workflow"
      BY <1>r, RunShapes
    <3> HIDE DEF r
    <3> QED BY <2>1, <3>1
  <2> QED BY <1>1, <2>1, <2>2
<1>4. CASE \/ RerunStep(e) /\ ~ r.attempt > MaxAttempt
           \/ StartFirstAttempt(e) \/ Rearm(e) \/ Wake(e)
  <2>1. PICK s, ev :
          /\ run' = [run EXCEPT ![e] = s] /\ ev.kind \in {"StepStarted", "TimerFired"}
          /\ \/ s = Begin(r, ev) \/ s = Begin(GoLive(r), ev) \/ s = Begin([r EXCEPT !.attempt = 1], ev)
    <3>1. /\ \A q, a : StepStarted(q, a).kind = "StepStarted"
          /\ \A q : TimerFired(q).kind = "TimerFired"
      BY DEF StepStarted, TimerFired, Event
    <3> QED BY <1>4, <3>1 DEF RerunStep, StartFirstAttempt, Rearm, Wake, Update, Set
  <2>2. s.pending = ev
    BY <1>r, <2>1 DEF Begin, GoLive, Runs
  <2> QED BY <1>1, <2>1, <2>2
<1>5. CASE AppendThenCheckpoint(e)
  <2> DEFINE s == [r EXCEPT !.pc = CheckpointAfter[r.pending.kind]]
  <2>1. s.pc = CheckpointAfter[r.pending.kind] /\ r.pending.kind \in DOMAIN CheckpointAfter
    BY <1>5, <1>r DEF AppendThenCheckpoint, Runs
  <2>2. run' = [run EXCEPT ![e] = s]
    BY <1>5 DEF AppendThenCheckpoint, Set
  <2> HIDE DEF s
  <2>3. s.pc # "Appending"
    BY <2>1, Checkpoints
  <2> QED BY <1>1, <2>2, <2>3
<1>6. CASE AppendTerminal(e)
  <2>1. run' = [run EXCEPT ![e] = IdleRun] /\ IdleRun.pc = "Idle"
    BY <1>6 DEF AppendTerminal, EndRun, Set, IdleRun
  <2> QED BY <1>1, <2>1
<1> QED BY <1>2, <1>3, <1>4, <1>5, <1>6, CommandsRiskNothing DEF Proceed, Resolve, AppendEvent

\* An effect is lost, or not, for as long as nobody runs a body or crashes.
LEMMA LossStays ==
  ASSUME EngineInv, NEW e \in Engines, NEW s, Quietly(e, s),
         run[e].pc # "Idle" \/ owner = NoOwner, effects' = effects,
         \/ journal' = journal /\ ~ EffectAtRisk(run[e])
         \/ AppendPending(e)
  PROVE  /\ Lost' => Lost
         /\ Lost => Lost' /\ EndState(journal').seq = EndState(journal).seq
<1> DEFINE j == journal
           r == run[e]
           ev == r.pending
<1>0. /\ j \in Seq(Events) /\ effects \in Seq(Effects) /\ EffectsBounded(j, effects)
      /\ AppendingOK(j, r)
  BY DEF EngineInv, IInv, TypeOK, RecordInv, RunAgrees
<1>1. /\ run'[e] = s
      /\ \A f \in Engines \ {e} : run[f] = IdleRun /\ run'[f] = IdleRun
  BY OthersStayIdle DEF EngineInv, Quietly
<1>2. \A f \in Engines : ~ EffectAtRisk(run'[f])
  <2>1. ~ EffectAtRisk(IdleRun)
    BY DEF EffectAtRisk, IdleRun
  <2> QED BY <1>1, <2>1 DEF Quietly
<1>3. (\A f \in Engines : ~ EffectAtRisk(run[f])) <=> ~ EffectAtRisk(r)
  BY <1>1, RiskOfHolder
<1>4. CASE journal' = journal /\ ~ EffectAtRisk(r)
  BY <1>2, <1>3, <1>4 DEF Lost
<1>5. CASE AppendPending(e)
  <2>1. /\ ev \in Events /\ journal' = Append(j, ev) /\ r.pc = "Appending"
        /\ ev.kind # "ExecutionStarted" => j # <<>> /\ Admits(EndState(j), ev)
        /\ ev.kind = "ExecutionStarted" => j = <<>>
    BY <1>0, <1>5 DEF AppendPending, AppendingOK
  <2>2. EndState(journal') = StateAfter(ev) /\ journal' # <<>>
    BY <1>0, <2>1, AppendedAt
  <2>3. ASSUME Lost' PROVE Lost
    <3>1. /\ effects # <<>> /\ StateAfter(ev).phase = "Started"
          /\ effects[Len(effects)].seq = StateAfter(ev).seq
      BY <2>2, <2>3 DEF Lost
    <3>2. ev.kind = "StepStarted" /\ StateAfter(ev).seq = ev.seq
      BY <2>1, <3>1, StateTells
    <3>3. j # <<>> /\ Continues(j) /\ EndState(j).seq = ev.seq /\ EndState(j).seq \in Nat
      BY <1>0, <2>1, <3>2, AppendContinues, AdmittedAfter, JournalEnd, KindSets
    <3>4. EndState(j).phase = "Started"
      <4>1. Len(effects) \in DOMAIN effects
        BY <1>0, <3>1, LastEffect
      <4> QED BY <1>0, <3>1, <3>2, <3>3, <4>1 DEF EffectsBounded
    <3>5. ~ EffectAtRisk(r)
      BY <3>2 DEF EffectAtRisk
    <3> QED BY <1>3, <3>1, <3>2, <3>3, <3>4, <3>5 DEF Lost
  <2>4. ASSUME Lost PROVE Lost' /\ EndState(journal').seq = EndState(journal).seq
    <3>1. j # <<>> /\ EndState(j).phase = "Started" /\ ~ EffectAtRisk(r)
      BY <1>3, <2>4 DEF Lost
    <3>2. ev.kind \notin {"StepCompleted", "StepFailed"} /\ Admits(EndState(j), ev)
      BY <2>1, <3>1 DEF EffectAtRisk
    <3>3. ev.kind = "StepStarted"
      BY <2>1, <3>1, <3>2, AdmittedAfter, EventFields, KindSets DEF OpenPhases
    <3>4. ev.seq = EndState(j).seq
      BY <2>1, <3>2, <3>3, AdmittedAfter, KindSets
    <3>5. StateAfter(ev).phase = "Started" /\ StateAfter(ev).seq = EndState(j).seq
      BY <2>1, <3>3, <3>4, StateTells
    <3> QED BY <1>2, <2>2, <2>4, <3>5 DEF Lost
  <2> QED BY <2>3, <2>4
<1> QED BY <1>4, <1>5

\* The positions whose bodies ran.
RanAt == {effects[k].seq : k \in DOMAIN effects}

Loss == IF Lost THEN 1 ELSE 0

LosesTheEffect == policy.fired /\ policy.at.point = "AfterSideEffect"

\* What the invariant says once the crash has lost the effect.
Repays ==
  \/ Lost /\ EndState(journal).seq = policy.at.seq
  \/ \E i, k \in ArmedStepRuns : i # k

LEMMA CrashInvIs ==
  CrashInv <=> /\ interruptions = IF policy.fired THEN 1 ELSE 0
               /\ IF LosesTheEffect THEN Repays ELSE Len(effects) + Loss <= Cardinality(RanAt)
  BY DEF CrashInv, LosesTheEffect, Repays, Loss, RanAt

LEMMA CrashInvBecomes ==
  CrashInv' <=> /\ interruptions' = IF policy'.fired THEN 1 ELSE 0
                /\ IF LosesTheEffect' THEN Repays' ELSE Len(effects') + Loss' <= Cardinality(RanAt')
  BY DEF CrashInv, LosesTheEffect, Repays, Loss, RanAt

LEMMA EffectsCounted ==
  ASSUME EngineInv
  PROVE  /\ effects \in Seq(Effects) /\ Len(effects) \in Nat /\ DOMAIN effects = 1 .. Len(effects)
         /\ IsFiniteSet(RanAt) /\ Cardinality(RanAt) \in Nat
         /\ Loss \in {0, 1} /\ (Loss = 1 <=> Lost)
<1>1. effects \in Seq(Effects)
  BY DEF EngineInv, IInv, TypeOK
<1>2. IsFiniteSet(RanAt) /\ Cardinality(RanAt) \in Nat
  BY <1>1, PositionsCounted DEF RanAt
<1>3. Loss \in {0, 1} /\ (Loss = 1 <=> Lost)
  BY DEF Loss
<1> QED BY <1>1, <1>2, <1>3

\* A step that runs no body and crashes nowhere costs nothing.
LEMMA QuietCosts ==
  ASSUME EngineInv, CrashInv, NEW e \in Engines, NEW s, Quietly(e, s),
         run[e].pc # "Idle" \/ owner = NoOwner,
         UNCHANGED <<effects, interruptions, policy>>,
         \/ journal' = journal /\ ~ EffectAtRisk(run[e])
         \/ AppendPending(e)
  PROVE  CrashInv'
<1>1. /\ Lost' => Lost
      /\ Lost => Lost' /\ EndState(journal').seq = EndState(journal).seq
  BY LossStays
<1>2. ASSUME LosesTheEffect, Repays PROVE Repays'
  BY <1>1, <1>2 DEF Repays, ArmedStepRuns, Observed
<1>3. ASSUME Len(effects) + Loss <= Cardinality(RanAt)
      PROVE  Len(effects') + Loss' <= Cardinality(RanAt')
  <2>1. RanAt' = RanAt
    BY DEF RanAt
  <2>2. Loss' = 0 \/ Loss' = Loss
    BY <1>1 DEF Loss
  <2> QED BY <1>3, <2>1, <2>2, EffectsCounted
<1>4. LosesTheEffect' = LosesTheEffect
  BY DEF LosesTheEffect
<1> QED BY <1>2, <1>3, <1>4, CrashInvIs, CrashInvBecomes

\* A body that runs again repeats the effect that was lost.
LEMMA BodyCosts ==
  ASSUME EngineInv, CrashInv, NEW e \in Engines, RunBody(e), UNCHANGED policy
  PROVE  CrashInv'
<1> DEFINE j == journal
           p == Position(run[e])
           n == Len(effects) + 1
<1>1. PICK x : /\ effects' = Append(effects, x) /\ x.seq = p /\ x \in Effects
               /\ EffectAtRisk(run'[e])
  <2>1. PICK ev \in {StepCompleted(p, v) : v \in Payloads}
               \cup {StepFailed(p, run[e].attempt, x) : x \in StepErrors} :
          /\ effects' = Append(effects, [seq |-> p, attempt |-> run[e].attempt,
                                         step |-> run[e].step, result |-> ResultOf(ev)])
          /\ run' = [run EXCEPT ![e] = Begin(run[e], ev)]
    BY DEF RunBody, Set
  <2> DEFINE x == [seq |-> p, attempt |-> run[e].attempt, step |-> run[e].step,
                   result |-> ResultOf(ev)]
  <2>2. run \in [Engines -> Runs] /\ run[e] \in Runs
    BY DEF EngineInv, IInv, TypeOK
  <2>3. ev.kind \in {"StepCompleted", "StepFailed"}
    BY <2>1 DEF StepCompleted, StepFailed, Event
  <2>4. run'[e].pc = "Appending" /\ run'[e].pending = ev
    BY <2>1, <2>2, RunShapes
  <2>5. x \in Effects
    <3>1. /\ run[e].attempt \in Attempts /\ run[e].step \in StepNames /\ run[e].seq > 0
      BY CommandPcs DEF EngineInv, IInv, RunAgrees, CheckpointOK, RunBody
    <3>2. p \in Seqs
      BY <2>2, <3>1, PositionInRange
    <3>3. ev \in Events
      BY <2>1, <3>1, <3>2, EventsBuilt
    <3>4. ResultOf(ev) \in Results
      BY <2>3, <3>3, EventFields, KindSets
    <3> HIDE DEF p
    <3> QED BY <3>1, <3>2, <3>4 DEF Effects
  <2> QED BY <2>1, <2>3, <2>4, <2>5 DEF EffectAtRisk
<1>2. /\ journal' = j /\ interruptions' = interruptions /\ j # <<>>
      /\ EndState(j).phase = "Started" /\ EndState(j).seq = p
      /\ ~ EffectAtRisk(run[e]) /\ Continues(j) /\ run[e].pc = "AfterStepStarted"
  BY BodyOfOpenStep DEF EngineInv, RunBody, EffectAtRisk
<1>3. ~ Lost'
  BY <1>1 DEF Lost
<1>4. /\ effects \in Seq(Effects) /\ DOMAIN effects = 1 .. Len(effects) /\ Len(effects) \in Nat
      /\ Len(effects') = n /\ effects'[n] = x /\ DOMAIN effects' = DOMAIN effects \cup {n}
      /\ \A k \in DOMAIN effects : effects'[k] = effects[k] /\ k # n
  <2>1. effects \in Seq(Effects) /\ DOMAIN effects = 1 .. Len(effects) /\ Len(effects) \in Nat
    BY EffectsCounted
  <2> QED BY <1>1, <2>1, AppendProperties
<1>5. ASSUME p \in RanAt PROVE Lost
  <2>1. PICK k \in DOMAIN effects : effects[k].seq = p
    BY <1>5 DEF RanAt
  <2>2. effects # <<>> /\ Len(effects) \in DOMAIN effects
    BY <1>4, <2>1, EmptySeq, LastEffect
  <2>3. effects[Len(effects)].seq = p
    <3>1. EffectsFollowAttempts /\ EffectsBounded(j, effects)
      BY DEF EngineInv, RecordInv
    <3>2. \A i \in DOMAIN effects : effects[i].seq \in Nat
      <4>1. \A i \in DOMAIN effects : effects[i] \in Effects
        BY <1>4, ElementOfSeq
      <4> QED BY <4>1, SeqAssumption DEF Effects, Seqs
    <3>3. CASE k = Len(effects)
      BY <2>1, <3>3
    <3>4. CASE k # Len(effects)
      <4>1. k < Len(effects)
        BY <1>4, <2>1, <2>2, <3>4
      <4>2. effects[k].seq < effects[Len(effects)].seq \/ effects[k].seq = effects[Len(effects)].seq
        BY <2>1, <2>2, <3>1, <4>1 DEF EffectsFollowAttempts
      <4>3. effects[Len(effects)].seq < p \/ effects[Len(effects)].seq = p
        BY <1>2, <2>2, <3>1 DEF EffectsBounded
      <4>4. p \in Nat
        BY <2>1, <3>2
      <4> HIDE DEF p
      <4> QED BY <2>1, <2>2, <3>2, <4>2, <4>3, <4>4
    <3> QED BY <3>3, <3>4
  <2>4. \A f \in Engines : ~ EffectAtRisk(run[f])
    <3>1. \A f \in Engines \ {e} : run[f] = IdleRun
      BY <1>2, OthersIdle DEF EngineInv
    <3> QED BY <1>2, <3>1, RiskOfHolder
  <2> QED BY <1>2, <2>2, <2>3, <2>4 DEF Lost
<1>6. ASSUME Repays PROVE Repays'
  <2>1. \A k \in DOMAIN effects : k \in ArmedStepRuns <=> effects[k].seq = policy.at.seq
    BY DEF ArmedStepRuns, Observed, EffectRecord
  <2>2. \A k \in DOMAIN effects' : k \in ArmedStepRuns' <=> effects'[k].seq = policy.at.seq
    BY DEF ArmedStepRuns, Observed, EffectRecord
  <2>3. ArmedStepRuns \subseteq DOMAIN effects
    BY DEF ArmedStepRuns, Observed
  <2>4. CASE Lost /\ EndState(j).seq = policy.at.seq
    <3>1. Len(effects) \in DOMAIN effects /\ effects[Len(effects)].seq = policy.at.seq
      BY <1>4, <2>4, LastEffect DEF Lost
    <3>2. Len(effects) \in ArmedStepRuns' /\ n \in ArmedStepRuns' /\ n # Len(effects)
      BY <1>1, <1>2, <1>4, <2>2, <2>4, <3>1
    <3> QED BY <3>2 DEF Repays
  <2>5. CASE \E i, k \in ArmedStepRuns : i # k
    <3>1. PICK i \in ArmedStepRuns, k \in ArmedStepRuns : i # k
      BY <2>5
    <3>2. i \in ArmedStepRuns' /\ k \in ArmedStepRuns'
      BY <1>4, <2>1, <2>2, <2>3
    <3> QED BY <3>1, <3>2 DEF Repays
  <2> QED BY <1>6, <2>4, <2>5 DEF Repays
<1>7. ASSUME Len(effects) + Loss <= Cardinality(RanAt)
      PROVE  Len(effects') + Loss' <= Cardinality(RanAt')
  <2>1. RanAt' = RanAt \cup {p}
    BY <1>1, <1>4 DEF RanAt
  <2>2. Cardinality(RanAt') = IF p \in RanAt THEN Cardinality(RanAt) ELSE Cardinality(RanAt) + 1
    <3>1. IsFiniteSet(RanAt)
      BY EffectsCounted
    <3> HIDE DEF p
    <3> QED BY <2>1, <3>1, FS_AddElement
  <2>3. Loss' = 0 /\ (p \in RanAt => Loss = 1)
    BY <1>3, <1>5 DEF Loss
  <2>4. Cardinality(RanAt) \in Nat /\ Loss \in {0, 1} /\ Len(effects) \in Nat
    BY EffectsCounted
  <2> HIDE DEF p
  <2> QED BY <1>4, <1>7, <2>2, <2>3, <2>4
<1>8. LosesTheEffect' = LosesTheEffect
  BY DEF LosesTheEffect
<1> QED BY <1>2, <1>6, <1>7, <1>8, CrashInvIs, CrashInvBecomes

\* The crash loses the effect in the window after the side effect, nothing elsewhere.
LEMMA CrashCosts ==
  ASSUME EngineInv, WindowInv, CrashInv, NEW e \in Engines, Crash(e)
  PROVE  CrashInv'
<1> DEFINE r == run[e]
           j == journal
<1>0. /\ r \in Runs /\ run \in [Engines -> Runs] /\ j \in Seq(Events) /\ RunAgrees(j, r)
      /\ RunSees(j, effects, r)
  BY DEF EngineInv, IInv, TypeOK, RecordInv
<1>1. /\ ~ policy.fired /\ policy' = [policy EXCEPT !.fired = TRUE]
      /\ PointOf(r) = policy.at /\ CrashPointOf(r) # "none" /\ InjectCrash(e)
      /\ interruptions' = interruptions + 1 /\ UNCHANGED <<journal, effects>>
      /\ run' = [run EXCEPT ![e] = Fault(r, "InjectedCrash")]
  BY DEF Crash, Crashes, CrashOnce, Consults, InjectCrash, Interrupt, Set
<1>2. /\ policy'.fired /\ policy'.at = policy.at
      /\ policy.at.point = CrashPointOf(r) /\ policy.at.seq = Position(r)
  BY <1>1 DEF WindowInv, PointOf
<1>3. interruptions = 0 /\ interruptions' = 1 /\ Len(effects) + Loss <= Cardinality(RanAt)
  BY <1>1, CrashInvIs DEF LosesTheEffect
<1>4. r.pc # "Idle"
  BY <1>1, CommandPcs DEF CrashPointOf
<1>5. \A f \in Engines \ {e} : run[f] = IdleRun /\ run'[f] = IdleRun
  BY <1>1, <1>4, OthersStayIdle DEF EngineInv
<1>6. /\ \A f \in Engines : ~ EffectAtRisk(run'[f])
      /\ (\A f \in Engines : ~ EffectAtRisk(run[f])) <=> ~ EffectAtRisk(r)
  <2>1. run'[e].pc = "Workflow"
    BY <1>0, <1>1, RunShapes
  <2>2. ~ EffectAtRisk(IdleRun)
    BY DEF EffectAtRisk, IdleRun
  <2>3. ~ EffectAtRisk(run'[e])
    BY <2>1 DEF EffectAtRisk
  <2> QED BY <1>5, <2>2, <2>3, RiskOfHolder
<1>7. CASE policy.at.point = "AfterSideEffect"
  <2>1. r.pc = "Appending" /\ r.pending.kind = "StepCompleted"
    BY <1>2, <1>7, CommandPcs DEF CrashPointOf
  <2>2. /\ r.pending \in Events /\ j # <<>> /\ Admits(EndState(j), r.pending)
        /\ r.pending.seq = Position(r)
    BY <1>0, <2>1, KindSets DEF RunAgrees, AppendingOK
  <2>3. EndState(j).phase = "Started" /\ EndState(j).seq = Position(r)
    BY <2>1, <2>2, AdmittedAfter, KindSets
  <2>4. effects # <<>> /\ effects[Len(effects)].seq = Position(r)
    BY <1>0, <2>1, <2>2 DEF RunSees, BodyOK, EffectAtRisk
  <2>5. Lost'
    BY <1>1, <1>6, <2>2, <2>3, <2>4 DEF Lost
  <2>6. Repays' /\ LosesTheEffect'
    BY <1>1, <1>2, <1>7, <2>3, <2>5 DEF Repays, LosesTheEffect
  <2> QED BY <1>2, <1>3, <2>6, CrashInvBecomes
<1>8. CASE policy.at.point # "AfterSideEffect"
  <2>1. ~ EffectAtRisk(r)
    BY <1>1, <1>2, <1>8, CommandPcs DEF EffectAtRisk, CrashPointOf
  <2>2. Lost' => Lost
    BY <1>1, <1>6, <2>1 DEF Lost
  <2>3. Loss' = 0 \/ Loss' = Loss
    BY <2>2 DEF Loss
  <2>4. RanAt' = RanAt
    BY <1>1 DEF RanAt
  <2>5. Len(effects') + Loss' <= Cardinality(RanAt')
    BY <1>1, <1>3, <2>3, <2>4, EffectsCounted
  <2>6. ~ LosesTheEffect'
    BY <1>2, <1>8 DEF LosesTheEffect
  <2> QED BY <1>2, <1>3, <2>5, <2>6, CrashInvBecomes
<1> QED BY <1>7, <1>8

LEMMA DriveCosts ==
  ASSUME EngineInv, WindowInv, CrashInv, NEW e \in Engines, Drive(e)
  PROVE  CrashInv'
<1>1. ASSUME \/ \E d \in Definitions, i \in Payloads : Run(e, d, i)
             \/ Recover(e)
      PROVE  CrashInv'
  <2>1. /\ run[e].pc = "Idle" /\ owner = NoOwner
        /\ UNCHANGED <<journal, effects, interruptions, policy>>
    BY <1>1 DEF Run, Recover, RunAcquire, RecoverAcquire
  <2>2. PICK s : run' = [run EXCEPT ![e] = s] /\ s.pc \in {"Starting", "Recovering"}
    <3>1. ASSUME NEW d, NEW i, Run(e, d, i)
          PROVE  \E s : run' = [run EXCEPT ![e] = s] /\ s.pc \in {"Starting", "Recovering"}
      <4> DEFINE s == [IdleRun EXCEPT !.pc = "Starting", !.definition = d, !.input = i]
      <4>1. s.pc = "Starting"
        BY DEF IdleRun
      <4>2. run' = [run EXCEPT ![e] = s]
        BY <3>1 DEF Run, RunAcquire, Set
      <4> HIDE DEF s
      <4> QED BY <4>1, <4>2
    <3>2. ASSUME Recover(e)
          PROVE  \E s : run' = [run EXCEPT ![e] = s] /\ s.pc \in {"Starting", "Recovering"}
      <4> DEFINE s == [IdleRun EXCEPT !.pc = "Recovering", !.definition = journal[1].value.definition]
      <4>1. s.pc = "Recovering"
        BY DEF IdleRun
      <4>2. run' = [run EXCEPT ![e] = s]
        BY <3>2 DEF Recover, RecoverAcquire, Set
      <4> HIDE DEF s
      <4> QED BY <4>1, <4>2
    <3> QED BY <1>1, <3>1, <3>2
  <2>3. Quietly(e, s) /\ ~ EffectAtRisk(run[e])
    BY <2>1, <2>2 DEF Quietly, EffectAtRisk
  <2> QED BY <2>1, <2>2, <2>3, QuietCosts
<1>2. CASE Continue(e)
  <2>0. Proceed(e) /\ policy' = policy
    BY <1>2 DEF Continue
  <2>1. CASE RunBody(e)
    BY <2>0, <2>1, BodyCosts
  <2>2. CASE ~ RunBody(e)
    <3>1. PICK s : Quietly(e, s)
      BY <2>0, <2>2, OnlyBodiesRisk DEF EngineInv
    <3>2. run[e].pc # "Idle" /\ UNCHANGED <<effects, interruptions>>
      BY <2>0, <2>2 DEF Proceed, Enter, StartExisting, StartAbsent, RecoverRejected,
         RecoverTerminal, RecoverRunning, Command, SequenceExhausted, Diverges, ReplayReading,
         ReplayScheduled, BeginCommand, Takes, Issues, Resolve, ReplayAttempt, ReplayFollower,
         RerunStep, Rearm, StartFirstAttempt, Wake, ReturnRecorded, AppendEvent,
         AppendThenCheckpoint, AppendThenReturn, AppendStart, AppendTerminal, Leave,
         FinishFaulted, FinishUnconsumed, Finish, Returns, Update
    <3>3. \/ journal' = journal /\ ~ EffectAtRisk(run[e])
          \/ AppendPending(e)
      <4>1. CASE AppendEvent(e)
        BY <4>1 DEF AppendEvent, AppendThenCheckpoint, AppendThenReturn, AppendStart,
           AppendTerminal, AppendPending
      <4>2. CASE ~ AppendEvent(e)
        BY <2>0, <2>2, <4>2 DEF EffectAtRisk, Proceed, Enter, StartExisting, StartAbsent,
           RecoverRejected, RecoverTerminal, RecoverRunning, Command, SequenceExhausted, Diverges,
           ReplayReading, ReplayScheduled, BeginCommand, Takes, Issues, Resolve, ReplayAttempt,
           ReplayFollower, RerunStep, Rearm, StartFirstAttempt, Wake, ReturnRecorded, Leave,
           FinishFaulted, FinishUnconsumed, Finish, Returns, Update
      <4> QED BY <4>1, <4>2
    <3> QED BY <2>0, <3>1, <3>2, <3>3, QuietCosts
  <2> QED BY <2>1, <2>2
<1> QED BY <1>1, <1>2, CrashCosts DEF Drive

\* Two runs of the armed step among effects that outnumber the steps by one are all
\* of its runs.
LEMMA ArmedTwice ==
  ASSUME NEW i \in ArmedStepRuns, NEW k \in ArmedStepRuns, i # k, EngineInv,
         Len(effects) <= Cardinality(RanAt) + 1
  PROVE  Cardinality(ArmedStepRuns) = 2
<1> DEFINE D == DOMAIN effects
           A == ArmedStepRuns
           rest == D \ {i, k}
           p == policy.at.seq
<1>1. /\ D = 1 .. Len(effects) /\ Len(effects) \in Nat /\ IsFiniteSet(D)
      /\ Cardinality(D) = Len(effects)
  <2>1. D = 1 .. Len(effects) /\ Len(effects) \in Nat
    BY EffectsCounted
  <2>2. IsFiniteSet(1 .. Len(effects)) /\ Cardinality(1 .. Len(effects)) = Len(effects)
    <3> DEFINE n == Len(effects)
    <3>1. n \in Nat BY <2>1
    <3> HIDE DEF n
    <3>2. IsFiniteSet(1 .. n) /\ Cardinality(1 .. n) = IF 1 > n THEN 0 ELSE n - 1 + 1
      BY <3>1, FS_Interval
    <3>3. Cardinality(1 .. n) = n
      BY <3>1, <3>2
    <3> QED BY <3>2, <3>3 DEF n
  <2> QED BY <2>1, <2>2
<1>2. A = {m \in D : effects[m].seq = p}
  BY DEF ArmedStepRuns, Observed, EffectRecord
<1>3. SUFFICES ASSUME NEW m \in A, m \notin {i, k} PROVE FALSE
  <2>1. ASSUME A = {i, k} PROVE Cardinality(A) = 2
    <3>1. IsFiniteSet({i}) /\ Cardinality({i}) = 1
      BY FS_Singleton
    <3>2. Cardinality({i} \cup {k}) = Cardinality({i}) + 1
      BY <3>1, FS_AddElement
    <3>3. A = {i} \cup {k}
      BY <2>1
    <3> HIDE DEF A
    <3> QED BY <3>1, <3>2, <3>3
  <2> QED BY <2>1
<1> DEFINE others == D \ {i, k, m}
           image == {effects[n].seq : n \in others}
<1>4. IsFiniteSet(others) /\ Cardinality(others) = Len(effects) - 3 /\ Cardinality(others) \in Nat
  <2> DEFINE d1 == D \ {i}
             d2 == d1 \ {k}
  <2>1. i \in D /\ k \in D /\ m \in D
    BY <1>2
  <2>2. IsFiniteSet(d1) /\ Cardinality(d1) = Cardinality(D) - 1
    <3> HIDE DEF D
    <3> QED BY <1>1, <2>1, FS_RemoveElement
  <2>3. k \in d1 /\ m \in d1 \ {k}
    BY <1>3, <2>1
  <2>4. IsFiniteSet(d2) /\ Cardinality(d2) = Cardinality(d1) - 1
    <3> HIDE DEF d1
    <3> QED BY <2>2, <2>3, FS_RemoveElement
  <2>5. IsFiniteSet(d2 \ {m}) /\ Cardinality(d2 \ {m}) = Cardinality(d2) - 1
    <3>1. m \in d2 BY <2>3
    <3> HIDE DEF d2
    <3> QED BY <2>4, <3>1, FS_RemoveElement
  <2>6. others = d2 \ {m}
    OBVIOUS
  <2>7. Cardinality(others) \in Nat
    BY <2>5, <2>6, FS_CardinalityType
  <2> HIDE DEF others, d1, d2, D
  <2> QED BY <1>1, <2>2, <2>4, <2>5, <2>6, <2>7
<1>5. IsFiniteSet(image) /\ Cardinality(image) <= Cardinality(others) /\ Cardinality(image) \in Nat
  <2> DEFINE f == [n \in others |-> effects[n].seq]
  <2>1. f \in Surjection(others, image)
    BY DEF Surjection
  <2> HIDE DEF f, others, image
  <2> QED BY <1>4, <2>1, FS_Surjection, FS_CardinalityType
<1>6. RanAt = image \cup {p}
  BY <1>2 DEF RanAt
<1>7. Cardinality(RanAt) <= Cardinality(image) + 1
  <2> HIDE DEF image
  <2>1. Cardinality(image \cup {p}) = IF p \in image THEN Cardinality(image) ELSE Cardinality(image) + 1
    BY <1>5, FS_AddElement
  <2> QED BY <1>5, <1>6, <2>1
<1>8. Cardinality(RanAt) \in Nat /\ Len(effects) \in Nat
  BY EffectsCounted
<1> HIDE DEF others, image
<1> QED BY <1>4, <1>5, <1>7, <1>8

\* Wherever a policy crashes the run, and however many engines recover it under that
\* policy or another: once the execution ended, its effects are those of an
\* uninterrupted one, unless the crash fell between a body's effect and its record,
\* which repeats that one effect once, next to the original (run_live, the windows
\* of failpoints.rs, tests/crash_recovery.rs).
THEOREM OnlyOneWindowRepeats == FailpointsSpec => []OnlyTheWindowAfterTheEffectRepeatsIt
<1> DEFINE Inv == EngineInv /\ TraceInv /\ WindowInv /\ CrashInv
<1>1. FailpointsInit => Inv
  <2> SUFFICES ASSUME FailpointsInit PROVE Inv
    OBVIOUS
  <2>1. EngineInv /\ WindowInv /\ TraceInv
    BY FailpointsStart, InitTraces DEF FailpointsInit
  <2>2. effects = <<>> /\ interruptions = 0 /\ ~ policy.fired
    BY DEF FailpointsInit, Init
  <2>3. Loss = 0 /\ Len(effects) = 0
    BY <2>2 DEF Loss, Lost
  <2>4. Len(effects) + Loss <= Cardinality(RanAt)
    BY <2>1, <2>3, EffectsCounted
  <2>5. CrashInv
    BY <2>2, <2>4, CrashInvIs DEF LosesTheEffect
  <2> QED BY <2>1, <2>5
<1>2. Inv /\ [FailpointsNext]_fvars => Inv'
  <2> SUFFICES ASSUME Inv, [FailpointsNext]_fvars PROVE Inv'
    OBVIOUS
  <2>1. [Next]_vars /\ EngineInv' /\ WindowInv'
    BY FailpointsStep
  <2>2. TraceInv'
    BY <2>1, NextTraces DEF EngineInv
  <2>3. CASE UNCHANGED fvars
    <3>1. Lost' = Lost /\ RanAt' = RanAt
      BY <2>3 DEF Lost, fvars, vars, RanAt
    <3>2. CrashInv' = CrashInv
      BY <2>3, <3>1 DEF fvars, vars, CrashInv, ArmedStepRuns, Observed
    <3> QED BY <2>1, <2>2, <3>2
  <2>4. CASE FailpointsNext
    <3>1. CrashInv'
      BY <2>4, DriveCosts DEF FailpointsNext
    <3> QED BY <2>1, <2>2, <3>1
  <2> QED BY <2>3, <2>4
<1>3. Inv => OnlyTheWindowAfterTheEffectRepeatsIt
  <2> SUFFICES ASSUME Inv, Terminal(journal)
               PROVE  IF LosesTheEffect
                        THEN /\ E!SingleAdjacentDuplicate(Observed, Uninterrupted)
                             /\ Cardinality(ArmedStepRuns) = 2
                        ELSE Observed = Uninterrupted
    BY DEF OnlyTheWindowAfterTheEffectRepeatsIt, LosesTheEffect, E!ExactTrace
  <2>1. ~ Lost /\ Loss = 0
    <3>1. journal \in Seq(Events) /\ journal # <<>>
      BY DEF EngineInv, IInv, TypeOK, Terminal
    <3>2. EndState(journal).phase # "Started"
      BY <3>1, JournalEnd DEF Terminal, Continues, OpenPhases
    <3> QED BY <3>2 DEF Lost, Loss
  <2>2. CASE LosesTheEffect
    <3>1. interruptions = 1 /\ Repays
      BY <2>2, CrashInvIs DEF LosesTheEffect
    <3>2. PICK i \in ArmedStepRuns, k \in ArmedStepRuns : i # k
      BY <2>1, <3>1 DEF Repays
    <3>3. Len(effects) <= Cardinality(RanAt) + 1
      <4>1. Len(effects) + Loss <= Cardinality(RanAt) + interruptions
        BY DEF EngineInv, RecordInv, RepeatsArePaid, Loss, RanAt
      <4> QED BY <2>1, <3>1, <4>1, EffectsCounted
    <3>4. Cardinality(ArmedStepRuns) = 2
      BY <3>2, <3>3, ArmedTwice
    <3>5. E!SingleAdjacentDuplicate(Observed, Uninterrupted)
      BY <3>3, EndedWithOneRepeat DEF EngineInv, RanAt
    <3> QED BY <2>2, <3>4, <3>5
  <2>3. CASE ~ LosesTheEffect
    <3>1. Len(effects) <= Cardinality(RanAt)
      BY <2>1, <2>3, CrashInvIs, EffectsCounted
    <3>2. Observed = Uninterrupted
      BY <3>1, EndedWithNoRepeat DEF EngineInv, RanAt
    <3> QED BY <2>3, <3>2
  <2> QED BY <2>2, <2>3
<1> QED BY <1>1, <1>2, <1>3, PTL DEF FailpointsSpec
=============================================================================
