------------------------- MODULE EngineRecordProofs -------------------------
(***************************************************************************)
(* RecordInv is inductive over IInv, and with it what a workflow has seen  *)
(* is durable, bodies follow their recorded attempts and run at most once  *)
(* an attempt, what is durable was performed, repeats are paid for by      *)
(* interruptions, callers agree, and an execution is sealed only by a run  *)
(* that saw all of it: for every number of engines, code and limit.        *)
(*                                                                         *)
(* The journal only grows, by an event the grammar admits and the code     *)
(* asked for (RecordGrows); the effects only by the attempt the journal    *)
(* ends in (BodyRuns); a run sees no more than one of the two grow by.     *)
(* Deterministic code, run over the record it wrote, issues what it issued *)
(* before, so it never diverges from it.                                   *)
(***************************************************************************)
EXTENDS EngineRecord, EngineProofs, FiniteSetTheorems

-----------------------------------------------------------------------------
(* The state at the journal's end.                                         *)

\* The state HistoryState::advance leaves tells the event's kind and fields.
LEMMA StateTells ==
  ASSUME NEW ev \in Events
  PROVE  LET st == StateAfter(ev)
         IN /\ st.seq \in Nat
            /\ st.phase = "Started" <=> ev.kind = "StepStarted"
            /\ st.phase = "Scheduled" <=> ev.kind = "StepScheduled"
            /\ st.phase = "Timer" <=> ev.kind = "TimerScheduled"
            /\ st.phase = "Ready" <=> ev.kind \in SettlingKinds \cup {"ExecutionStarted"}
            /\ st.phase \in {"Completed", "Failed"} <=> ev.kind \in TerminalKinds
            /\ st.phase \in OpenPhases \cup {"Ready", "Completed", "Failed"}
            /\ ev.kind \in {"StepScheduled", "StepStarted", "TimerScheduled"} => st.seq = ev.seq
            /\ ev.kind = "StepStarted" => st.attempt = ev.attempt
            /\ ev.kind = "ExecutionStarted" => st.seq = 0
            /\ ev.kind \in SettlingKinds => st.seq = ev.seq + 1
<1> DEFINE st == StateAfter(ev)
<1>0. ev.seq \in Nat
  BY EventFields, SeqAssumption DEF Seqs
<1>1. CASE ev.kind = "ExecutionStarted"
  BY <1>0, <1>1, KindSets, AfterEvent DEF Ready, HistoryState, OpenPhases
<1>2. CASE ev.kind \in {"StepScheduled", "StepStarted", "TimerScheduled"}
  BY <1>0, <1>2, KindSets, AfterEvent DEF Ready, HistoryState, OpenPhases
<1>3. CASE ev.kind \in SettlingKinds
  BY <1>0, <1>3, KindSets, AfterEvent DEF Ready, HistoryState, OpenPhases
<1>4. CASE ev.kind \in TerminalKinds
  <2>1. st = HistoryState("Completed", 0, 0) \/ st = HistoryState("Failed", 0, 0)
    BY <1>4, KindSets DEF StateAfter
  <2> QED BY <1>4, <2>1, KindSets DEF HistoryState, OpenPhases
<1> QED BY <1>1, <1>2, <1>3, <1>4, EventFields, KindSets

\* What an admitted event says of the state before it (HistoryState::advance).
LEMMA AdmittedAfter ==
  ASSUME NEW st, NEW ev \in Events, Admits(st, ev)
  PROVE  /\ ev.kind # "ExecutionStarted"
         /\ st.phase \in OpenPhases \cup {"Ready"}
         /\ ev.kind \in CommandRecordKinds \cup TerminalKinds => st.phase = "Ready"
         /\ ev.kind = "StepStarted" =>
              st.phase \in {"Scheduled", "Started"} /\ ev.attempt = st.attempt + 1
         /\ ev.kind \in {"StepCompleted", "StepFailed"} => st.phase = "Started"
         /\ ev.kind = "TimerFired" => st.phase = "Timer"
         /\ ev.kind \in PositionedKinds => ev.seq = st.seq
<1> USE KindSets, Predecessors, EventFields
    DEF Admits, AdvanceError, Unexpected, Misplaced, Misnumbered, OpenPhases
<1>1. ev.kind # "ExecutionStarted" /\ st.phase \in OpenPhases \cup {"Ready"}
  OBVIOUS
<1>2. ev.kind \in CommandRecordKinds \cup TerminalKinds => st.phase = "Ready"
  OBVIOUS
<1>3. ev.kind = "StepStarted" =>
        st.phase \in {"Scheduled", "Started"} /\ ev.attempt = st.attempt + 1
  OBVIOUS
<1>4. /\ ev.kind \in {"StepCompleted", "StepFailed"} => st.phase = "Started"
      /\ ev.kind = "TimerFired" => st.phase = "Timer"
  OBVIOUS
<1>5. ev.kind \in PositionedKinds => ev.seq = st.seq
  OBVIOUS
<1> QED BY <1>1, <1>2, <1>3, <1>4, <1>5

\* A journal that goes on does not end in a terminal state, and tells what it
\* ends in.
LEMMA JournalEnd ==
  ASSUME NEW j \in Seq(Events), j # <<>>
  PROVE  /\ Len(j) \in DOMAIN j /\ j[Len(j)] \in Events
         /\ EndState(j) = StateAfter(j[Len(j)])
         /\ EndState(j).seq \in Nat
         /\ Continues(j) <=> EndState(j).phase \in OpenPhases \cup {"Ready"}
<1>1. Len(j) \in DOMAIN j /\ j[Len(j)] \in Events
  BY EmptySeq, ElementOfSeq
<1>2. Terminal(j) <=> EndState(j).phase \in {"Completed", "Failed"}
  BY <1>1, StateTells DEF Terminal, EndState
<1>3. \A p \in OpenPhases \cup {"Ready"} : p \notin {"Completed", "Failed"}
  BY DEF OpenPhases
<1> QED BY <1>1, <1>2, <1>3, StateTells DEF EndState, Continues

\* Nothing is admitted after a terminal event.
LEMMA AppendContinues ==
  ASSUME NEW j \in Seq(Events), j # <<>>, NEW ev \in Events, Admits(EndState(j), ev)
  PROVE  Continues(j)
  BY JournalEnd, AdmittedAfter

-----------------------------------------------------------------------------
(* The journal.                                                            *)

\* An append keeps what is there and adds one event at the end.
LEMMA AppendedAt ==
  ASSUME NEW j \in Seq(Events), NEW ev \in Events
  PROVE  LET k == Append(j, ev)
         IN /\ k \in Seq(Events) /\ k # <<>>
            /\ DOMAIN k = DOMAIN j \cup {Len(j) + 1}
            /\ Len(j) + 1 \notin DOMAIN j /\ Len(k) = Len(j) + 1
            /\ k[Len(j) + 1] = ev
            /\ \A i \in DOMAIN j : k[i] = j[i]
            /\ \A i \in DOMAIN j : j[i] \in Events
            /\ j # <<>> => 1 \in DOMAIN j /\ k[1] = j[1]
            /\ j = <<>> => k[1] = ev
            /\ EndState(k) = StateAfter(ev)
<1> DEFINE k == Append(j, ev)
<1>1. /\ k \in Seq(Events) /\ k # <<>> /\ Len(k) = Len(j) + 1
      /\ k[Len(j) + 1] = ev /\ \A i \in 1 .. Len(j) : k[i] = j[i]
  BY AppendProperties
<1>2. Len(j) \in Nat /\ DOMAIN j = 1 .. Len(j) /\ DOMAIN k = 1 .. Len(k)
  BY <1>1
<1>3. \A i \in DOMAIN j : j[i] \in Events
  BY <1>2, ElementOfSeq
<1>4. j # <<>> => 1 \in DOMAIN j
  BY <1>2, EmptySeq
<1>5. j = <<>> => Len(j) = 0
  BY EmptySeq
<1>6. DOMAIN k = DOMAIN j \cup {Len(j) + 1} /\ Len(j) + 1 \notin DOMAIN j
  BY <1>1, <1>2
<1>7. EndState(k) = StateAfter(ev)
  BY <1>1 DEF EndState
<1> QED BY <1>1, <1>2, <1>3, <1>4, <1>5, <1>6, <1>7

\* The result at a position that is settled once is the one that settles it.
LEMMA AnswerIs ==
  ASSUME NEW j, SettledOnce(j), NEW i \in DOMAIN j, NEW q, Settles(j[i], q)
  PROVE  AnswerAt(j, q) = ResultOf(j[i])
<1>1. \A m \in DOMAIN j : Settles(j[m], q) => m = i
  BY DEF SettledOnce, Settles
<1> QED BY <1>1 DEF AnswerAt

\* What a run has seen is what the journal answers: two runs that have seen as
\* many results have seen the same ones.
LEMMA SeenUnique ==
  ASSUME NEW j, SettledOnce(j), NEW obs \in Seq(Results), Seen(j, obs)
  PROVE  obs = AnswersTo(j, Len(obs))
<1>1. ASSUME NEW k \in DOMAIN obs PROVE AnswerAt(j, k - 1) = obs[k]
  <2>1. PICK i \in DOMAIN j : Settles(j[i], k - 1) /\ ResultOf(j[i]) = obs[k]
    BY DEF Seen
  <2> QED BY <2>1, AnswerIs
<1> QED BY <1>1 DEF AnswersTo

\* An append takes nothing back from a run.
LEMMA SeenGrows ==
  ASSUME NEW j \in Seq(Events), NEW ev \in Events, NEW obs, Seen(j, obs)
  PROVE  Seen(Append(j, ev), obs)
  BY AppendedAt DEF Seen

\* The answers to the positions settled so far stay.
LEMMA AnswersStay ==
  ASSUME NEW j \in Seq(Events), NEW ev \in Events, NEW n \in Nat,
         SettledOnce(Append(j, ev)), SettledOnce(j),
         \A q \in Nat : q < n => \E i \in DOMAIN j : Settles(j[i], q)
  PROVE  AnswersTo(Append(j, ev), n) = AnswersTo(j, n)
<1> DEFINE k == Append(j, ev)
<1>1. ASSUME NEW m \in 1 .. n PROVE AnswerAt(k, m - 1) = AnswerAt(j, m - 1)
  <2>1. m - 1 \in Nat /\ m - 1 < n
    OBVIOUS
  <2>2. PICK i \in DOMAIN j : Settles(j[i], m - 1)
    BY <2>1
  <2>3. i \in DOMAIN k /\ k[i] = j[i]
    BY AppendedAt
  <2>4. AnswerAt(j, m - 1) = ResultOf(j[i])
    BY <2>2, AnswerIs
  <2>5. AnswerAt(k, m - 1) = ResultOf(k[i])
    <3> HIDE DEF k
    <3> QED BY <2>2, <2>3, AnswerIs DEF k
  <2> QED BY <2>3, <2>4, <2>5
<1> QED BY <1>1 DEF AnswersTo

\* No position is settled twice.
LEMMA SettledOnceGrows ==
  ASSUME NEW j \in Seq(Events), j # <<>>, RecordOK(j),
         NEW ev \in Events, Admits(EndState(j), ev)
  PROVE  SettledOnce(Append(j, ev))
<1> DEFINE k == Append(j, ev)
<1>1. Continues(j) /\ EndState(j).seq \in Nat
  BY AppendContinues, JournalEnd
<1>2. \A i \in DOMAIN j : j[i].kind \in SettlingKinds => j[i].seq < EndState(j).seq
  BY <1>1 DEF RecordOK, SettledInOrder
<1>3. ev.kind \in SettlingKinds => ev.seq = EndState(j).seq
  BY AdmittedAfter, KindSets
<1>4. \A i \in DOMAIN j : j[i].seq \in Nat
  BY AppendedAt, EventFields, SeqAssumption DEF Seqs
<1>5. ASSUME NEW a \in DOMAIN k, NEW b \in DOMAIN k,
             k[a].kind \in SettlingKinds, k[b].kind \in SettlingKinds, k[a].seq = k[b].seq
      PROVE  a = b
  <2>1. CASE a \in DOMAIN j /\ b \in DOMAIN j
    BY <1>5, <2>1, AppendedAt DEF RecordOK, SettledOnce
  <2>2. CASE a \in DOMAIN j /\ b = Len(j) + 1
    <3>1. k[a] = j[a] /\ k[b] = ev
      BY <2>2, AppendedAt
    <3> HIDE DEF k
    <3> QED BY <1>1, <1>2, <1>3, <1>4, <1>5, <2>2, <3>1
  <2>3. CASE a = Len(j) + 1 /\ b \in DOMAIN j
    <3>1. k[a] = ev /\ k[b] = j[b]
      BY <2>3, AppendedAt
    <3> HIDE DEF k
    <3> QED BY <1>1, <1>2, <1>3, <1>4, <1>5, <2>3, <3>1
  <2> QED BY <2>1, <2>2, <2>3, AppendedAt
<1> QED BY <1>5 DEF SettledOnce

\* Positions are settled in order, one by one.
LEMMA SettledInOrderGrows ==
  ASSUME NEW j \in Seq(Events), j # <<>>, RecordOK(j),
         NEW ev \in Events, Admits(EndState(j), ev)
  PROVE  SettledInOrder(Append(j, ev))
<1> DEFINE k == Append(j, ev)
           st == EndState(j)
           t == StateAfter(ev)
<1>1. Continues(j) /\ st.seq \in Nat /\ t.seq \in Nat
  BY AppendContinues, JournalEnd, StateTells
<1>2. /\ \A i \in DOMAIN j : j[i].kind \in SettlingKinds => j[i].seq < st.seq
      /\ \A q \in Seqs : q < st.seq => \E i \in DOMAIN j : Settles(j[i], q)
  BY <1>1 DEF RecordOK, SettledInOrder
<1>4. \A i \in DOMAIN j : j[i].seq \in Nat
  BY AppendedAt, EventFields, SeqAssumption DEF Seqs
<1>5. EndState(k) = t /\ DOMAIN k = DOMAIN j \cup {Len(j) + 1} /\ k[Len(j) + 1] = ev
      /\ \A i \in DOMAIN j : k[i] = j[i]
  BY AppendedAt
<1>6. CASE ev.kind \in SettlingKinds
  <2>1. ev.seq = st.seq /\ t.seq = st.seq + 1
    BY <1>6, AdmittedAfter, StateTells, KindSets
  <2>2. Settles(ev, st.seq)
    BY <1>6, <2>1 DEF Settles
  <2> HIDE DEF k, st, t
  <2>3. \A i \in DOMAIN k : k[i].kind \in SettlingKinds => k[i].seq < t.seq
    BY <1>1, <1>2, <1>4, <1>5, <2>1
  <2>4. ASSUME NEW q \in Seqs, q < t.seq PROVE \E i \in DOMAIN k : Settles(k[i], q)
    <3>1. q \in Nat BY SeqAssumption DEF Seqs
    <3>2. q < st.seq \/ q = st.seq BY <1>1, <2>1, <2>4, <3>1
    <3> QED BY <1>2, <1>5, <2>2, <3>2
  <2> QED BY <1>5, <2>3, <2>4 DEF SettledInOrder, k
<1>7. CASE ev.kind \in {"StepScheduled", "StepStarted", "TimerScheduled"}
  <2>1. ev.seq = st.seq /\ t.seq = st.seq /\ ev.kind \notin SettlingKinds
    BY <1>7, AdmittedAfter, StateTells, KindSets
  <2> HIDE DEF k, st, t
  <2>2. /\ \A i \in DOMAIN k : k[i].kind \in SettlingKinds => k[i].seq < t.seq
        /\ \A q \in Seqs : q < t.seq => \E i \in DOMAIN k : Settles(k[i], q)
    BY <1>2, <1>5, <2>1
  <2> QED BY <1>5, <2>2 DEF SettledInOrder, k
<1>8. CASE ev.kind \in TerminalKinds
  BY <1>8, AppendedAt DEF SettledInOrder, Continues, Terminal
<1> QED BY <1>6, <1>7, <1>8, AdmittedAfter, EventFields, KindSets

\* A command is opened once.
LEMMA OpenedOnceGrows ==
  ASSUME NEW j \in Seq(Events), j # <<>>, RecordOK(j),
         NEW ev \in Events, Admits(EndState(j), ev)
  PROVE  OpenedOnce(Append(j, ev))
<1> DEFINE k == Append(j, ev)
           st == EndState(j)
           t == StateAfter(ev)
           n == Len(j) + 1
<1>1. Continues(j) /\ st.seq \in Nat /\ t.seq \in Nat
  BY AppendContinues, JournalEnd, StateTells
<1>2. /\ st.phase \in OpenPhases => \E i \in DOMAIN j : Opens(j, i)
      /\ \A i \in DOMAIN j : j[i].kind \in OpeningKinds =>
           j[i].seq < st.seq \/ (j[i].seq = st.seq /\ st.phase \in OpenPhases)
  BY <1>1 DEF RecordOK, OpenedOnce
<1>3. OpeningKinds = {"StepScheduled", "TimerScheduled"} /\ "Ready" \notin OpenPhases
      /\ {"Scheduled", "Started", "Timer"} = OpenPhases
  BY DEF OpeningKinds, OpenPhases
<1>4. \A i \in DOMAIN j : j[i].seq \in Nat
  BY AppendedAt, EventFields, SeqAssumption DEF Seqs
<1>5. EndState(k) = t /\ DOMAIN k = DOMAIN j \cup {n} /\ k[n] = ev
      /\ \A i \in DOMAIN j : k[i] = j[i]
  BY AppendedAt
<1>6. CASE ev.kind \in SettlingKinds
  <2>1. ev.seq = st.seq /\ t.seq = st.seq + 1 /\ t.phase = "Ready" /\ ev.kind \notin OpeningKinds
    BY <1>3, <1>6, AdmittedAfter, StateTells, KindSets
  <2> HIDE DEF k, st, t, n
  <2>2. \A i \in DOMAIN k : k[i].kind \in OpeningKinds => k[i].seq < t.seq
    BY <1>1, <1>2, <1>4, <1>5, <2>1
  <2> QED BY <1>3, <1>5, <2>1, <2>2 DEF OpenedOnce, k
<1>7. CASE ev.kind \in OpeningKinds
  <2>1. /\ ev.seq = st.seq /\ t.seq = st.seq /\ st.phase = "Ready" /\ t.phase \in OpenPhases
        /\ ev.kind = IF t.phase = "Timer" THEN "TimerScheduled" ELSE "StepScheduled"
    BY <1>3, <1>7, AdmittedAfter, StateTells, KindSets
  <2> HIDE DEF k, st, t, n
  <2>2. \A i \in DOMAIN j : j[i].kind \in OpeningKinds => j[i].seq < st.seq
    BY <1>2, <1>3, <2>1
  <2>3. \A i \in DOMAIN k : k[i].kind \in OpeningKinds /\ k[i].seq = t.seq => i = n
    BY <1>1, <1>4, <1>5, <2>1, <2>2
  <2>4. Opens(k, n)
    BY <1>5, <2>1, <2>3 DEF Opens
  <2>5. \A i \in DOMAIN k : k[i].kind \in OpeningKinds =>
          k[i].seq < t.seq \/ (k[i].seq = t.seq /\ t.phase \in OpenPhases)
    BY <1>5, <2>1, <2>2
  <2> QED BY <1>5, <2>4, <2>5 DEF OpenedOnce, k
<1>8. CASE ev.kind = "StepStarted"
  <2>1. /\ ev.seq = st.seq /\ t.seq = st.seq /\ st.phase \in {"Scheduled", "Started"}
        /\ t.phase = "Started" /\ ev.kind \notin OpeningKinds
    BY <1>3, <1>8, AdmittedAfter, StateTells, KindSets
  <2> HIDE DEF k, st, t, n
  <2>2. PICK i \in DOMAIN j : Opens(j, i)
    BY <1>2, <1>3, <2>1
  <2>3. Opens(k, i)
    <3>1. /\ j[i].kind = "StepScheduled" /\ j[i].seq = st.seq
          /\ \A m \in DOMAIN j : j[m].kind \in OpeningKinds /\ j[m].seq = st.seq => m = i
      BY <2>1, <2>2 DEF Opens, st
    <3>2. \A m \in DOMAIN k : k[m].kind \in OpeningKinds /\ k[m].seq = t.seq => m = i
      BY <1>5, <2>1, <3>1
    <3> QED BY <1>5, <2>1, <3>1, <3>2 DEF Opens
  <2>4. \A m \in DOMAIN k : k[m].kind \in OpeningKinds =>
          k[m].seq < t.seq \/ (k[m].seq = t.seq /\ t.phase \in OpenPhases)
    BY <1>2, <1>3, <1>5, <2>1
  <2> QED BY <1>5, <2>3, <2>4 DEF OpenedOnce, k
<1>9. CASE ev.kind \in TerminalKinds
  BY <1>9, AppendedAt DEF OpenedOnce, Continues, Terminal
<1> QED BY <1>3, <1>6, <1>7, <1>8, <1>9, AdmittedAfter, EventFields, KindSets

\* Every command on record stays one the code issues after the results before it.
LEMMA IssuedByCodeGrows ==
  ASSUME NEW j \in Seq(Events), j # <<>>, RecordOK(j),
         NEW ev \in Events, Admits(EndState(j), ev),
         ev.kind \in CommandRecordKinds =>
           \E cmd \in Commands :
             /\ cmd \in Code(j[1].value.definition, j[1].value.input, AnswersTo(j, ev.seq))
             /\ Matches(ev, cmd)
  PROVE  IssuedByCode(Append(j, ev))
<1> DEFINE k == Append(j, ev)
           st == EndState(j)
           n == Len(j) + 1
<1>1. Continues(j) /\ st.seq \in Nat
  BY AppendContinues, JournalEnd
<1>2. /\ \A i \in DOMAIN j : j[i].kind \in SettlingKinds => j[i].seq < st.seq
      /\ \A q \in Seqs : q < st.seq => \E i \in DOMAIN j : Settles(j[i], q)
      /\ \A i \in DOMAIN j : j[i].kind \in OpeningKinds => j[i].seq < st.seq \/ j[i].seq = st.seq
  BY <1>1 DEF RecordOK, SettledInOrder, OpenedOnce
<1>3. CommandRecordKinds \subseteq SettlingKinds \cup OpeningKinds
      /\ CommandRecordKinds \subseteq PositionedKinds
  BY KindSets DEF OpeningKinds
<1>4. \A i \in DOMAIN j : j[i].seq \in Seqs
  BY AppendedAt, EventFields
<1>5. DOMAIN k = DOMAIN j \cup {n} /\ k[n] = ev /\ k[1] = j[1]
      /\ \A i \in DOMAIN j : k[i] = j[i]
  BY AppendedAt
<1>6. SettledOnce(k) /\ SettledOnce(j)
  BY SettledOnceGrows DEF RecordOK
<1>7. ASSUME NEW q \in Seqs, q <= st.seq PROVE AnswersTo(k, q) = AnswersTo(j, q)
  <2>1. q \in Nat /\ \A m \in Nat : m < q => m \in Seqs /\ m < st.seq
    BY <1>1, <1>7, SeqAssumption DEF Seqs
  <2> QED BY <1>2, <1>6, <2>1, AnswersStay
<1>8. ASSUME NEW i \in DOMAIN j, j[i].kind \in CommandRecordKinds PROVE j[i].seq <= st.seq
  BY <1>1, <1>2, <1>3, <1>4, <1>8, SeqAssumption DEF Seqs
<1>9. ASSUME NEW i \in DOMAIN k, k[i].kind \in CommandRecordKinds
      PROVE  \E cmd \in Commands :
               /\ cmd \in Code(k[1].value.definition, k[1].value.input, AnswersTo(k, k[i].seq))
               /\ Matches(k[i], cmd)
  <2>1. CASE i \in DOMAIN j
    <3>1. k[i] = j[i] /\ j[i].kind \in CommandRecordKinds
      BY <1>5, <1>9, <2>1
    <3>2. AnswersTo(k, j[i].seq) = AnswersTo(j, j[i].seq)
      BY <1>4, <1>7, <1>8, <2>1, <3>1
    <3>3. \E cmd \in Commands :
            /\ cmd \in Code(j[1].value.definition, j[1].value.input, AnswersTo(j, j[i].seq))
            /\ Matches(j[i], cmd)
      BY <2>1, <3>1 DEF RecordOK, IssuedByCode
    <3> QED BY <1>5, <3>1, <3>2, <3>3
  <2>2. CASE i = n
    <3>1. k[i] = ev /\ ev.kind \in CommandRecordKinds
      BY <1>5, <1>9, <2>2
    <3>2. ev.seq = st.seq /\ ev.seq \in Seqs /\ ev.seq <= st.seq
      BY <1>1, <1>3, <3>1, AdmittedAfter, EventFields
    <3>3. AnswersTo(k, ev.seq) = AnswersTo(j, ev.seq)
      BY <1>7, <3>2
    <3> QED BY <1>5, <3>1, <3>3
  <2> QED BY <1>5, <2>1, <2>2
<1> QED BY <1>9 DEF IssuedByCode

\* The record stays in order under every append the grammar admits and the code
\* asked for (HistoryState::advance, resolve_*).
LEMMA RecordGrows ==
  ASSUME NEW j \in Seq(Events), j # <<>>, RecordOK(j),
         NEW ev \in Events, Admits(EndState(j), ev),
         ev.kind \in CommandRecordKinds =>
           \E cmd \in Commands :
             /\ cmd \in Code(j[1].value.definition, j[1].value.input, AnswersTo(j, ev.seq))
             /\ Matches(ev, cmd)
  PROVE  RecordOK(Append(j, ev))
  BY SettledOnceGrows, SettledInOrderGrows, OpenedOnceGrows, IssuedByCodeGrows DEF RecordOK

\* A start record alone is in order.
LEMMA RecordStarts ==
  ASSUME NEW ev \in Events, ev.kind = "ExecutionStarted"
  PROVE  RecordOK(Append(<<>>, ev))
<1> DEFINE j == <<>>
           k == Append(j, ev)
<1>1. j \in Seq(Events) /\ DOMAIN j = {}
  BY EmptySeq
<1> HIDE DEF j
<1>2. /\ EndState(k) = StateAfter(ev)
      /\ DOMAIN k = DOMAIN j \cup {Len(j) + 1} /\ k[Len(j) + 1] = ev
  BY <1>1, AppendedAt
<1>3. ev.kind \notin SettlingKinds \cup CommandRecordKinds \cup OpeningKinds
  BY KindSets DEF OpeningKinds
<1>4. StateAfter(ev).seq = 0 /\ StateAfter(ev).phase = "Ready" /\ "Ready" \notin OpenPhases
  BY StateTells DEF OpenPhases
<1> HIDE DEF k
<1>5. \A i \in DOMAIN k : k[i] = ev
  BY <1>1, <1>2
<1>6. SettledInOrder(k)
  BY <1>2, <1>3, <1>4, <1>5, SeqAssumption DEF SettledInOrder, Seqs
<1>7. SettledOnce(k) /\ OpenedOnce(k) /\ IssuedByCode(k)
  BY <1>2, <1>3, <1>4, <1>5 DEF SettledOnce, OpenedOnce, IssuedByCode
<1> QED BY <1>6, <1>7 DEF RecordOK, k, j

\* A record without events is in order.
LEMMA RecordEmpty == RecordOK(<<>>)
<1>1. DOMAIN <<>> = {} /\ ~ Continues(<<>>)
  BY EmptySeq DEF Continues
<1> QED BY <1>1 DEF RecordOK, SettledOnce, SettledInOrder, OpenedOnce, IssuedByCode

-----------------------------------------------------------------------------
(* The effects.                                                            *)

\* The last of the bodies that ran is the one furthest on.
LEMMA LastEffect ==
  ASSUME NEW performed \in Seq(Effects), performed # <<>>
  PROVE  Len(performed) \in DOMAIN performed /\ performed[Len(performed)] \in Effects
  BY EmptySeq, ElementOfSeq

\* The positions whose bodies ran can be counted.
LEMMA PositionsCounted ==
  ASSUME NEW performed \in Seq(Effects)
  PROVE  LET at == {performed[k].seq : k \in DOMAIN performed}
         IN IsFiniteSet(at) /\ Cardinality(at) \in Nat
<1> DEFINE at == {performed[k].seq : k \in DOMAIN performed}
<1>1. ASSUME NEW k \in DOMAIN performed PROVE performed[k].seq \in Seqs
  <2>1. performed[k] \in Effects
    BY ElementOfSeq
  <2> QED BY <2>1 DEF Effects
<1>2. at \subseteq 0 .. MaxSeq
  BY <1>1 DEF Seqs
<1>3. IsFiniteSet(0 .. MaxSeq)
  <2>1. MaxSeq \in Int BY SeqAssumption
  <2> QED BY <2>1, FS_Interval
<1> HIDE DEF at
<1>4. IsFiniteSet(at)
  BY <1>2, <1>3, FS_Subset
<1> QED BY <1>4, FS_CardinalityType DEF at

\* What the journal's growth leaves bounded: an attempt begins only after the
\* bodies of the one before, a position only after those of earlier ones.
LEMMA EffectsBoundedGrow ==
  ASSUME NEW j \in Seq(Events), j # <<>>, NEW ev \in Events, Admits(EndState(j), ev),
         NEW performed \in Seq(Effects), EffectsBounded(j, performed)
  PROVE  EffectsBounded(Append(j, ev), performed)
<1> DEFINE st == EndState(j)
           t == StateAfter(ev)
<1>1. Continues(j) /\ st.seq \in Nat /\ t.seq \in Nat
  BY AppendContinues, JournalEnd, StateTells
<1>2. EndState(Append(j, ev)) = t
  BY AppendedAt
<1>3. ASSUME NEW k \in DOMAIN performed, Continues(Append(j, ev))
      PROVE  \/ performed[k].seq < t.seq
             \/ /\ t.phase = "Started"
                /\ performed[k].seq = t.seq
                /\ performed[k].attempt <= t.attempt
  <2> DEFINE q == performed[k].seq
             a == performed[k].attempt
  <2>1. performed[k] \in Effects
    BY ElementOfSeq
  <2>2. q \in Nat /\ a \in Nat
    BY <2>1, SeqAssumption, AttemptAssumption DEF Effects, Seqs, Attempts
  <2>3. q < st.seq \/ (st.phase = "Started" /\ q = st.seq /\ a <= st.attempt)
    BY <1>1 DEF EffectsBounded
  <2>4. ev.kind \notin TerminalKinds
    BY <1>3, AppendedAt DEF Continues, Terminal
  <2> HIDE DEF st, t, q, a
  <2>5. CASE ev.kind \in SettlingKinds
    <3>1. t.seq = st.seq + 1
      BY <2>5, AdmittedAfter, StateTells, KindSets DEF st, t
    <3> QED BY <1>1, <2>2, <2>3, <3>1 DEF q, a
  <2>6. CASE ev.kind \in {"StepScheduled", "TimerScheduled"}
    <3>1. t.seq = st.seq /\ st.phase = "Ready"
      BY <2>6, AdmittedAfter, StateTells, KindSets DEF st, t
    <3> QED BY <2>3, <3>1 DEF q, a
  <2>7. CASE ev.kind = "StepStarted"
    <3>1. /\ t.seq = st.seq /\ t.phase = "Started" /\ t.attempt = st.attempt + 1
          /\ t.attempt \in Nat
      <4>1. ev.attempt \in Nat BY <2>7, EventFields, AttemptAssumption DEF Attempts
      <4> QED BY <2>7, <4>1, AdmittedAfter, StateTells, KindSets DEF st, t
    <3>2. CASE q < st.seq
      BY <3>1, <3>2 DEF q
    <3>3. CASE st.phase = "Started" /\ q = st.seq /\ a <= st.attempt
      <4>1. st.attempt \in Nat
        <5>1. j[Len(j)] \in Events /\ st = StateAfter(j[Len(j)])
          BY JournalEnd DEF st
        <5>2. j[Len(j)].kind = "StepStarted" /\ st.attempt = j[Len(j)].attempt
          BY <3>3, <5>1, StateTells
        <5> QED BY <5>1, <5>2, EventFields, AttemptAssumption
      <4> QED BY <2>2, <3>1, <3>3, <4>1 DEF q, a
    <3> QED BY <2>3, <3>2, <3>3
  <2> QED BY <2>4, <2>5, <2>6, <2>7, AdmittedAfter, EventFields, KindSets
<1> QED BY <1>2, <1>3 DEF EffectsBounded

-----------------------------------------------------------------------------
(* What a run sees.                                                        *)

\* Two runs of the same invocation that have seen the same results.
SameView(r, s) ==
  s.definition = r.definition /\ s.input = r.input /\ s.obs = r.obs

\* The run's results, its invocation and its right to replay are on record.
Grounded(j, r) ==
  /\ Seen(j, r.obs)
  /\ j # <<>> => j[1].value = InvocationOf(r)
  /\ r.mode = "Replaying" => ~ Terminal(j)

\* The phases a command in progress can be in.
LEMMA CommandPcs ==
  {CheckpointAfter[k] : k \in DOMAIN CheckpointAfter} =
    {"AfterStepScheduled", "AfterStepStarted", "AfterStepCompleted",
     "AfterTimerScheduled", "AfterTimerFired"}
  BY DEF CheckpointAfter

\* An engine with no run sees nothing.
LEMMA IdleSees ==
  ASSUME NEW j, NEW performed
  PROVE  RunSees(j, performed, IdleRun)
<1> DEFINE r == IdleRun
<1>1. r.pc = "Idle" /\ r.mode = "Live" /\ r.obs = <<>> /\ r.seq = 0
  BY DEF IdleRun
<1>2. DOMAIN <<>> = {} /\ Len(<<>>) = 0
  BY EmptySeq
<1> HIDE DEF r
<1>3. ObservedOK(j, r)
  BY <1>1, <1>2, CommandPcs DEF ObservedOK, Seen, InCommand
<1> QED BY <1>1, <1>3
     DEF RunSees, InvocationOK, PendingIssued, BodyOK, EffectAtRisk, RecordedOK, r

\* A run past its entry is grounded.
LEMMA GroundedRun ==
  ASSUME NEW j, NEW performed, NEW r, RunSees(j, performed, r),
         r.pc \notin {"Idle", "Starting", "Recovering"}
  PROVE  Grounded(j, r)
  BY DEF RunSees, ObservedOK, InvocationOK, RecordedOK, Grounded

\* Changing phase, cursor or health, or going live, keeps a run grounded.
LEMMA GroundedKept ==
  ASSUME NEW j, NEW r, NEW s, Grounded(j, r), SameView(r, s), s.mode \in {r.mode, "Live"}
  PROVE  Grounded(j, s)
  BY DEF Grounded, SameView, InvocationOf

\* A live run stays grounded when the journal goes on.
LEMMA GroundedGrows ==
  ASSUME NEW j \in Seq(Events), j # <<>>, NEW ev \in Events, NEW r, NEW s,
         Grounded(j, r), SameView(r, s), s.mode = "Live"
  PROVE  Grounded(Append(j, ev), s)
<1>1. Append(j, ev) # <<>> /\ Append(j, ev)[1] = j[1]
  BY AppendedAt
<1>2. Seen(Append(j, ev), s.obs)
  BY SeenGrows DEF Grounded, SameView
<1> QED BY <1>1, <1>2 DEF Grounded, SameView, InvocationOf

\* A run stays grounded when a command returns the result on record at its
\* position.
LEMMA GroundedReturn ==
  ASSUME NEW j, NEW r \in Runs, NEW s, Grounded(j, r), NEW i \in DOMAIN j, NEW x \in Results,
         Settles(j[i], Len(r.obs)), ResultOf(j[i]) = x,
         s.obs = Append(r.obs, x), s.definition = r.definition, s.input = r.input,
         s.mode \in {r.mode, "Live"}
  PROVE  Grounded(j, s) /\ Len(s.obs) = Len(r.obs) + 1
<1> DEFINE o == r.obs
           n == Len(o)
<1>1. o \in Seq(Results) /\ n \in Nat /\ DOMAIN o = 1 .. n
  BY DEF Runs
<1>2. /\ s.obs \in Seq(Results) /\ Len(s.obs) = n + 1 /\ s.obs[n + 1] = x
      /\ \A k \in 1 .. n : s.obs[k] = o[k]
  BY <1>1, AppendProperties
<1>3. DOMAIN s.obs = 1 .. n + 1
  BY <1>1, <1>2
<1>4. ASSUME NEW k \in DOMAIN s.obs
      PROVE  \E m \in DOMAIN j : Settles(j[m], k - 1) /\ ResultOf(j[m]) = s.obs[k]
  <2>1. CASE k \in 1 .. n
    BY <1>1, <1>2, <2>1 DEF Grounded, Seen
  <2>2. CASE k = n + 1
    <3>1. k - 1 = n BY <1>1, <2>2
    <3> QED BY <1>2, <2>2, <3>1
  <2> QED BY <1>1, <1>3, <2>1, <2>2
<1> QED BY <1>2, <1>4 DEF Grounded, Seen, InvocationOf

\* A run in workflow code sees what it should if every command but faulty ones
\* has returned.
LEMMA AtWorkflowSees ==
  ASSUME NEW j, NEW performed, NEW s, s.pc = "Workflow", Grounded(j, s),
         Healthy(s) => Len(s.obs) = s.seq
  PROVE  RunSees(j, performed, s)
<1>1. ~ InCommand(s)
  BY CommandPcs DEF InCommand
<1> QED BY <1>1
     DEF RunSees, ObservedOK, InvocationOK, PendingIssued, BodyOK, EffectAtRisk, RecordedOK, Grounded

\* A run inside a replayed command has seen the results before it.
LEMMA AtReplaySees ==
  ASSUME NEW j, NEW performed, NEW s, s.pc \in {"ReplayStep", "ReplayTimer"}, Grounded(j, s),
         Len(s.obs) = Position(s)
  PROVE  RunSees(j, performed, s)
<1>1. InCommand(s)
  BY DEF InCommand
<1> QED BY <1>1
     DEF RunSees, ObservedOK, InvocationOK, PendingIssued, BodyOK, EffectAtRisk, RecordedOK, Grounded

\* A run appending one of a command's events has seen the results before it; the
\* command is one its code issues, the outcome what the last body returned.
LEMMA AtAppendSees ==
  ASSUME NEW j, NEW performed, NEW s, s.pc = "Appending", Grounded(j, s),
         s.pending.kind \in PositionedKinds, Len(s.obs) = Position(s),
         s.pending.kind \in CommandRecordKinds =>
           \E cmd \in Commands : cmd \in Code(s.definition, s.input, s.obs) /\ Matches(s.pending, cmd),
         s.pending.kind \in {"StepCompleted", "StepFailed"} =>
           /\ performed # <<>>
           /\ performed[Len(performed)].seq = s.pending.seq
           /\ performed[Len(performed)].result = ResultOf(s.pending)
  PROVE  RunSees(j, performed, s)
<1>1. InCommand(s)
  BY DEF InCommand
<1>2. s.pending.kind \notin TerminalKinds \cup {"ExecutionStarted"}
  BY KindSets
<1> QED BY <1>1, <1>2
     DEF RunSees, ObservedOK, InvocationOK, PendingIssued, BodyOK, EffectAtRisk, RecordedOK, Grounded

\* A run at a checkpoint has seen the results before its command's.
LEMMA AtCheckpointSees ==
  ASSUME NEW j, NEW performed, NEW s, Grounded(j, s), Len(s.obs) = Position(s),
         s.pc \in {"AfterStepScheduled", "AfterStepStarted", "AfterStepCompleted",
                   "AfterTimerScheduled", "AfterTimerFired"},
         s.pc = "AfterStepStarted" => \A k \in DOMAIN performed :
           performed[k].seq = Position(s) => performed[k].attempt < s.attempt,
         s.pc \in {"AfterStepCompleted", "AfterTimerFired"} => s.pending = j[Len(j)]
  PROVE  RunSees(j, performed, s)
<1>1. InCommand(s)
  BY CommandPcs DEF InCommand
<1> QED BY <1>1
     DEF RunSees, ObservedOK, InvocationOK, PendingIssued, BodyOK, EffectAtRisk, RecordedOK, Grounded

-----------------------------------------------------------------------------
(* How the operators of a run move what it has seen.                       *)

\* Every operator of a run but Return keeps its view.
LEMMA ViewKept ==
  ASSUME NEW r \in Runs
  PROVE  /\ SameView(r, Back(r))
         /\ \A ev : SameView(r, Begin(r, ev))
         /\ \A x : SameView(r, Fault(r, x))
         /\ SameView(r, GoLive(r))
         /\ SameView(r, Taken(r))
  BY DEF Runs, Back, Begin, Fault, GoLive, Taken, SameView

\* A command's return appends its result to the view.
LEMMA ReturnView ==
  ASSUME NEW r \in Runs, NEW x
  PROVE  LET s == Return(r, x)
         IN s.obs = Append(r.obs, x) /\ s.definition = r.definition /\ s.input = r.input
  BY DEF Runs, Back, Return

-----------------------------------------------------------------------------
(* One step of one engine.                                                 *)

\* Only the lease holder's run is any engine's: the others stay idle.
LEMMA OthersStayIdle ==
  ASSUME IInv, NEW e \in Engines, NEW s, run' = [run EXCEPT ![e] = s],
         run[e].pc # "Idle" \/ owner = NoOwner
  PROVE  /\ run'[e] = s
         /\ \A f \in Engines \ {e} : run[f] = IdleRun /\ run'[f] = IdleRun
<1>1. run \in [Engines -> Runs] BY DEF IInv, TypeOK
<1>2. \A f \in Engines \ {e} : run[f] = IdleRun
  BY OthersIdle, FreeLease
<1> QED BY <1>1, <1>2

\* Whether an outcome is at risk depends on the lease holder alone.
LEMMA RiskOfHolder ==
  ASSUME NEW e \in Engines, NEW s, run[e] = s, \A f \in Engines \ {e} : run[f] = IdleRun
  PROVE  (\A f \in Engines : ~ EffectAtRisk(run[f])) <=> ~ EffectAtRisk(s)
<1>1. ~ EffectAtRisk(IdleRun)
  BY DEF EffectAtRisk, IdleRun
<1> QED BY <1>1

\* A step that leaves journal and effects alone and whose run stays grounded
\* preserves the invariant, if no outcome was at risk or it is an interruption.
LEMMA QuietPreserves ==
  ASSUME IInv, RecordInv, NEW e \in Engines, NEW s, run' = [run EXCEPT ![e] = s],
         run[e].pc # "Idle" \/ owner = NoOwner,
         UNCHANGED <<journal, effects>>,
         RepliesAreDurable',
         \/ ~ EffectAtRisk(run[e]) /\ interruptions' = interruptions
         \/ interruptions' = interruptions + 1,
         RunSees(journal, effects, s)
  PROVE  RecordInv'
<1>1. /\ run'[e] = s
      /\ \A f \in Engines \ {e} : run[f] = IdleRun /\ run'[f] = IdleRun
  BY OthersStayIdle
<1>2. RecordOK(journal') /\ EffectsBounded(journal', effects')
  BY DEF RecordInv
<1>3. EffectsFollowAttempts' /\ OutcomeWasPerformed'
  BY DEF RecordInv, EffectsFollowAttempts, OutcomeWasPerformed
<1>4. RepeatsArePaid'
  <2> DEFINE c == Cardinality({effects[k].seq : k \in DOMAIN effects})
  <2>1. effects \in Seq(Effects) /\ Len(effects) \in Nat /\ interruptions \in Nat
    BY InterruptionAssumption DEF IInv, TypeOK
  <2>2. c \in Nat
    BY <2>1, PositionsCounted
  <2>3. Len(effects) + (IF Lost THEN 1 ELSE 0) <= c + interruptions
    BY DEF RecordInv, RepeatsArePaid
  <2>4. RepeatsArePaid' <=>
          Len(effects) + (IF Lost' THEN 1 ELSE 0) <= c + interruptions'
    BY DEF RepeatsArePaid
  <2>5. CASE ~ EffectAtRisk(run[e]) /\ interruptions' = interruptions
    <3>1. Lost' => Lost
      <4>1. \A f \in Engines : ~ EffectAtRisk(run[f])
        BY <1>1, <2>5, RiskOfHolder
      <4> QED BY <4>1 DEF Lost
    <3> HIDE DEF c
    <3> QED BY <2>1, <2>2, <2>3, <2>4, <2>5, <3>1
  <2>6. CASE interruptions' = interruptions + 1
    <3> HIDE DEF c
    <3> QED BY <2>1, <2>2, <2>3, <2>4, <2>6
  <2> QED BY <2>5, <2>6
<1>5. \A f \in Engines : RunSees(journal', effects', run'[f])
  BY <1>1, IdleSees
<1> QED BY <1>2, <1>3, <1>4, <1>5 DEF RecordInv

\* The event a run appends, and the code it comes from.
LEMMA PendingEvent ==
  ASSUME IInv, RecordInv, NEW e \in Engines, run[e].pc = "Appending"
  PROVE  LET r == run[e]
             ev == r.pending
         IN /\ ev \in Events /\ journal \in Seq(Events)
            /\ \/ journal = <<>> /\ ev.kind = "ExecutionStarted"
               \/ journal # <<>> /\ Legal(journal) /\ Admits(EndState(journal), ev)
            /\ Grounded(journal, r)
            /\ ev.kind \in PositionedKinds => Len(r.obs) = Position(r) /\ ev.seq = Position(r)
            /\ ev.kind \in CommandRecordKinds =>
                 \E cmd \in Commands :
                   /\ cmd \in Code(journal[1].value.definition, journal[1].value.input,
                                   AnswersTo(journal, ev.seq))
                   /\ Matches(ev, cmd)
<1> DEFINE r == run[e]
           ev == r.pending
<1>1. ev \in Events /\ journal \in Seq(Events) /\ r \in Runs
      /\ \/ journal = <<>> /\ ev.kind = "ExecutionStarted"
         \/ journal # <<>> /\ Legal(journal) /\ Admits(EndState(journal), ev)
  BY DEF IInv, TypeOK, HistoryLegal, RunAgrees, AppendingOK
<1>2. RunSees(journal, effects, r) /\ RecordOK(journal)
  BY DEF RecordInv
<1>3. Grounded(journal, r)
  BY <1>2, GroundedRun
<1>4. Healthy(r) /\ (ev.kind \in PositionedKinds => ev.seq = Position(r))
  BY DEF IInv, RunAgrees, AppendingOK
<1>5. ev.kind \in PositionedKinds => Len(r.obs) = Position(r) /\ ev.seq = Position(r)
  BY <1>2, <1>4 DEF RunSees, ObservedOK, InCommand
<1>6. ASSUME ev.kind \in CommandRecordKinds
      PROVE  \E cmd \in Commands :
                   /\ cmd \in Code(journal[1].value.definition, journal[1].value.input,
                                   AnswersTo(journal, ev.seq))
                   /\ Matches(ev, cmd)
  <2>1. journal # <<>> /\ ev.kind \in PositionedKinds
    BY <1>1, <1>6, KindSets
  <2>2. /\ journal[1].value = InvocationOf(r)
        /\ \E cmd \in Commands : cmd \in Code(r.definition, r.input, r.obs) /\ Matches(ev, cmd)
    BY <1>2, <1>3, <1>6, <2>1 DEF RunSees, PendingIssued, Grounded
  <2>3. r.obs = AnswersTo(journal, ev.seq)
    <3>1. r.obs \in Seq(Results) BY <1>1 DEF Runs
    <3> QED BY <1>2, <1>3, <1>5, <2>1, <3>1, SeenUnique DEF RecordOK, Grounded
  <2> QED BY <2>2, <2>3 DEF InvocationOf
<1> QED BY <1>1, <1>3, <1>5, <1>6

\* An append, acknowledged or not, preserves the invariant if what the run goes on
\* to see is on record (JournalStore::append).
LEMMA AppendPreserves ==
  ASSUME IInv, RecordInv, NEW e \in Engines, NEW s, run' = [run EXCEPT ![e] = s],
         AppendPending(e), effects' = effects,
         interruptions' = interruptions \/ interruptions' = interruptions + 1,
         \/ replies' = replies
         \/ run[e].pending.kind \in TerminalKinds /\ replies' = replies \cup {ResultOf(run[e].pending)},
         RunSees(journal', effects, s)
  PROVE  RecordInv'
<1> DEFINE r == run[e]
           ev == r.pending
           j == journal
           n == Len(j) + 1
<1>1. /\ r.pc = "Appending" /\ journal' = Append(j, ev)
      /\ ev \in Events /\ j \in Seq(Events)
      /\ \/ j = <<>> /\ ev.kind = "ExecutionStarted"
         \/ j # <<>> /\ Admits(EndState(j), ev)
      /\ ev.kind \in CommandRecordKinds =>
           \E cmd \in Commands :
             /\ cmd \in Code(j[1].value.definition, j[1].value.input, AnswersTo(j, ev.seq))
             /\ Matches(ev, cmd)
  BY PendingEvent DEF AppendPending
<1>2. /\ run'[e] = s
      /\ \A f \in Engines \ {e} : run[f] = IdleRun /\ run'[f] = IdleRun
  BY <1>1, OthersStayIdle
<1>3. /\ RecordOK(j) /\ EffectsBounded(j, effects) /\ effects \in Seq(Effects)
      /\ EffectsFollowAttempts /\ OutcomeWasPerformed /\ RepliesAreDurable
      /\ RunSees(j, effects, r)
  BY DEF RecordInv, IInv, TypeOK
<1>4. /\ DOMAIN journal' = DOMAIN j \cup {n} /\ journal'[n] = ev /\ n = Len(journal')
      /\ \A i \in DOMAIN j : journal'[i] = j[i]
      /\ EndState(journal') = StateAfter(ev) /\ journal' # <<>>
  BY <1>1, AppendedAt
<1>5. j # <<>> => Continues(j)
  BY <1>1, AppendContinues
<1>6. RecordOK(journal')
  BY <1>1, <1>3, RecordGrows, RecordStarts
<1>7. EffectsFollowAttempts'
  <2>1. ASSUME NEW k \in DOMAIN effects
        PROVE  \E i \in DOMAIN journal' : journal'[i] = StepStarted(effects[k].seq, effects[k].attempt)
    <3>1. PICK i \in DOMAIN j : j[i] = StepStarted(effects[k].seq, effects[k].attempt)
      BY <1>3 DEF EffectsFollowAttempts
    <3> QED BY <1>4, <3>1
  <2> QED BY <1>3, <2>1 DEF EffectsFollowAttempts
<1>8. ASSUME j = <<>> PROVE effects = <<>>
  <2>1. DOMAIN j = {}
    BY <1>8, EmptySeq
  <2>2. DOMAIN effects = {}
    BY <1>3, <2>1 DEF EffectsFollowAttempts
  <2> QED BY <1>3, <2>2, LastEffect
<1>9. EffectsBounded(journal', effects')
  <2>1. CASE j = <<>>
    <3>1. DOMAIN effects = {}
      BY <1>8, <2>1, EmptySeq
    <3> QED BY <3>1 DEF EffectsBounded
  <2>2. CASE j # <<>>
    BY <1>1, <1>3, <2>2, EffectsBoundedGrow
  <2> QED BY <2>1, <2>2
<1>10. OutcomeWasPerformed'
  <2>1. ASSUME NEW i \in DOMAIN journal', journal'[i].kind \in {"StepCompleted", "StepFailed"}
        PROVE  \E k \in DOMAIN effects :
                 /\ effects[k].seq = journal'[i].seq
                 /\ effects[k].result = ResultOf(journal'[i])
                 /\ \A m \in DOMAIN effects : effects[m].seq = journal'[i].seq => m <= k
    <3>1. CASE i \in DOMAIN j
      BY <1>3, <1>4, <2>1, <3>1 DEF OutcomeWasPerformed
    <3>2. CASE i = n
      <4>1. journal'[i] = ev /\ ev.kind \in {"StepCompleted", "StepFailed"}
        BY <1>4, <2>1, <3>2
      <4>2. /\ effects # <<>>
            /\ effects[Len(effects)].seq = ev.seq
            /\ effects[Len(effects)].result = ResultOf(ev)
        BY <1>1, <1>3, <4>1 DEF RunSees, BodyOK, EffectAtRisk
      <4>3. Len(effects) \in DOMAIN effects /\ \A m \in DOMAIN effects : m <= Len(effects)
        BY <1>3, <4>2, LastEffect
      <4> QED BY <4>1, <4>2, <4>3
    <3> QED BY <1>4, <3>1, <3>2
  <2> QED BY <2>1 DEF OutcomeWasPerformed
<1>11. RepliesAreDurable'
  <2>1. replies = {}
    BY <1>3, <1>5 DEF RepliesAreDurable, Continues, Terminal
  <2>2. ev.kind \in TerminalKinds => Terminal(journal') /\ journal'[Len(journal')] = ev
    BY <1>4 DEF Terminal
  <2> QED BY <2>1, <2>2 DEF RepliesAreDurable
<1>12. RepeatsArePaid'
  <2>1. ASSUME Lost' PROVE Lost
    <3>1. /\ effects # <<>> /\ StateAfter(ev).phase = "Started"
          /\ effects[Len(effects)].seq = StateAfter(ev).seq
      BY <1>4, <2>1 DEF Lost
    <3>2. ev.kind = "StepStarted" /\ StateAfter(ev).seq = ev.seq
      BY <1>1, <3>1, StateTells
    <3>3. j # <<>> /\ Continues(j) /\ EndState(j).seq = ev.seq /\ EndState(j).seq \in Nat
      BY <1>1, <1>5, <3>2, AdmittedAfter, JournalEnd, KindSets
    <3>4. EndState(j).phase = "Started"
      <4>1. Len(effects) \in DOMAIN effects
        BY <1>3, <3>1, LastEffect
      <4> QED BY <1>3, <3>1, <3>2, <3>3, <4>1 DEF EffectsBounded
    <3>5. \A f \in Engines : ~ EffectAtRisk(run[f])
      BY <1>2, <3>2, RiskOfHolder DEF EffectAtRisk
    <3> QED BY <3>1, <3>2, <3>3, <3>4, <3>5 DEF Lost
  <2> DEFINE c == Cardinality({effects[k].seq : k \in DOMAIN effects})
  <2>2. c \in Nat /\ Len(effects) \in Nat /\ interruptions \in Nat
    <3>1. c \in Nat BY <1>3, PositionsCounted
    <3>2. Len(effects) \in Nat BY <1>3
    <3>3. interruptions \in Nat BY InterruptionAssumption DEF IInv, TypeOK
    <3> QED BY <3>1, <3>2, <3>3
  <2>3. Len(effects) + (IF Lost THEN 1 ELSE 0) <= c + interruptions
    BY DEF RecordInv, RepeatsArePaid
  <2>4. RepeatsArePaid' <=>
          Len(effects) + (IF Lost' THEN 1 ELSE 0) <= c + interruptions'
    BY DEF RepeatsArePaid
  <2> HIDE DEF c
  <2> QED BY <2>1, <2>2, <2>3, <2>4
<1>13. \A f \in Engines : RunSees(journal', effects', run'[f])
  BY <1>2, IdleSees
<1> QED BY <1>6, <1>7, <1>9, <1>10, <1>11, <1>12, <1>13 DEF RecordInv

\* The run of a body preserves the invariant: its attempt is the one the journal
\* ends in and has not run, its outcome is about to be recorded, and a repeat is
\* the repeat of a lost outcome (run_live).
LEMMA BodyPreserves ==
  ASSUME IInv, RecordInv, NEW e \in Engines, NEW s, run' = [run EXCEPT ![e] = s],
         UNCHANGED <<journal, replies, interruptions>>,
         run[e].pc = "AfterStepStarted", NEW x \in Effects,
         x.seq = Position(run[e]), x.attempt = run[e].attempt,
         effects' = Append(effects, x),
         EffectAtRisk(s), RunSees(journal, effects', s)
  PROVE  RecordInv'
<1> DEFINE r == run[e]
           j == journal
           st == EndState(j)
           p == x.seq
           n == Len(effects) + 1
<1>1. /\ run'[e] = s
      /\ \A f \in Engines \ {e} : run[f] = IdleRun /\ run'[f] = IdleRun
  BY OthersStayIdle
<1>2. /\ RecordOK(j) /\ EffectsBounded(j, effects) /\ effects \in Seq(Effects) /\ j \in Seq(Events)
      /\ EffectsFollowAttempts /\ OutcomeWasPerformed /\ RepliesAreDurable
      /\ RunSees(j, effects, r)
  BY DEF RecordInv, IInv, TypeOK
<1>3. /\ j # <<>> /\ st = HistoryState("Started", p, x.attempt)
      /\ Continues(j) /\ st.seq = p /\ st.phase = "Started" /\ st.attempt = x.attempt
  <2>1. j # <<>> /\ st = HistoryState("Started", p, x.attempt)
    BY CommandPcs DEF IInv, RunAgrees, CheckpointOK
  <2>2. st.seq = p /\ st.phase = "Started" /\ st.attempt = x.attempt
    BY <2>1 DEF HistoryState
  <2> QED BY <1>2, <2>1, <2>2, JournalEnd DEF OpenPhases
<1>4. p \in Nat /\ x.attempt \in Nat
      /\ \A k \in DOMAIN effects : effects[k].seq \in Nat /\ effects[k].attempt \in Nat
  <2>1. ASSUME NEW y \in Effects PROVE y.seq \in Nat /\ y.attempt \in Nat
    BY SeqAssumption, AttemptAssumption DEF Effects, Seqs, Attempts
  <2> QED BY <1>2, <2>1, ElementOfSeq
<1>5. /\ effects' \in Seq(Effects) /\ DOMAIN effects' = DOMAIN effects \cup {n}
      /\ Len(effects') = n /\ effects'[n] = x /\ DOMAIN effects = 1 .. Len(effects)
      /\ Len(effects) \in Nat
      /\ \A k \in DOMAIN effects : effects'[k] = effects[k]
  BY <1>2, AppendProperties
<1>6. \A k \in DOMAIN effects : effects[k].seq < p
        \/ (effects[k].seq = p /\ effects[k].attempt < x.attempt)
  <2>1. \A k \in DOMAIN effects : effects[k].seq < p \/ effects[k].seq = p
    BY <1>2, <1>3 DEF EffectsBounded
  <2>2. \A k \in DOMAIN effects : effects[k].seq = p => effects[k].attempt < x.attempt
    BY <1>2 DEF RunSees, BodyOK
  <2> QED BY <2>1, <2>2
<1>7. EffectsFollowAttempts'
  <2>1. j[Len(j)] = StepStarted(p, x.attempt) /\ Len(j) \in DOMAIN j
    <3>1. /\ Len(j) \in DOMAIN j /\ j[Len(j)] \in Events
          /\ j[Len(j)].kind = "StepStarted" /\ j[Len(j)].seq = p /\ j[Len(j)].attempt = x.attempt
      BY <1>2, <1>3, JournalEnd, StateTells
    <3>2. j[Len(j)] = StepStarted(j[Len(j)].seq, j[Len(j)].attempt)
      BY <3>1 DEF Events, Event, ExecutionStarted, StepScheduled, StepStarted, StepCompleted,
         StepFailed, NowRecorded, RandomRecorded, TimerScheduled, TimerFired,
         ExecutionCompleted, ExecutionFailed
    <3> QED BY <3>1, <3>2
  <2>2. \A k \in DOMAIN effects' : \E i \in DOMAIN j :
          j[i] = StepStarted(effects'[k].seq, effects'[k].attempt)
    BY <1>2, <1>5, <2>1 DEF EffectsFollowAttempts
  <2>3. ASSUME NEW k \in DOMAIN effects', NEW m \in DOMAIN effects', k < m
        PROVE  \/ effects'[k].seq < effects'[m].seq
               \/ effects'[k].seq = effects'[m].seq /\ effects'[k].attempt < effects'[m].attempt
    <3>1. k \in DOMAIN effects /\ (m \in DOMAIN effects \/ m = n)
      BY <1>5, <2>3
    <3>2. CASE m \in DOMAIN effects
      BY <1>2, <1>5, <2>3, <3>1, <3>2 DEF EffectsFollowAttempts
    <3>3. CASE m = n
      BY <1>5, <1>6, <3>1, <3>3
    <3> QED BY <3>1, <3>2, <3>3
  <2> QED BY <2>2, <2>3 DEF EffectsFollowAttempts
<1>8. EffectsBounded(journal', effects')
  <2>1. \A k \in DOMAIN effects' :
          effects'[k].seq < p \/ (effects'[k].seq = p /\ effects'[k].attempt <= x.attempt)
    BY <1>4, <1>5, <1>6
  <2> QED BY <1>3, <2>1 DEF EffectsBounded
<1>9. OutcomeWasPerformed'
  <2>1. ASSUME NEW i \in DOMAIN j, j[i].kind \in {"StepCompleted", "StepFailed"}
        PROVE  \E k \in DOMAIN effects' :
                 /\ effects'[k].seq = j[i].seq
                 /\ effects'[k].result = ResultOf(j[i])
                 /\ \A m \in DOMAIN effects' : effects'[m].seq = j[i].seq => m <= k
    <3>1. j[i].seq < p /\ j[i].seq # p
      <4>1. j[i].kind \in SettlingKinds BY <2>1, KindSets
      <4>2. j[i].seq \in Nat BY <1>2, AppendedAt, EventFields, SeqAssumption DEF Seqs
      <4> QED BY <1>2, <1>3, <1>4, <4>1, <4>2 DEF RecordOK, SettledInOrder
    <3>2. PICK k \in DOMAIN effects :
                 /\ effects[k].seq = j[i].seq
                 /\ effects[k].result = ResultOf(j[i])
                 /\ \A m \in DOMAIN effects : effects[m].seq = j[i].seq => m <= k
      BY <1>2, <2>1 DEF OutcomeWasPerformed
    <3> QED BY <1>5, <3>1, <3>2
  <2> QED BY <2>1 DEF OutcomeWasPerformed
<1>10. RepliesAreDurable'
  BY <1>2 DEF RepliesAreDurable
<1>11. RepeatsArePaid'
  <2> DEFINE at == {effects[k].seq : k \in DOMAIN effects}
             at1 == {effects'[k].seq : k \in DOMAIN effects'}
             c == Cardinality(at)
  <2>1. /\ IsFiniteSet(at) /\ c \in Nat
    BY <1>2, PositionsCounted
  <2>2. at1 = at \cup {p}
    BY <1>5
  <2>3. Cardinality(at1) = IF p \in at THEN c ELSE c + 1
    <3> HIDE DEF at, at1, p
    <3> QED BY <2>1, <2>2, FS_AddElement
  <2>4. ~ Lost'
    BY <1>1 DEF Lost
  <2>5. p \in at => Lost
    <3>1. SUFFICES ASSUME NEW k \in DOMAIN effects, effects[k].seq = p PROVE Lost
      OBVIOUS
    <3>2. effects # <<>>
      BY <3>1, EmptySeq
    <3>3. Len(effects) \in DOMAIN effects
      BY <1>2, <3>2, LastEffect
    <3>4. effects[Len(effects)].seq = p
      <4>1. CASE k = Len(effects)
        BY <3>1, <4>1
      <4>2. CASE k # Len(effects)
        <5>1. k < Len(effects)
          BY <1>5, <3>1, <3>3, <4>2
        <5>2. effects[k].seq < effects[Len(effects)].seq \/ effects[k].seq = effects[Len(effects)].seq
          BY <1>2, <3>1, <3>3, <5>1 DEF EffectsFollowAttempts
        <5>3. effects[Len(effects)].seq < p \/ effects[Len(effects)].seq = p
          BY <1>6, <3>3
        <5> QED BY <1>4, <3>1, <3>3, <5>2, <5>3
      <4> QED BY <4>1, <4>2
    <3>5. \A f \in Engines : ~ EffectAtRisk(run[f])
      BY <1>1, RiskOfHolder DEF EffectAtRisk
    <3> QED BY <1>3, <3>2, <3>4, <3>5 DEF Lost
  <2>6. Len(effects) + (IF Lost THEN 1 ELSE 0) <= c + interruptions
    BY DEF RecordInv, RepeatsArePaid
  <2>7. RepeatsArePaid' <=>
          Len(effects') + (IF Lost' THEN 1 ELSE 0) <= Cardinality(at1) + interruptions'
    BY DEF RepeatsArePaid
  <2>8. interruptions' = interruptions /\ interruptions \in Nat
    BY InterruptionAssumption DEF IInv, TypeOK
  <2> HIDE DEF at, at1, c
  <2> QED BY <1>5, <2>1, <2>3, <2>4, <2>5, <2>6, <2>7, <2>8
<1>12. \A f \in Engines : RunSees(journal', effects', run'[f])
  BY <1>1, IdleSees
<1> QED BY <1>2, <1>7, <1>8, <1>9, <1>10, <1>11, <1>12 DEF RecordInv

\* A step that changes the run alone preserves the invariant if the run sees what
\* it should.
LEMMA UpdateSees ==
  ASSUME IInv, RecordInv, NEW e \in Engines, NEW s, Update(e, s),
         run[e].pc \notin {"Idle", "Appending"}, RunSees(journal, effects, s)
  PROVE  RecordInv'
<1>1. RepliesAreDurable'
  BY DEF Update, RecordInv, RepliesAreDurable
<1>2. ~ EffectAtRisk(run[e])
  BY DEF EffectAtRisk
<1> QED BY <1>1, <1>2, QuietPreserves DEF Update, Set

\* A step that drops the Execution handle and appends nothing preserves the
\* invariant, if no outcome was at risk or it is an interruption.
LEMMA EndSees ==
  ASSUME IInv, RecordInv, NEW e \in Engines, run[e].pc # "Idle", EndRun(e),
         UNCHANGED <<journal, effects, replies>>,
         \/ run[e].pc # "Appending" /\ interruptions' = interruptions
         \/ interruptions' = interruptions + 1
  PROVE  RecordInv'
<1>1. RepliesAreDurable'
  BY DEF RecordInv, RepliesAreDurable
<1>2. run[e].pc # "Appending" => ~ EffectAtRisk(run[e])
  BY DEF EffectAtRisk
<1> QED BY <1>1, <1>2, IdleSees, QuietPreserves DEF EndRun, Set

\* A fault leaves the run grounded in workflow code (retain_engine_result).
LEMMA FaultSees ==
  ASSUME NEW j, NEW performed, NEW r \in Runs, NEW x \in Faults, Grounded(j, r)
  PROVE  RunSees(j, performed, Fault(r, x))
<1> DEFINE s == Fault(r, x)
<1>1. s.pc = "Workflow" /\ ~ Healthy(s) /\ s.mode = r.mode
  BY FaultRun
<1>2. SameView(r, s)
  BY ViewKept
<1> HIDE DEF s
<1>3. Grounded(j, s)
  BY <1>1, <1>2, GroundedKept
<1> QED BY <1>1, <1>3, AtWorkflowSees DEF s

-----------------------------------------------------------------------------
(* The actions.                                                            *)

\* A run that has only the lease has seen nothing.
LEMMA AtEntrySees ==
  ASSUME NEW j, NEW performed, NEW s, s.pc \in {"Starting", "Recovering"},
         s.obs = <<>>, s.seq = 0, s.mode = "Live"
  PROVE  RunSees(j, performed, s)
<1>1. ~ InCommand(s)
  BY CommandPcs DEF InCommand
<1>2. DOMAIN s.obs = {} /\ Len(s.obs) = 0
  BY EmptySeq
<1>3. ObservedOK(j, s)
  BY <1>1, <1>2 DEF ObservedOK, Seen
<1> QED BY <1>3
     DEF RunSees, InvocationOK, PendingIssued, BodyOK, EffectAtRisk, RecordedOK

\* Engine::run and Engine::recover_and_run, up to the workflow, preserve the
\* invariant: the run starts from the recorded invocation and nothing seen.
LEMMA EntrySees ==
  ASSUME IInv, RecordInv, NEW e \in Engines
  PROVE  /\ \A d \in Definitions, i \in Payloads : RunAcquire(e, d, i) => RecordInv'
         /\ \A d \in Definitions : RecoverAcquire(e, d) => RecordInv'
         /\ Enter(e) => RecordInv'
<1> DEFINE r == run[e]
<1>r. /\ r \in Runs /\ RunAgrees(journal, r) /\ journal \in Seq(Events)
      /\ RunSees(journal, effects, r)
  BY DEF IInv, TypeOK, RecordInv
<1>n. r.pc \in {"Starting", "Recovering"} =>
        /\ r.seq = 0 /\ Healthy(r) /\ r.definition \in Definitions /\ r.mode = "Live"
        /\ r.obs = <<>>
  <2>1. SUFFICES ASSUME r.pc \in {"Starting", "Recovering"}
                 PROVE  /\ r.seq = 0 /\ Healthy(r) /\ r.definition \in Definitions
                        /\ r.mode = "Live" /\ r.obs = <<>>
    OBVIOUS
  <2>2. r.seq = 0 /\ Healthy(r) /\ r.definition \in Definitions /\ r.mode = "Live"
    BY <1>r, <2>1 DEF RunAgrees, EntryOK, CursorOK
  <2>3. ~ InCommand(r)
    BY <2>1, CommandPcs DEF InCommand
  <2>4. Len(r.obs) = 0 /\ r.obs \in Seq(Results)
    BY <1>r, <2>2, <2>3 DEF RunSees, ObservedOK, Runs
  <2> QED BY <2>2, <2>4, EmptySeq
<1>1. ASSUME NEW d \in Definitions, NEW i \in Payloads, RunAcquire(e, d, i) PROVE RecordInv'
  <2> DEFINE s == [IdleRun EXCEPT !.pc = "Starting", !.definition = d, !.input = i]
  <2>1. s.pc = "Starting" /\ s.obs = <<>> /\ s.seq = 0 /\ s.mode = "Live"
    BY DEF IdleRun
  <2>2. run' = [run EXCEPT ![e] = s] /\ owner = NoOwner /\ r.pc = "Idle"
        /\ UNCHANGED <<journal, effects, replies, interruptions>>
    BY <1>1 DEF RunAcquire, Set
  <2> HIDE DEF s
  <2>3. RunSees(journal, effects, s)
    BY <2>1, AtEntrySees
  <2>4. RepliesAreDurable' /\ ~ EffectAtRisk(r)
    BY <2>2 DEF RecordInv, RepliesAreDurable, EffectAtRisk
  <2> QED BY <2>2, <2>3, <2>4, QuietPreserves
<1>2. ASSUME NEW d \in Definitions, RecoverAcquire(e, d) PROVE RecordInv'
  <2> DEFINE s == [IdleRun EXCEPT !.pc = "Recovering", !.definition = d]
  <2>1. s.pc = "Recovering" /\ s.obs = <<>> /\ s.seq = 0 /\ s.mode = "Live"
    BY DEF IdleRun
  <2>2. run' = [run EXCEPT ![e] = s] /\ owner = NoOwner /\ r.pc = "Idle"
        /\ UNCHANGED <<journal, effects, replies, interruptions>>
    BY <1>2 DEF RecoverAcquire, Set
  <2> HIDE DEF s
  <2>3. RunSees(journal, effects, s)
    BY <2>1, AtEntrySees
  <2>4. RepliesAreDurable' /\ ~ EffectAtRisk(r)
    BY <2>2 DEF RecordInv, RepliesAreDurable, EffectAtRisk
  <2> QED BY <2>2, <2>3, <2>4, QuietPreserves
<1>3. CASE StartExisting(e)
  BY <1>3, EndSees DEF StartExisting
<1>4. CASE StartAbsent(e)
  <2> DEFINE inv == [definition |-> r.definition, input |-> r.input]
             ev == ExecutionStarted(inv)
             s == Begin(r, ev)
  <2>1. r.pc = "Starting" /\ journal = <<>> /\ Update(e, s)
    BY <1>4 DEF StartAbsent
  <2>2. r.seq = 0 /\ r.mode = "Live" /\ r.obs = <<>>
    BY <1>n, <2>1
  <2>3. /\ s.pc = "Appending" /\ s.pending = ev /\ s.seq = 0 /\ s.mode = "Live" /\ s.obs = <<>>
        /\ s.definition = r.definition /\ s.input = r.input
    BY <1>r, <2>2 DEF Begin, Runs
  <2>4. ev.kind = "ExecutionStarted" /\ ev.value = InvocationOf(s)
    BY <2>3 DEF ExecutionStarted, Event, InvocationOf
  <2> HIDE DEF s, ev
  <2>5. ~ InCommand(s) /\ ~ EffectAtRisk(s) /\ s.pending.kind \notin CommandRecordKinds \cup TerminalKinds
    BY <2>3, <2>4, KindSets, CommandPcs DEF InCommand, EffectAtRisk
  <2>6. DOMAIN s.obs = {} /\ Len(s.obs) = 0
    BY <2>3, EmptySeq
  <2>7. ObservedOK(journal, s)
    BY <2>3, <2>5, <2>6 DEF ObservedOK, Seen
  <2>8. InvocationOK(journal, s)
    BY <2>1, <2>3, <2>4 DEF InvocationOK
  <2>9. RunSees(journal, effects, s)
    BY <2>3, <2>5, <2>7, <2>8 DEF RunSees, PendingIssued, BodyOK, RecordedOK
  <2> QED BY <2>1, <2>9, UpdateSees
<1>5. CASE RecoverRejected(e)
  BY <1>5, EndSees DEF RecoverRejected
<1>6. CASE RecoverTerminal(e)
  <2>1. RepliesAreDurable'
    BY <1>6 DEF RecoverTerminal, RecordInv, RepliesAreDurable
  <2>2. r.pc # "Idle" /\ ~ EffectAtRisk(r)
    BY <1>6 DEF RecoverTerminal, EffectAtRisk
  <2> QED BY <1>6, <2>1, <2>2, IdleSees, QuietPreserves DEF RecoverTerminal, EndRun, Set
<1>7. CASE RecoverRunning(e)
  <2> DEFINE s == [r EXCEPT !.pc = "Workflow", !.input = journal[1].value.input,
                     !.history = journal, !.pos = 2,
                     !.mode = IF Len(journal) > 1 THEN "Replaying" ELSE "Live"]
  <2>1. /\ r.pc = "Recovering" /\ Update(e, s) /\ ~ Terminal(journal)
        /\ RecoverError(r.definition) = "none"
    BY <1>7 DEF RecoverRunning
  <2>2. r.seq = 0 /\ r.obs = <<>> /\ r.definition \in Definitions
    BY <1>n, <2>1
  <2>3. /\ journal # <<>> /\ journal[1].kind = "ExecutionStarted"
        /\ journal[1].value.definition.workflow = r.definition.workflow
        /\ journal[1].value.definition.version = r.definition.version
    BY <2>1 DEF RecoverError
  <2>4. journal[1] \in Events
    BY <1>r, <2>3, AppendedAt
  <2>5. journal[1].value \in Invocations
    BY <2>3, <2>4, EventFields
  <2>6. journal[1].value.definition = r.definition
    BY <2>2, <2>3, <2>5 DEF Invocations, Definitions
  <2>7. /\ s.pc = "Workflow" /\ s.definition = r.definition /\ s.input = journal[1].value.input
        /\ s.obs = <<>> /\ s.seq = 0
    BY <1>r, <2>2 DEF Runs
  <2>8. journal[1].value = InvocationOf(s)
    BY <2>5, <2>6, <2>7 DEF Invocations, InvocationOf
  <2> HIDE DEF s
  <2>9. DOMAIN s.obs = {} /\ Len(s.obs) = 0
    BY <2>7, EmptySeq
  <2>10. Grounded(journal, s)
    BY <2>1, <2>8, <2>9 DEF Grounded, Seen
  <2>11. RunSees(journal, effects, s)
    BY <2>7, <2>9, <2>10, AtWorkflowSees
  <2> QED BY <2>1, <2>11, UpdateSees
<1> QED BY <1>1, <1>2, <1>3, <1>4, <1>5, <1>6, <1>7 DEF Enter

\* A live command's first event answers the command.
LEMMA FirstEventMatches ==
  ASSUME NEW q \in Seqs, NEW cmd \in Commands, NEW ev \in FirstEvents(q, cmd)
  PROVE  Matches(ev, cmd) /\ ev.kind \in CommandRecordKinds
<1>1. ev.kind = RecordKind(cmd.kind) /\ ev.kind \in CommandRecordKinds
  BY FirstEvent, CommandFields DEF CommandRecordKinds
<1>2. cmd.kind = "RunStep" => ev.value = cmd.arg
  BY DEF FirstEvents, StepScheduled, Event
<1>3. cmd.kind = "Sleep" => ev.value = cmd.arg
  BY DEF FirstEvents, TimerScheduled, Event
<1> QED BY <1>1, <1>2, <1>3 DEF Matches

\* Commands, replayed or begun live, refused or found to diverge, preserve the
\* invariant: a reading is returned at the position it is recorded at.
LEMMA CommandSees ==
  ASSUME IInv, RecordInv, NEW e \in Engines, Command(e)
  PROVE  RecordInv'
<1> DEFINE r == run[e]
           j == journal
<1>r. /\ r \in Runs /\ r.seq \in Seqs /\ RunAgrees(j, r) /\ j \in Seq(Events)
      /\ (j # <<>> => Legal(j)) /\ RunSees(j, effects, r)
  BY DEF IInv, TypeOK, HistoryLegal, Runs, RecordInv
<1>w. r.pc = "Workflow" /\ Healthy(r)
  BY DEF Command, SequenceExhausted, Diverges, ReplayReading, ReplayScheduled, BeginCommand,
         Takes, Issues
<1>g. Grounded(j, r) /\ Len(r.obs) = r.seq
  <2>1. ~ InCommand(r)
    BY <1>w, CommandPcs DEF InCommand
  <2> QED BY <1>r, <1>w, <2>1, GroundedRun DEF RunSees, ObservedOK
<1>j. /\ j # <<>> /\ Legal(j) /\ CursorOK(j, r) /\ CursorState(j, r) = Ready(r.seq)
      /\ r.mode = "Replaying" => r.history = j /\ r.pos \in 2 .. Len(j) + 1
  BY <1>r, <1>w DEF RunAgrees, WorkflowOK, CursorOK
<1>t. ASSUME NEW cmd \in Commands, Takes(r, cmd)
      PROVE /\ Taken(r) \in Runs /\ Taken(r).seq = r.seq + 1 /\ Position(Taken(r)) = r.seq
            /\ Taken(r).mode = r.mode /\ SameView(r, Taken(r)) /\ Grounded(j, Taken(r))
            /\ Healthy(Taken(r)) /\ Taken(r).pos = r.pos
  <2>1. /\ Taken(r) \in Runs /\ Taken(r).seq = r.seq + 1 /\ Position(Taken(r)) = r.seq
        /\ Taken(r).mode = r.mode /\ Taken(r).health = r.health /\ Taken(r).pos = r.pos
    BY <1>r, <1>t, TakenRun DEF Takes
  <2>2. SameView(r, Taken(r))
    BY <1>r, ViewKept
  <2> QED BY <1>g, <1>w, <2>1, <2>2, GroundedKept DEF Healthy
<1>1. CASE SequenceExhausted(e)
  <2>1. "Sequence" \in Faults BY DEF Faults
  <2>2. RunSees(j, effects, Fault(r, "Sequence"))
    BY <1>r, <1>g, <2>1, FaultSees
  <2> QED BY <1>1, <1>w, <2>2, UpdateSees DEF SequenceExhausted
<1>2. ASSUME NEW cmd \in Commands, Diverges(e, cmd) PROVE RecordInv'
  <2> DEFINE t == Taken(r)
  <2>1. "Nondeterminism" \in Faults BY DEF Faults
  <2>2. t \in Runs /\ Grounded(j, t)
    BY <1>2, <1>t DEF Diverges
  <2>3. RunSees(j, effects, Fault(t, "Nondeterminism"))
    <3> HIDE DEF t
    <3> QED BY <2>1, <2>2, FaultSees
  <2> QED BY <1>2, <1>w, <2>3, UpdateSees DEF Diverges
<1>3. ASSUME NEW cmd \in Commands, ReplayReading(e, cmd) PROVE RecordInv'
  <2> DEFINE t == Taken(r)
             ev == NextRecorded(r)
             u == Return(t, ResultOf(ev))
             s == [u EXCEPT !.pos = @ + 1]
  <2>1. Takes(r, cmd) /\ Unread(r) /\ cmd.kind \in {"ReadNow", "DrawRandom"} /\ Matches(ev, cmd)
        /\ Update(e, s)
    BY <1>3 DEF ReplayReading
  <2>2. /\ t \in Runs /\ t.seq = r.seq + 1 /\ t.mode = r.mode /\ SameView(r, t) /\ Grounded(j, t)
        /\ Len(t.obs) = r.seq
    BY <1>g, <1>t, <2>1 DEF SameView
  <2>3. /\ ev \in Events /\ Admits(Ready(r.seq), ev) /\ ev.kind \in {"NowRecorded", "RandomRecorded"}
        /\ r.pos \in DOMAIN j /\ ev = j[r.pos]
    <3>1. ev.kind \in {"NowRecorded", "RandomRecorded"}
      BY <2>1, CommandFields DEF Matches
    <3>2. ev \in Events /\ Admits(Ready(r.seq), ev)
      BY <1>r, <1>j, <2>1, ReadNext
    <3>3. r.pos \in 2 .. Len(j) /\ r.history = j
      BY <1>r, <1>j, <2>1 DEF Unread, Runs
    <3> QED BY <1>r, <3>1, <3>2, <3>3 DEF NextRecorded
  <2>4. Settles(ev, r.seq) /\ ResultOf(ev) \in Results
    BY <1>r, <2>3, EventFields, EventsAfter, KindSets DEF Settles
  <2>5. /\ s.pc = "Workflow" /\ s.seq = r.seq + 1 /\ s.mode = t.mode
        /\ s.obs = Append(t.obs, ResultOf(ev)) /\ s.definition = t.definition /\ s.input = t.input
    <3>1. u \in Runs /\ u.pc = "Workflow" /\ u.seq = r.seq + 1 /\ u.mode = t.mode
          /\ u.obs = Append(t.obs, ResultOf(ev)) /\ u.definition = t.definition /\ u.input = t.input
      <4> HIDE DEF t
      <4> QED BY <2>2, <2>4, ReturnRun, ReturnView
    <3> HIDE DEF u
    <3> QED BY <3>1 DEF Runs
  <2> HIDE DEF s, t
  <2>6. Grounded(j, s) /\ Len(s.obs) = r.seq + 1
    BY <2>2, <2>3, <2>4, <2>5, GroundedReturn
  <2>7. RunSees(j, effects, s)
    BY <2>5, <2>6, AtWorkflowSees
  <2> QED BY <1>w, <2>1, <2>7, UpdateSees
<1>4. ASSUME NEW cmd \in Commands, ReplayScheduled(e, cmd) PROVE RecordInv'
  <2> DEFINE t == Taken(r)
             s1 == [t EXCEPT !.pc = "ReplayStep", !.pos = @ + 1, !.step = cmd.arg, !.attempt = 1]
             s2 == [t EXCEPT !.pc = "ReplayTimer", !.pos = @ + 1]
  <2>1. Takes(r, cmd) /\ Update(e, IF cmd.kind = "RunStep" THEN s1 ELSE s2)
    BY <1>4 DEF ReplayScheduled
  <2>2. t \in Runs /\ Position(t) = r.seq /\ Grounded(j, t) /\ Len(t.obs) = Position(t)
    BY <1>g, <1>t, <2>1 DEF SameView
  <2>3. ASSUME NEW s, s = s1 \/ s = s2 PROVE RunSees(j, effects, s)
    <3>1. /\ s.pc \in {"ReplayStep", "ReplayTimer"} /\ SameView(t, s) /\ s.mode = t.mode
          /\ s.seq = t.seq
      <4> HIDE DEF t
      <4> QED BY <2>2, <2>3 DEF Runs, SameView
    <3>2. Grounded(j, s) /\ Len(s.obs) = Position(s)
      <4>1. Grounded(j, s) BY <2>2, <3>1, GroundedKept
      <4> QED BY <2>2, <3>1, <4>1 DEF SameView, Position
    <3> QED BY <3>1, <3>2, AtReplaySees
  <2> HIDE DEF s1, s2
  <2> QED BY <1>w, <2>1, <2>3, UpdateSees
<1>5. ASSUME NEW cmd \in Commands, BeginCommand(e, cmd) PROVE RecordInv'
  <2> DEFINE t == GoLive(Taken(r))
             step == IF cmd.kind = "RunStep" THEN cmd.arg ELSE NoValue
  <2>1. Takes(r, cmd)
    BY <1>5 DEF BeginCommand
  <2>2. PICK ev \in FirstEvents(r.seq, cmd) : Update(e, [Begin(t, ev) EXCEPT !.step = step])
    BY <1>5 DEF BeginCommand
  <2> DEFINE b == Begin(t, ev)
             s == [b EXCEPT !.step = step]
  <2>3. ev \in Events /\ Matches(ev, cmd) /\ ev.kind \in CommandRecordKinds
    BY <1>r, FirstEvent, FirstEventMatches
  <2>4. t \in Runs /\ Position(t) = r.seq /\ t.mode = "Live" /\ SameView(r, t)
    <3>1. Taken(r) \in Runs /\ SameView(r, Taken(r)) /\ Position(Taken(r)) = r.seq
      BY <1>t, <2>1
    <3>2. SameView(Taken(r), t) /\ t \in Runs /\ t.mode = "Live" /\ t.seq = Taken(r).seq
      BY <3>1, ViewKept, GoLiveRun
    <3> QED BY <3>1, <3>2 DEF SameView, Position
  <2>5. b \in Runs /\ b.pc = "Appending" /\ b.pending = ev /\ b.seq = t.seq /\ b.mode = "Live"
        /\ SameView(t, b)
    <3> HIDE DEF t
    <3> QED BY <2>3, <2>4, BeginRun, ViewKept
  <2>6. s.pc = "Appending" /\ s.pending = ev /\ s.mode = "Live" /\ SameView(r, s)
        /\ Position(s) = r.seq
    <3> HIDE DEF b, t
    <3> QED BY <2>4, <2>5 DEF Runs, SameView, Position
  <2> HIDE DEF s
  <2>7. Grounded(j, s) /\ Len(s.obs) = Position(s)
    BY <1>g, <2>6, GroundedKept DEF SameView
  <2>8. cmd \in Code(s.definition, s.input, s.obs)
    BY <2>1, <2>6 DEF Takes, Issues, SameView
  <2>9. ev.kind \in PositionedKinds /\ ev.kind \notin {"StepCompleted", "StepFailed"}
    BY <2>3, KindSets
  <2>10. RunSees(j, effects, s)
    BY <2>3, <2>6, <2>7, <2>8, <2>9, AtAppendSees
  <2>11. Update(e, s)
    BY <2>2 DEF s
  <2> QED BY <1>w, <2>10, <2>11, UpdateSees
<1> QED BY <1>1, <1>2, <1>3, <1>4, <1>5 DEF Command

\* Replay inside a step or a timer preserves the invariant: a recorded outcome is
\* returned at its position (replay_step_outcome, resolve_sleep).
LEMMA ReplaySees ==
  ASSUME IInv, RecordInv, NEW e \in Engines,
         ReplayAttempt(e) \/ ReplayFollower(e) \/ RerunStep(e) \/ Rearm(e)
  PROVE  RecordInv'
<1> DEFINE r == run[e]
           j == journal
           ev == NextRecorded(r)
           p == Position(r)
<1>r. /\ r \in Runs /\ RunAgrees(j, r) /\ CursorOK(j, r)
      /\ j \in Seq(Events) /\ (j # <<>> => Legal(j)) /\ RunSees(j, effects, r)
  BY DEF IInv, TypeOK, HistoryLegal, RunAgrees, RecordInv
<1>p. r.pc \in {"ReplayStep", "ReplayTimer"}
  BY DEF ReplayAttempt, ReplayFollower, RerunStep, Rearm
<1>h. /\ Healthy(r) /\ r.mode = "Replaying" /\ r.history = j
      /\ r.pos \in 2 .. Len(j) + 1 /\ r.seq > 0
  BY <1>r, <1>p DEF RunAgrees, CursorOK, ReplayOK
<1>j. j # <<>> /\ Legal(j)
  <2>1. Len(<<>>) = 0 BY EmptySeq
  <2> QED BY <2>1, <1>r, <1>h
<1>q. p \in Seqs /\ p + 1 = r.seq
  BY <1>r, <1>h, PositionInRange
<1>g. Grounded(j, r) /\ Len(r.obs) = p
  <2>1. InCommand(r)
    BY <1>p DEF InCommand
  <2> QED BY <1>r, <1>p, <1>h, <2>1, GroundedRun DEF RunSees, ObservedOK
<1>1. CASE ReplayAttempt(e)
  <2> DEFINE s == [r EXCEPT !.pos = @ + 1, !.attempt = ev.attempt + 1]
  <2>1. s.pc = r.pc /\ SameView(r, s) /\ s.mode = r.mode /\ s.seq = r.seq
    BY <1>r DEF Runs, SameView
  <2>2. Update(e, s)
    BY <1>1 DEF ReplayAttempt
  <2> HIDE DEF s
  <2>3. Grounded(j, s) /\ Len(s.obs) = Position(s)
    <3>1. Grounded(j, s) BY <1>g, <2>1, GroundedKept
    <3> QED BY <1>g, <2>1, <3>1 DEF SameView, Position
  <2> QED BY <1>p, <2>1, <2>2, <2>3, AtReplaySees, UpdateSees
<1>2. CASE ReplayFollower(e)
  <2> DEFINE answers == IF r.pc = "ReplayStep" THEN {"StepCompleted", "StepFailed"}
                                               ELSE {"TimerFired"}
             u == Return(r, ResultOf(ev))
             s == [u EXCEPT !.pos = @ + 1]
             f == Fault(r, "Nondeterminism")
  <2>1. Unread(r) /\ Update(e, IF ev.kind \in answers THEN s ELSE f)
    BY <1>2 DEF ReplayFollower
  <2>2. RunSees(j, effects, f)
    <3>1. "Nondeterminism" \in Faults BY DEF Faults
    <3> QED BY <1>r, <1>g, <3>1, FaultSees
  <2>3. CASE ev.kind \in answers
    <3>1. ev.kind \in SettlingKinds
      BY <2>3, KindSets
    <3>2. r.pos \in DOMAIN j /\ ev = j[r.pos] /\ ev \in Events
      <4>1. r.pos \in 2 .. Len(j)
        BY <1>r, <1>h, <2>1 DEF Unread, Runs
      <4>2. r.pos \in DOMAIN j
        BY <1>r, <4>1
      <4> QED BY <1>r, <1>h, <4>2, AppendedAt DEF NextRecorded
    <3>3. ev.seq = p
      <4>1. Admits(CursorState(j, r), ev)
        BY <1>r, <1>j, <2>1, ReadNext
      <4>2. CursorState(j, r).seq = p
        BY <1>r, <1>p DEF RunAgrees, ReplayOK, HistoryState
      <4> QED BY <3>1, <3>2, <4>1, <4>2, AdmittedAfter, KindSets
    <3>4. Settles(ev, Len(r.obs)) /\ ResultOf(ev) \in Results
      BY <1>g, <3>1, <3>2, <3>3, EventFields DEF Settles
    <3>5. /\ s.pc = "Workflow" /\ s.seq = r.seq /\ s.mode = r.mode
          /\ s.obs = Append(r.obs, ResultOf(ev)) /\ s.definition = r.definition /\ s.input = r.input
      <4>1. u \in Runs /\ u.pc = "Workflow" /\ u.seq = r.seq /\ u.mode = r.mode
            /\ u.obs = Append(r.obs, ResultOf(ev)) /\ u.definition = r.definition /\ u.input = r.input
        BY <1>r, <3>4, ReturnRun, ReturnView
      <4> HIDE DEF u
      <4> QED BY <4>1 DEF Runs
    <3> HIDE DEF s
    <3>6. Grounded(j, s) /\ Len(s.obs) = p + 1
      BY <1>r, <1>g, <3>2, <3>4, <3>5, GroundedReturn
    <3>7. RunSees(j, effects, s)
      BY <1>q, <3>5, <3>6, AtWorkflowSees
    <3> QED BY <1>p, <2>1, <2>3, <3>7, UpdateSees
  <2>4. CASE ev.kind \notin answers
    <3>1. Update(e, f) BY <2>1, <2>4
    <3> HIDE DEF f
    <3> QED BY <1>p, <2>2, <3>1, UpdateSees
  <2> QED BY <2>3, <2>4
<1>b. ASSUME NEW new \in Events, new.kind \in {"StepStarted", "TimerFired"}
      PROVE  RunSees(j, effects, Begin(GoLive(r), new))
  <2> DEFINE t == GoLive(r)
             s == Begin(t, new)
  <2>1. t \in Runs /\ t.mode = "Live" /\ t.seq = r.seq /\ SameView(r, t)
    BY <1>r, GoLiveRun, ViewKept
  <2>2. s.pc = "Appending" /\ s.pending = new /\ s.mode = "Live" /\ s.seq = r.seq /\ SameView(r, s)
    <3> HIDE DEF t
    <3>1. s.pc = "Appending" /\ s.pending = new /\ s.mode = "Live" /\ s.seq = r.seq /\ SameView(t, s)
      BY <1>b, <2>1, BeginRun, ViewKept
    <3> QED BY <2>1, <3>1 DEF SameView
  <2> HIDE DEF s
  <2>3. Grounded(j, s) /\ Len(s.obs) = Position(s)
    <3>1. Grounded(j, s) BY <1>g, <2>2, GroundedKept
    <3> QED BY <1>g, <2>2, <3>1 DEF SameView, Position
  <2>4. /\ new.kind \in PositionedKinds
        /\ new.kind \notin CommandRecordKinds \cup {"StepCompleted", "StepFailed"}
    BY <1>b, KindSets
  <2>5. RunSees(j, effects, s)
    BY <2>2, <2>3, <2>4, AtAppendSees
  <2> QED BY <2>5 DEF s
<1>3. CASE RerunStep(e)
  <2>1. CASE r.attempt > MaxAttempt
    <3>1. "Attempt" \in Faults BY DEF Faults
    <3>2. RunSees(j, effects, Fault(r, "Attempt"))
      BY <1>r, <1>g, <3>1, FaultSees
    <3>3. Update(e, Fault(r, "Attempt"))
      BY <1>3, <2>1 DEF RerunStep
    <3> QED BY <1>p, <3>2, <3>3, UpdateSees
  <2>2. CASE ~ (r.attempt > MaxAttempt)
    <3> DEFINE start == StepStarted(p, r.attempt)
    <3>1. r.attempt \in Attempts
      <4>1. r.attempt \in 0 .. MaxAttempt + 1 /\ r.attempt > 0
        BY <1>3, <1>r DEF RunAgrees, ReplayOK, RerunStep, Runs
      <4> QED BY <2>2, <4>1, AttemptAssumption DEF Attempts
    <3>2. start \in Events /\ start.kind = "StepStarted"
      BY <1>q, <3>1, EventsBuilt DEF StepStarted, Event
    <3>3. Update(e, Begin(GoLive(r), start))
      BY <1>3, <2>2 DEF RerunStep
    <3> HIDE DEF start
    <3> QED BY <1>b, <1>p, <3>2, <3>3, UpdateSees
  <2> QED BY <2>1, <2>2
<1>4. CASE Rearm(e)
  <2> DEFINE fired == TimerFired(p)
  <2>1. Update(e, Begin(GoLive(r), fired))
    BY <1>4 DEF Rearm
  <2>2. fired \in Events /\ fired.kind = "TimerFired"
    BY <1>q, EventsBuilt DEF TimerFired, Event
  <2> HIDE DEF fired
  <2> QED BY <1>b, <1>p, <2>1, <2>2, UpdateSees
<1> QED BY <1>1, <1>2, <1>3, <1>4

\* Live execution between two appends preserves the invariant: a body runs under
\* the attempt on record, and its outcome is what goes to the store (run_live).
LEMMA LiveSees ==
  ASSUME IInv, RecordInv, NEW e \in Engines,
         StartFirstAttempt(e) \/ RunBody(e) \/ Wake(e) \/ ReturnRecorded(e)
  PROVE  RecordInv'
<1> DEFINE r == run[e]
           j == journal
           p == Position(r)
<1>r. /\ r \in Runs /\ RunAgrees(j, r) /\ CursorOK(j, r) /\ CheckpointOK(j, r)
      /\ j \in Seq(Events) /\ effects \in Seq(Effects) /\ RunSees(j, effects, r)
  BY DEF IInv, TypeOK, RunAgrees, RecordInv
<1>p. r.pc \in {"AfterStepScheduled", "AfterStepStarted", "AfterStepCompleted",
                "AfterTimerScheduled", "AfterTimerFired"}
  BY DEF StartFirstAttempt, RunBody, Wake, ReturnRecorded
<1>h. j # <<>> /\ r.seq > 0 /\ Healthy(r) /\ r.mode = "Live"
  BY <1>r, <1>p, CommandPcs DEF CheckpointOK, CursorOK
<1>q. p \in Seqs /\ p + 1 = r.seq
  BY <1>r, <1>h, PositionInRange
<1>g. Grounded(j, r) /\ Len(r.obs) = p
  <2>1. InCommand(r)
    BY <1>p, CommandPcs DEF InCommand
  <2> QED BY <1>r, <1>p, <1>h, <2>1, GroundedRun DEF RunSees, ObservedOK
<1>b. ASSUME NEW t \in Runs, SameView(r, t), t.mode = "Live", t.seq = r.seq,
             NEW new \in Events, NEW performed,
             new.kind \in {"StepStarted", "TimerFired", "StepCompleted", "StepFailed"},
             new.kind \in {"StepCompleted", "StepFailed"} =>
               /\ performed # <<>>
               /\ performed[Len(performed)].seq = new.seq
               /\ performed[Len(performed)].result = ResultOf(new)
      PROVE  RunSees(j, performed, Begin(t, new))
  <2> DEFINE s == Begin(t, new)
  <2>1. s.pc = "Appending" /\ s.pending = new /\ s.mode = "Live" /\ s.seq = r.seq /\ SameView(r, s)
    <3>1. s.pc = "Appending" /\ s.pending = new /\ s.mode = "Live" /\ s.seq = r.seq /\ SameView(t, s)
      BY <1>b, BeginRun, ViewKept
    <3> QED BY <1>b, <3>1 DEF SameView
  <2> HIDE DEF s
  <2>2. Grounded(j, s) /\ Len(s.obs) = Position(s)
    <3>1. Grounded(j, s) BY <1>g, <2>1, GroundedKept
    <3> QED BY <1>g, <2>1, <3>1 DEF SameView, Position
  <2>3. new.kind \in PositionedKinds /\ new.kind \notin CommandRecordKinds
    BY <1>b, KindSets
  <2>4. RunSees(j, performed, s)
    BY <1>b, <2>1, <2>2, <2>3, AtAppendSees
  <2> QED BY <2>4 DEF s
<1>1. CASE StartFirstAttempt(e)
  <2> DEFINE start == StepStarted(p, 1)
             t == [r EXCEPT !.attempt = 1]
  <2>1. Update(e, Begin(t, start))
    BY <1>1 DEF StartFirstAttempt
  <2>2. 1 \in Attempts /\ 1 \in 0 .. MaxAttempt + 1
    BY AttemptAssumption DEF Attempts
  <2>3. start \in Events /\ start.kind = "StepStarted"
    BY <1>q, <2>2, EventsBuilt DEF StepStarted, Event
  <2>4. t \in Runs /\ t.mode = "Live" /\ t.seq = r.seq /\ SameView(r, t)
    BY <1>r, <1>h, <2>2, AttemptRun DEF SameView, Runs
  <2> HIDE DEF start, t
  <2>5. RunSees(j, effects, Begin(t, start))
    BY <1>b, <2>3, <2>4
  <2> QED BY <1>p, <2>1, <2>5, UpdateSees
<1>2. CASE RunBody(e)
  <2>1. r.pc = "AfterStepStarted" BY <1>2 DEF RunBody
  <2>2. r.attempt \in Attempts /\ r.step \in StepNames
    BY <1>r, <2>1 DEF CheckpointOK
  <2> DEFINE outcomes == {StepCompleted(p, v) : v \in Payloads}
                           \cup {StepFailed(p, r.attempt, x) : x \in StepErrors}
             effect(ev) == [seq |-> p, attempt |-> r.attempt, step |-> r.step,
                            result |-> ResultOf(ev)]
  <2>3. PICK ev \in outcomes : /\ effects' = Append(effects, effect(ev))
                               /\ Set(e, Begin(r, ev))
    BY <1>2 DEF RunBody
  <2>4. ev \in Events /\ ev.seq = p /\ ev.kind \in {"StepCompleted", "StepFailed"}
    BY <1>q, <2>2, EventsBuilt DEF StepCompleted, StepFailed, Event
  <2>5. ResultOf(ev) \in Results
    BY <2>4, EventFields, KindSets
  <2> DEFINE x == effect(ev)
  <2>6. x \in Effects /\ x.seq = p /\ x.attempt = r.attempt /\ x.result = ResultOf(ev)
    BY <1>q, <2>2, <2>5 DEF Effects
  <2> HIDE DEF outcomes, x
  <2>7. effects' # <<>> /\ effects'[Len(effects')] = x
    <3>1. effects' = Append(effects, x) BY <2>3 DEF x
    <3> QED BY <1>r, <2>6, <3>1, AppendProperties
  <2>8. RunSees(j, effects', Begin(r, ev))
    <3>1. SameView(r, r) BY DEF SameView
    <3> QED BY <1>b, <1>h, <1>r, <2>4, <2>6, <2>7, <3>1
  <2>9. EffectAtRisk(Begin(r, ev))
    BY <1>r, <2>4, BeginRun DEF EffectAtRisk
  <2>10. effects' = Append(effects, x) /\ run' = [run EXCEPT ![e] = Begin(r, ev)]
         /\ UNCHANGED <<journal, replies, interruptions>>
    BY <1>2, <2>3 DEF RunBody, Set, x
  <2> QED BY <2>1, <2>6, <2>8, <2>9, <2>10, BodyPreserves
<1>3. CASE Wake(e)
  <2> DEFINE fired == TimerFired(p)
  <2>1. Update(e, Begin(r, fired))
    BY <1>3 DEF Wake
  <2>2. fired \in Events /\ fired.kind = "TimerFired"
    BY <1>q, EventsBuilt DEF TimerFired, Event
  <2>3. SameView(r, r) BY DEF SameView
  <2> HIDE DEF fired
  <2>4. RunSees(j, effects, Begin(r, fired))
    BY <1>b, <1>h, <1>r, <2>2, <2>3
  <2> QED BY <1>p, <2>1, <2>4, UpdateSees
<1>4. CASE ReturnRecorded(e)
  <2> DEFINE ev == r.pending
             s == Return(r, ResultOf(ev))
             n == Len(j)
  <2>1. r.pc \in {"AfterStepCompleted", "AfterTimerFired"} /\ Update(e, s)
    BY <1>4 DEF ReturnRecorded
  <2>2. ev = j[n] /\ n \in DOMAIN j /\ ev \in Events
    BY <1>r, <1>h, <2>1, JournalEnd DEF RunSees, RecordedOK
  <2>3. EndState(j) = Ready(r.seq) /\ ev.kind \in SettlingKinds
    BY <1>r, <2>1, KindSets DEF CheckpointOK
  <2>4. ev.seq = p
    <3>1. Ready(r.seq).seq = r.seq BY DEF Ready, HistoryState
    <3>2. r.seq = ev.seq + 1 BY <2>2, <2>3, <3>1, StateTells DEF EndState
    <3>3. ev.seq \in Nat BY <2>2, EventFields, SeqAssumption DEF Seqs
    <3> QED BY <3>2, <3>3 DEF Position
  <2>5. Settles(ev, Len(r.obs)) /\ ResultOf(ev) \in Results
    BY <1>g, <2>2, <2>3, <2>4, EventFields DEF Settles
  <2>6. /\ s.pc = "Workflow" /\ s.seq = r.seq /\ s.mode = r.mode
        /\ s.obs = Append(r.obs, ResultOf(ev)) /\ s.definition = r.definition /\ s.input = r.input
    BY <1>r, <2>5, ReturnRun, ReturnView
  <2> HIDE DEF s
  <2>7. Grounded(j, s) /\ Len(s.obs) = p + 1
    BY <1>r, <1>g, <2>2, <2>5, <2>6, GroundedReturn
  <2>8. RunSees(j, effects, s)
    BY <1>q, <2>6, <2>7, AtWorkflowSees
  <2> QED BY <1>p, <2>1, <2>8, UpdateSees
<1> QED BY <1>1, <1>2, <1>3, <1>4

\* An acknowledged append preserves the invariant: the run goes on from what is
\* now durable.
LEMMA AppendSees ==
  ASSUME IInv, RecordInv, NEW e \in Engines, AppendEvent(e)
  PROVE  RecordInv'
<1> DEFINE r == run[e]
           ev == r.pending
           j == journal
           n == Len(j) + 1
<1>r. /\ r \in Runs /\ CursorOK(j, r) /\ AppendingOK(j, r)
      /\ RunSees(j, effects, r) /\ EffectsBounded(j, effects) /\ effects \in Seq(Effects)
  BY DEF IInv, TypeOK, RunAgrees, RecordInv
<1>p. r.pc = "Appending" /\ AppendPending(e) /\ journal' = Append(j, ev) /\ effects' = effects
      /\ interruptions' = interruptions
  BY DEF AppendEvent, AppendThenCheckpoint, AppendThenReturn, AppendStart, AppendTerminal,
         AppendPending
<1>e. /\ ev \in Events /\ j \in Seq(Events)
      /\ \/ j = <<>> /\ ev.kind = "ExecutionStarted"
         \/ j # <<>> /\ Legal(j) /\ Admits(EndState(j), ev)
      /\ Grounded(j, r)
      /\ ev.kind \in PositionedKinds => Len(r.obs) = Position(r) /\ ev.seq = Position(r)
  BY <1>p, PendingEvent
<1>h. Healthy(r) /\ (ev.kind \notin TerminalKinds => r.mode = "Live")
      /\ (ev.kind \in PositionedKinds => r.seq > 0)
  BY <1>r, <1>p DEF AppendingOK, CursorOK
<1>j. /\ n \in DOMAIN journal' /\ journal'[n] = ev /\ n = Len(journal')
      /\ (j = <<>> => journal'[1] = ev)
  BY <1>p, <1>e, AppendedAt
<1>1. CASE AppendThenCheckpoint(e)
  <2> DEFINE s == [r EXCEPT !.pc = CheckpointAfter[ev.kind]]
  <2>1. ev.kind \in DOMAIN CheckpointAfter /\ run' = [run EXCEPT ![e] = s] /\ replies' = replies
    BY <1>1 DEF AppendThenCheckpoint, Set
  <2>2. /\ CheckpointAfter[ev.kind] \in {"AfterStepScheduled", "AfterStepStarted",
             "AfterStepCompleted", "AfterTimerScheduled", "AfterTimerFired"}
        /\ CheckpointAfter[ev.kind] = "AfterStepStarted" => ev.kind = "StepStarted"
    BY <2>1, Checkpoints
  <2>3. ev.kind \in PositionedKinds /\ ev.kind \notin TerminalKinds \cup {"ExecutionStarted"}
    BY <2>1, Checkpoints, KindSets
  <2>4. /\ s.pc = CheckpointAfter[ev.kind] /\ s.pending = ev /\ s.mode = "Live" /\ s.seq = r.seq
        /\ s.attempt = r.attempt /\ SameView(r, s)
    BY <1>r, <1>h, <2>3 DEF Runs, SameView
  <2> HIDE DEF s
  <2>5. Grounded(journal', s) /\ Len(s.obs) = Position(s)
    <3>1. j # <<>> BY <1>e, <2>3
    <3>2. Grounded(journal', s) BY <1>e, <1>p, <2>4, <3>1, GroundedGrows
    <3> QED BY <1>e, <2>3, <2>4, <3>2 DEF SameView, Position
  <2>6. ASSUME s.pc = "AfterStepStarted", NEW k \in DOMAIN effects, effects[k].seq = Position(s)
        PROVE  effects[k].attempt < s.attempt
    <3>1. /\ ev.kind = "StepStarted" /\ ev.attempt = s.attempt /\ ev.seq = Position(s)
          /\ ev.attempt \in Nat
      <4>1. ev.kind = "StepStarted" BY <2>2, <2>4, <2>6
      <4>2. ev.attempt = s.attempt /\ ev.seq = Position(s)
        BY <1>e, <1>p, <1>r, <2>3, <2>4, <4>1 DEF AppendingOK, Position
      <4> QED BY <1>e, <4>1, <4>2, EventFields, AttemptAssumption DEF Attempts
    <3>2. /\ j # <<>> /\ Continues(j) /\ EndState(j).seq = ev.seq /\ EndState(j).seq \in Nat
          /\ ev.attempt = EndState(j).attempt + 1
      BY <1>e, <2>3, <3>1, AppendContinues, JournalEnd, AdmittedAfter
    <3>3. EndState(j).phase = "Started" /\ effects[k].attempt <= EndState(j).attempt
      BY <1>r, <2>6, <3>1, <3>2 DEF EffectsBounded
    <3>4. EndState(j).attempt \in Nat /\ effects[k].attempt \in Nat
      <4>1. j[Len(j)] \in Events /\ EndState(j) = StateAfter(j[Len(j)])
        BY <1>e, <3>2, JournalEnd
      <4>2. EndState(j).attempt = j[Len(j)].attempt
        BY <3>3, <4>1, StateTells
      <4>3. effects[k] \in Effects
        BY <1>r, ElementOfSeq
      <4> QED BY <4>1, <4>2, <4>3, EventFields, AttemptAssumption DEF Effects, Attempts
    <3> QED BY <3>1, <3>2, <3>3, <3>4
  <2>7. RunSees(journal', effects, s)
    BY <1>j, <2>2, <2>4, <2>5, <2>6, AtCheckpointSees
  <2> QED BY <1>p, <2>1, <2>7, AppendPreserves
<1>2. CASE AppendThenReturn(e)
  <2> DEFINE s == Return(r, ResultOf(ev))
  <2>1. ev.kind \in {"NowRecorded", "RandomRecorded", "StepFailed"} /\ run' = [run EXCEPT ![e] = s]
        /\ replies' = replies
    BY <1>2 DEF AppendThenReturn, Set
  <2>2. /\ ev.kind \in SettlingKinds /\ ev.kind \in PositionedKinds
        /\ ev.kind \notin TerminalKinds \cup {"ExecutionStarted"}
    BY <2>1, KindSets
  <2>3. Settles(ev, Len(r.obs)) /\ ResultOf(ev) \in Results
    BY <1>e, <2>2, EventFields DEF Settles
  <2>4. /\ s.pc = "Workflow" /\ s.seq = r.seq /\ s.mode = "Live"
        /\ s.obs = Append(r.obs, ResultOf(ev)) /\ s.definition = r.definition /\ s.input = r.input
    BY <1>r, <1>h, <2>2, <2>3, ReturnRun, ReturnView
  <2> HIDE DEF s
  <2>5. Grounded(journal', r)
    <3>1. SameView(r, r) BY DEF SameView
    <3> QED BY <1>e, <1>h, <1>p, <2>2, <3>1, GroundedGrows
  <2>6. Grounded(journal', s) /\ Len(s.obs) = Position(r) + 1
    <3>1. /\ n \in DOMAIN journal' /\ Settles(journal'[n], Len(r.obs))
          /\ ResultOf(journal'[n]) = ResultOf(ev)
      BY <1>j, <2>3
    <3>2. Len(r.obs) = Position(r) BY <1>e, <2>2
    <3>3. s.mode \in {r.mode, "Live"} BY <2>4
    <3>4. /\ r \in Runs /\ ResultOf(ev) \in Results /\ s.obs = Append(r.obs, ResultOf(ev))
          /\ s.definition = r.definition /\ s.input = r.input
      BY <1>r, <2>3, <2>4
    <3> HIDE DEF n, ev
    <3> QED BY <2>5, <3>1, <3>2, <3>3, <3>4, GroundedReturn
  <2>7. Position(r) + 1 = r.seq
    BY <1>h, <1>r, <2>2, PositionInRange
  <2>8. RunSees(journal', effects, s)
    BY <2>4, <2>6, <2>7, AtWorkflowSees
  <2> QED BY <1>p, <2>1, <2>8, AppendPreserves
<1>3. CASE AppendStart(e)
  <2> DEFINE s == Back(r)
  <2>1. ev.kind = "ExecutionStarted" /\ run' = [run EXCEPT ![e] = s] /\ replies' = replies
    BY <1>3 DEF AppendStart, Set
  <2>2. r.seq = 0 /\ r.mode = "Live" /\ j = <<>> /\ ev.value = InvocationOf(r)
    BY <1>h, <1>p, <1>r, <2>1, KindSets DEF AppendingOK, RunSees, InvocationOK
  <2>3. ~ InCommand(r)
    BY <1>p, <2>1, KindSets, CommandPcs DEF InCommand
  <2>4. Len(r.obs) = 0 /\ r.obs \in Seq(Results)
    BY <1>h, <1>r, <2>2, <2>3 DEF RunSees, ObservedOK, Runs
  <2>5. /\ s.pc = "Workflow" /\ s.seq = 0 /\ s.mode = "Live" /\ SameView(r, s)
    BY <1>r, <2>2, BackRun, ViewKept
  <2> HIDE DEF s
  <2>6. DOMAIN s.obs = {} /\ Len(s.obs) = 0
    BY <2>4, <2>5, EmptySeq DEF SameView
  <2>7. Grounded(journal', s)
    BY <1>j, <2>2, <2>5, <2>6 DEF Grounded, Seen, SameView, InvocationOf
  <2>8. RunSees(journal', effects, s)
    BY <2>5, <2>6, <2>7, AtWorkflowSees
  <2> QED BY <1>p, <2>1, <2>8, AppendPreserves
<1>4. CASE AppendTerminal(e)
  BY <1>4, <1>p, IdleSees, AppendPreserves DEF AppendTerminal, EndRun, Set
<1> QED BY <1>1, <1>2, <1>3, <1>4 DEF AppendEvent

\* Engine::finish preserves the invariant: what it seals is what the code returned.
LEMMA LeaveSees ==
  ASSUME IInv, RecordInv, NEW e \in Engines, Leave(e)
  PROVE  RecordInv'
<1> DEFINE r == run[e]
<1>r. r \in Runs /\ RunSees(journal, effects, r) /\ journal \in Seq(Events)
      /\ CursorOK(journal, r) /\ WorkflowOK(journal, r)
  BY DEF IInv, TypeOK, RunAgrees, RecordInv
<1>p. r.pc = "Workflow"
  BY DEF Leave, FinishFaulted, FinishUnconsumed, Finish, Returns
<1>1. CASE FinishFaulted(e)
  BY <1>1, <1>p, EndSees DEF FinishFaulted
<1>2. ASSUME NEW outcome \in Outcomes, FinishUnconsumed(e, outcome) PROVE RecordInv'
  BY <1>2, <1>p, EndSees DEF FinishUnconsumed
<1>3. ASSUME NEW outcome \in Outcomes, Finish(e, outcome) PROVE RecordInv'
  <2> DEFINE ev == IF outcome.kind = "Ok" THEN ExecutionCompleted(outcome.arg)
                                          ELSE ExecutionFailed(outcome.arg)
             s == Begin(r, ev)
  <2>1. Healthy(r) /\ Update(e, s) /\ outcome \in Code(r.definition, r.input, r.obs)
    BY <1>3 DEF Finish, Returns
  <2>2. ev \in Events /\ ev.kind \in TerminalKinds /\ OutcomeOf(ev) = outcome
    <3>1. CASE outcome.kind = "Ok"
      <4>1. outcome.arg \in Payloads /\ outcome = [kind |-> "Ok", arg |-> outcome.arg]
        BY <3>1 DEF Outcomes
      <4>2. ev = ExecutionCompleted(outcome.arg) /\ ev.kind = "ExecutionCompleted" /\ ev.value = outcome.arg
        BY <3>1 DEF ExecutionCompleted, Event
      <4> QED BY <4>1, <4>2, EventsBuilt, KindSets DEF OutcomeOf
    <3>2. CASE outcome.kind # "Ok"
      <4>1. outcome.arg \in WorkflowErrors /\ outcome = [kind |-> "Err", arg |-> outcome.arg]
        BY <3>2 DEF Outcomes
      <4>2. ev = ExecutionFailed(outcome.arg) /\ ev.kind = "ExecutionFailed" /\ ev.value = outcome.arg
        BY <3>2 DEF ExecutionFailed, Event
      <4> QED BY <4>1, <4>2, EventsBuilt, KindSets DEF OutcomeOf
    <3> QED BY <3>1, <3>2
  <2>3. Grounded(journal, r) /\ Len(r.obs) = r.seq
    <3>1. ~ InCommand(r)
      BY <1>p, CommandPcs DEF InCommand
    <3> QED BY <1>r, <1>p, <2>1, <3>1, GroundedRun DEF RunSees, ObservedOK
  <2> HIDE DEF ev
  <2>4. s.pc = "Appending" /\ s.pending = ev /\ s.mode = r.mode /\ s.seq = r.seq /\ SameView(r, s)
    BY <1>r, <2>2, BeginRun, ViewKept
  <2> HIDE DEF s
  <2>5. Grounded(journal, s) /\ Len(s.obs) = s.seq
    BY <2>3, <2>4, GroundedKept DEF SameView
  <2>6. /\ ~ InCommand(s) /\ ~ EffectAtRisk(s)
        /\ ev.kind \notin CommandRecordKinds \cup {"ExecutionStarted"}
    BY <2>2, <2>4, KindSets, CommandPcs DEF InCommand, EffectAtRisk
  <2>7. OutcomeOf(s.pending) \in Code(s.definition, s.input, s.obs)
    BY <2>1, <2>2, <2>4 DEF SameView
  <2>8. ObservedOK(journal, s) /\ InvocationOK(journal, s)
    BY <2>4, <2>5, <2>6 DEF ObservedOK, InvocationOK, Grounded
  <2>9. EndState(journal) = Ready(s.seq)
    <3>1. ~ Unread(r)
      BY <1>3 DEF Finish, ReplayComplete
    <3> QED BY <1>p, <1>r, <2>1, <2>4, <3>1, ReadAll DEF WorkflowOK
  <2>10. PendingIssued(s) /\ BodyOK(effects, s) /\ RecordedOK(journal, s)
    BY <2>4, <2>5, <2>6, <2>7, <2>9 DEF PendingIssued, BodyOK, RecordedOK, Grounded
  <2> QED BY <1>p, <2>1, <2>8, <2>10, UpdateSees DEF RunSees
<1> QED BY <1>1, <1>2, <1>3 DEF Leave

\* A kill, a failpoint, a failed load and an append of unknown outcome preserve the
\* invariant: what the run had seen stays on record.
LEMMA InterruptionSees ==
  ASSUME IInv, RecordInv, NEW e \in Engines, Interruption(e)
  PROVE  RecordInv'
<1> DEFINE r == run[e]
           ev == r.pending
<1>r. r \in Runs /\ CursorOK(journal, r) /\ RunSees(journal, effects, r)
  BY DEF IInv, TypeOK, RunAgrees, RecordInv
<1>1. CASE Kill(e)
  BY <1>1, EndSees DEF Kill, Interrupt
<1>2. CASE InjectCrash(e)
  <2>1. r.pc \notin {"Idle", "Starting", "Recovering"}
    BY <1>2, CommandPcs DEF InjectCrash, CrashPointOf
  <2>2. "InjectedCrash" \in Faults BY DEF Faults
  <2>3. RunSees(journal, effects, Fault(r, "InjectedCrash"))
    BY <1>r, <2>1, <2>2, GroundedRun, FaultSees
  <2>4. RepliesAreDurable'
    BY <1>2 DEF InjectCrash, RecordInv, RepliesAreDurable
  <2> QED BY <1>2, <2>1, <2>3, <2>4, QuietPreserves DEF InjectCrash, Set, Interrupt
<1>3. CASE CommandAppendFails(e)
  <2> DEFINE s == Fault(r, "Journal")
  <2>1. /\ r.pc = "Appending" /\ ev.kind \notin LifecycleKinds /\ run' = [run EXCEPT ![e] = s]
        /\ effects' = effects /\ replies' = replies /\ interruptions' = interruptions + 1
        /\ (journal' = journal \/ AppendPending(e))
    BY <1>3 DEF CommandAppendFails, AppendUncertain, AppendPending, Set, Interrupt
  <2>2. "Journal" \in Faults BY DEF Faults
  <2>3. CASE journal' = journal
    <3>1. RunSees(journal, effects, s)
      BY <1>r, <2>1, <2>2, GroundedRun, FaultSees
    <3>2. RepliesAreDurable'
      BY <2>1, <2>3 DEF RecordInv, RepliesAreDurable
    <3> HIDE DEF s
    <3> QED BY <2>1, <2>3, <3>1, <3>2, QuietPreserves
  <2>4. CASE AppendPending(e)
    <3>1. /\ ev \in Events /\ journal \in Seq(Events) /\ journal # <<>> /\ Grounded(journal, r)
          /\ journal' = Append(journal, ev) /\ r.mode = "Live" /\ SameView(r, r)
      <4>1. ev.kind \notin TerminalKinds /\ ev.kind # "ExecutionStarted"
        BY <2>1 DEF LifecycleKinds
      <4>2. SameView(r, r) BY DEF SameView
      <4>3. r.mode = "Live" BY <1>r, <2>1, <4>1 DEF CursorOK
      <4>4. journal' = Append(journal, ev) BY <2>4 DEF AppendPending
      <4> QED BY <2>1, <4>1, <4>2, <4>3, <4>4, PendingEvent
    <3>2. Grounded(journal', r)
      BY <3>1, GroundedGrows
    <3>3. RunSees(journal', effects, s)
      BY <1>r, <2>2, <3>2, FaultSees
    <3> HIDE DEF s
    <3> QED BY <2>1, <2>4, <3>3, AppendPreserves
  <2> QED BY <2>1, <2>3, <2>4
<1>4. CASE LifecycleAppendFails(e)
  <2>1. /\ r.pc = "Appending" /\ EndRun(e)
        /\ effects' = effects /\ replies' = replies /\ interruptions' = interruptions + 1
        /\ (journal' = journal \/ AppendPending(e))
    BY <1>4 DEF LifecycleAppendFails, AppendUncertain, AppendPending, Interrupt
  <2>2. CASE journal' = journal
    BY <2>1, <2>2, EndSees
  <2>3. CASE AppendPending(e)
    BY <2>1, <2>3, IdleSees, AppendPreserves DEF EndRun, Set
  <2> QED BY <2>1, <2>2, <2>3
<1>5. CASE LoadFails(e)
  BY <1>5, EndSees DEF LoadFails, Interrupt
<1> QED BY <1>1, <1>2, <1>3, <1>4, <1>5 DEF Interruption

\* The invariant holds before any engine runs.
LEMMA InitRecords == Init => RecordInv
<1> SUFFICES ASSUME Init PROVE RecordInv
  OBVIOUS
<1>1. /\ journal = <<>> /\ effects = <<>> /\ replies = {} /\ interruptions = 0
      /\ run = [f \in Engines |-> IdleRun]
  BY DEF Init
<1>2. DOMAIN <<>> = {} /\ Len(<<>>) = 0
  BY EmptySeq
<1>3. EffectsFollowAttempts /\ EffectsBounded(journal, effects) /\ OutcomeWasPerformed
      /\ RepliesAreDurable
  BY <1>1, <1>2 DEF EffectsFollowAttempts, EffectsBounded, OutcomeWasPerformed, RepliesAreDurable
<1>4. RepeatsArePaid
  <2> DEFINE at == {effects[k].seq : k \in DOMAIN effects}
  <2>1. at = {} /\ ~ Lost
    BY <1>1, <1>2 DEF Lost
  <2>2. Len(effects) = 0 /\ interruptions = 0
    BY <1>1, <1>2
  <2>3. RepeatsArePaid <=>
          Len(effects) + (IF Lost THEN 1 ELSE 0) <= Cardinality(at) + interruptions
    BY DEF RepeatsArePaid
  <2> HIDE DEF at
  <2>4. Cardinality(at) = 0
    BY <2>1, FS_EmptySet
  <2> QED BY <2>1, <2>2, <2>3, <2>4
<1>5. \A e \in Engines : RunSees(journal, effects, run[e])
  BY <1>1, IdleSees
<1> QED BY <1>1, <1>3, <1>4, <1>5, RecordEmpty DEF RecordInv

\* Every step of every engine preserves the invariant.
LEMMA NextRecords == IInv /\ RecordInv /\ [Next]_vars => RecordInv'
<1> SUFFICES ASSUME IInv, RecordInv, [Next]_vars PROVE RecordInv'
  OBVIOUS
<1>1. CASE UNCHANGED vars
  BY <1>1 DEF vars, RecordInv, EffectsFollowAttempts, OutcomeWasPerformed, RepliesAreDurable,
              RepeatsArePaid, Lost
<1>2. ASSUME NEW e \in Engines, Acquire(e) PROVE RecordInv'
  BY <1>2, EntrySees DEF Acquire
<1>3. ASSUME NEW e \in Engines, Proceed(e) PROVE RecordInv'
  <2>1. CASE Enter(e) BY <2>1, EntrySees
  <2>2. CASE Command(e) BY <2>2, CommandSees
  <2>3. CASE Resolve(e) BY <2>3, ReplaySees, LiveSees DEF Resolve
  <2>4. CASE AppendEvent(e) BY <2>4, AppendSees
  <2>5. CASE Leave(e) BY <2>5, LeaveSees
  <2> QED BY <1>3, <2>1, <2>2, <2>3, <2>4, <2>5 DEF Proceed
<1>4. ASSUME NEW e \in Engines, Interruption(e) PROVE RecordInv'
  BY <1>4, InterruptionSees
<1> QED BY <1>1, <1>2, <1>3, <1>4 DEF Next

-----------------------------------------------------------------------------
(* What a step may do.                                                     *)

\* Only a body that runs changes the effects.
LEMMA OnlyBodiesRun ==
  ASSUME [Next]_vars, effects' # effects
  PROVE  \E e \in Engines : RunBody(e)
<1>1. ASSUME NEW e \in Engines, Acquire(e) \/ Enter(e) \/ Command(e) PROVE effects' = effects
  BY <1>1 DEF Acquire, RunAcquire, RecoverAcquire, Enter, StartExisting, StartAbsent,
     RecoverRejected, RecoverTerminal, RecoverRunning, Command, SequenceExhausted, Diverges,
     ReplayReading, ReplayScheduled, BeginCommand, Update
<1>2. ASSUME NEW e \in Engines, Resolve(e), ~ RunBody(e) PROVE effects' = effects
  BY <1>2 DEF Resolve, ReplayAttempt, ReplayFollower, RerunStep, Rearm, StartFirstAttempt, Wake,
     ReturnRecorded, Update
<1>3. ASSUME NEW e \in Engines, AppendEvent(e) \/ Leave(e) \/ Interruption(e)
      PROVE  effects' = effects
  BY <1>3 DEF AppendEvent, AppendThenCheckpoint, AppendThenReturn, AppendStart, AppendTerminal,
     Leave, FinishFaulted, FinishUnconsumed, Finish, Update,
     Interruption, Kill, InjectCrash, CommandAppendFails, LifecycleAppendFails, LoadFails
<1>4. effects' # effects => ~ UNCHANGED vars
  BY DEF vars
<1> QED BY <1>1, <1>2, <1>3, <1>4 DEF Next, Proceed

\* Only an append changes the journal.
LEMMA OnlyAppendsWrite ==
  ASSUME [Next]_vars, journal' # journal
  PROVE  \E e \in Engines : AppendPending(e) /\ effects' = effects
<1>1. ASSUME NEW e \in Engines, Acquire(e) \/ Enter(e) \/ Command(e) PROVE journal' = journal
  BY <1>1 DEF Acquire, RunAcquire, RecoverAcquire, Enter, StartExisting, StartAbsent,
     RecoverRejected, RecoverTerminal, RecoverRunning, Command, SequenceExhausted, Diverges,
     ReplayReading, ReplayScheduled, BeginCommand, Update
<1>2. ASSUME NEW e \in Engines, Resolve(e) PROVE journal' = journal
  BY <1>2 DEF Resolve, ReplayAttempt, ReplayFollower, RerunStep, Rearm, StartFirstAttempt, RunBody,
     Wake, ReturnRecorded, Update
<1>3. ASSUME NEW e \in Engines, Leave(e) \/ Kill(e) \/ InjectCrash(e) \/ LoadFails(e)
      PROVE  journal' = journal
  BY <1>3 DEF Leave, FinishFaulted, FinishUnconsumed, Finish, Update, Kill, InjectCrash, LoadFails
<1>4. ASSUME NEW e \in Engines, AppendEvent(e) \/ CommandAppendFails(e) \/ LifecycleAppendFails(e)
      PROVE  AppendPending(e) /\ effects' = effects
  BY <1>4 DEF AppendEvent, AppendThenCheckpoint, AppendThenReturn, AppendStart, AppendTerminal,
     CommandAppendFails, LifecycleAppendFails, AppendUncertain, AppendPending
<1>5. journal' # journal => ~ UNCHANGED vars
  BY DEF vars
<1> QED BY <1>1, <1>2, <1>3, <1>4, <1>5 DEF Next, Proceed, Interruption

\* A body runs for the open step only.
LEMMA BodyOfOpenStep ==
  ASSUME IInv, RecordInv, NEW e \in Engines, RunBody(e)
  PROVE  /\ journal # <<>> /\ Continues(journal)
         /\ EndState(journal).phase = "Started" /\ EndState(journal).seq = Position(run[e])
         /\ \E ev \in Events :
              /\ ev.kind \in {"StepCompleted", "StepFailed"} /\ ev.seq = Position(run[e])
              /\ effects' = Append(effects, [seq |-> Position(run[e]), attempt |-> run[e].attempt,
                                             step |-> run[e].step, result |-> ResultOf(ev)])
<1> DEFINE r == run[e]
           p == Position(r)
<1>1. /\ r.pc = "AfterStepStarted" /\ r \in Runs /\ CheckpointOK(journal, r) /\ journal \in Seq(Events)
  BY DEF RunBody, IInv, TypeOK, RunAgrees
<1>2. /\ journal # <<>> /\ r.seq > 0 /\ r.attempt \in Attempts
      /\ EndState(journal) = HistoryState("Started", p, r.attempt)
  BY <1>1, CommandPcs DEF CheckpointOK
<1>3. EndState(journal).phase = "Started" /\ EndState(journal).seq = p
  BY <1>2 DEF HistoryState
<1>4. p \in Seqs
  BY <1>1, <1>2, PositionInRange
<1> DEFINE outcomes == {StepCompleted(p, v) : v \in Payloads}
                         \cup {StepFailed(p, r.attempt, x) : x \in StepErrors}
<1>5. PICK ev \in outcomes :
        effects' = Append(effects, [seq |-> p, attempt |-> r.attempt,
                                    step |-> r.step, result |-> ResultOf(ev)])
  BY DEF RunBody
<1>6. ev \in Events /\ ev.seq = p /\ ev.kind \in {"StepCompleted", "StepFailed"}
  BY <1>2, <1>4, EventsBuilt DEF StepCompleted, StepFailed, Event
<1> HIDE DEF outcomes
<1> QED BY <1>1, <1>2, <1>3, <1>5, <1>6, JournalEnd DEF OpenPhases

-----------------------------------------------------------------------------
(* The theorems.                                                           *)

\* In every execution the journal, the effects and the lease holder's run agree on
\* what was issued, performed and seen.
THEOREM RecordInvariance == Spec => []RecordInv
  BY InitRecords, NextRecords, Invariance, PTL DEF Spec

\* What workflow code has been told is durable, at the position of the command that
\* was told it: no crash, failpoint or failed append takes it back (run_live,
\* replay_*).
THEOREM ObservedDurable == Spec => []ObservedIsDurable
<1>1. RecordInv => ObservedIsDurable
  BY DEF RecordInv, RunSees, ObservedOK, Seen, ObservedIsDurable
<1> QED BY <1>1, RecordInvariance, PTL

\* A body runs at most once per recorded attempt and never before it is recorded,
\* whoever runs it and however often it is interrupted (run_live).
THEOREM EffectsAttempted == Spec => []EffectsFollowAttempts
<1>1. RecordInv => EffectsFollowAttempts BY DEF RecordInv
<1> QED BY <1>1, RecordInvariance, PTL

\* A step's durable outcome is what its last body returned (run_live, resume_step).
THEOREM OutcomePerformed == Spec => []OutcomeWasPerformed
<1>1. RecordInv => OutcomeWasPerformed BY DEF RecordInv
<1> QED BY <1>1, RecordInvariance, PTL

\* All callers of run and recover_and_run that get a final outcome get the recorded
\* one.
THEOREM RepliesDurable == Spec => []RepliesAreDurable
<1>1. RecordInv => RepliesAreDurable BY DEF RecordInv
<1> QED BY <1>1, RecordInvariance, PTL

\* However many engines compete, n interruptions repeat at most n bodies.
THEOREM RepeatsPaid == Spec => []RepeatsNeedInterruptions
<1>1. IInv /\ RecordInv => RepeatsNeedInterruptions
  <2> SUFFICES ASSUME IInv, RecordInv PROVE RepeatsNeedInterruptions
    OBVIOUS
  <2> DEFINE c == Cardinality({effects[k].seq : k \in DOMAIN effects})
  <2>1. effects \in Seq(Effects) /\ Len(effects) \in Nat
    BY DEF IInv, TypeOK
  <2>2. interruptions \in Nat
    BY InterruptionAssumption DEF IInv, TypeOK
  <2>3. c \in Nat
    BY <2>1, PositionsCounted
  <2>4. Len(effects) + (IF Lost THEN 1 ELSE 0) <= c + interruptions
    BY DEF RecordInv, RepeatsArePaid
  <2>5. RepeatsNeedInterruptions <=> Len(effects) <= c + interruptions
    BY DEF RepeatsNeedInterruptions
  <2> HIDE DEF c
  <2> QED BY <2>1, <2>2, <2>3, <2>4, <2>5
<1> QED BY <1>1, RecordInvariance, Invariance, PTL

\* No step runs a body after its outcome is durable, nor anything after the
\* execution ended (finish, replay_step_outcome).
THEOREM SettledStaysQuiet == Spec => NoEffectOnceSettled
<1>1. IInv /\ RecordInv /\ [Next]_vars =>
        (effects' # effects => ~ Terminal(journal) /\ ~ Settled(effects'[Len(effects')].seq))
  <2> SUFFICES ASSUME IInv, RecordInv, [Next]_vars, effects' # effects
               PROVE  ~ Terminal(journal) /\ ~ Settled(effects'[Len(effects')].seq)
    OBVIOUS
  <2>1. PICK e \in Engines : RunBody(e)
    BY OnlyBodiesRun
  <2>2. PICK ev \in Events :
           effects' = Append(effects, [seq |-> Position(run[e]), attempt |-> run[e].attempt,
                                       step |-> run[e].step, result |-> ResultOf(ev)])
    BY <2>1, BodyOfOpenStep
  <2>3. effects \in Seq(Effects) /\ journal \in Seq(Events) /\ RecordOK(journal)
    BY DEF IInv, TypeOK, RecordInv
  <2> DEFINE x == [seq |-> Position(run[e]), attempt |-> run[e].attempt,
                   step |-> run[e].step, result |-> ResultOf(ev)]
  <2>4. effects'[Len(effects')] = x
    BY <2>2, <2>3, AppendProperties
  <2>5. Continues(journal) /\ EndState(journal).seq = x.seq /\ EndState(journal).seq \in Nat
    BY <2>1, <2>3, BodyOfOpenStep, JournalEnd
  <2> HIDE DEF x
  <2>6. ASSUME NEW i \in DOMAIN journal, Settles(journal[i], x.seq) PROVE FALSE
    <3>1. journal[i].seq < EndState(journal).seq /\ journal[i].seq = EndState(journal).seq
      BY <2>3, <2>5, <2>6 DEF RecordOK, SettledInOrder, Settles
    <3> QED BY <2>5, <3>1
  <2> QED BY <2>4, <2>5, <2>6 DEF Settled, Continues
<1> QED BY <1>1, RecordInvariance, Invariance, PTL DEF Spec, NoEffectOnceSettled

\* An execution is sealed only by its lease holder's run, healthy and given the
\* result of every command on record (finish's unconsumed-history check, ensure_healthy).
THEOREM SealSaw == Spec => SealSawEverything
<1>1. IInv /\ RecordInv /\ [Next]_vars =>
        (Terminal(journal') /\ ~ Terminal(journal) =>
           /\ owner \in Engines /\ run[owner].health = "Healthy"
           /\ \A i \in DOMAIN journal : journal[i].kind \in SettlingKinds =>
                journal[i].seq < Len(run[owner].obs))
  <2> SUFFICES ASSUME IInv, RecordInv, [Next]_vars, Terminal(journal'), ~ Terminal(journal)
               PROVE  /\ owner \in Engines /\ run[owner].health = "Healthy"
                      /\ \A i \in DOMAIN journal : journal[i].kind \in SettlingKinds =>
                           journal[i].seq < Len(run[owner].obs)
    OBVIOUS
  <2>1. PICK e \in Engines : AppendPending(e)
    <3>1. journal' # journal BY DEF Terminal
    <3> QED BY <3>1, OnlyAppendsWrite
  <2> DEFINE r == run[e]
             ev == r.pending
  <2>2. /\ r.pc = "Appending" /\ ev \in Events /\ journal \in Seq(Events)
        /\ journal' = Append(journal, ev)
    BY <2>1, PendingEvent DEF AppendPending
  <2>3. ev.kind \in TerminalKinds
    BY <2>2, AppendedAt DEF Terminal
  <2>4. Healthy(r) /\ ~ InCommand(r) /\ Len(r.obs) = r.seq /\ EndState(journal) = Ready(r.seq)
    <3>1. Healthy(r) BY <2>2 DEF IInv, RunAgrees, AppendingOK
    <3>2. ~ InCommand(r) BY <2>2, <2>3, CommandPcs, KindSets DEF InCommand
    <3>3. RunSees(journal, effects, r) BY DEF RecordInv
    <3> QED BY <2>2, <2>3, <3>1, <3>2, <3>3 DEF RunSees, ObservedOK, RecordedOK
  <2>5. journal # <<>>
    BY <2>2, <2>3, PendingEvent, KindSets
  <2>6. Continues(journal) /\ EndState(journal).seq = Len(r.obs)
    BY <2>4, <2>5 DEF Continues, Ready, HistoryState
  <2>7. \A i \in DOMAIN journal : journal[i].kind \in SettlingKinds =>
          journal[i].seq < Len(r.obs)
    BY <2>6 DEF RecordInv, RecordOK, SettledInOrder
  <2>8. owner = e
    BY <2>2 DEF IInv, LeaseExclusive
  <2> QED BY <2>4, <2>7, <2>8 DEF Healthy
<1> QED BY <1>1, RecordInvariance, Invariance, PTL DEF Spec, SealSawEverything

-----------------------------------------------------------------------------
(* The price of an attempt.                                                *)

\* A run leaves an attempt by recording its outcome or by an interruption; no step
\* but an append starts one.
LEMMA AttemptLeft ==
  ASSUME IInv, [Next]_vars, journal' = journal
  PROVE  \/ UNCHANGED <<run, interruptions>>
         \/ \E e \in Engines : \E s :
              /\ run' = [run EXCEPT ![e] = s]
              /\ run[e].pc # "Idle" \/ owner = NoOwner
              /\ \/ interruptions' = interruptions + 1
                 \/ interruptions' = interruptions /\ (InAttempt(run[e]) => InAttempt(s))
<1> DEFINE Left(e) ==
      \E s : /\ run' = [run EXCEPT ![e] = s]
             /\ run[e].pc # "Idle" \/ owner = NoOwner
             /\ \/ interruptions' = interruptions + 1
                \/ interruptions' = interruptions /\ (InAttempt(run[e]) => InAttempt(s))
<1>0. journal \in Seq(Events) /\ \A e \in Engines : run[e] \in Runs
  BY DEF IInv, TypeOK
<1>1. ASSUME NEW e \in Engines, Interruption(e) PROVE Left(e)
  <2>1. run[e].pc # "Idle" /\ interruptions' = interruptions + 1
    BY <1>1 DEF Interruption, Kill, InjectCrash, CommandAppendFails, LifecycleAppendFails,
       LoadFails, Interrupt, CrashPointOf, CheckpointAfter
  <2>2. \E s : run' = [run EXCEPT ![e] = s]
    BY <1>1 DEF Interruption, Kill, InjectCrash, CommandAppendFails, LifecycleAppendFails,
       LoadFails, EndRun, Set
  <2> QED BY <2>1, <2>2
<1>2. ASSUME NEW e \in Engines, RunBody(e) PROVE Left(e)
  <2>1. PICK ev \in {StepCompleted(Position(run[e]), v) : v \in Payloads}
               \cup {StepFailed(Position(run[e]), run[e].attempt, x) : x \in StepErrors} :
          run' = [run EXCEPT ![e] = Begin(run[e], ev)]
    BY <1>2 DEF RunBody, Set
  <2>2. ev.kind \in {"StepCompleted", "StepFailed"}
    BY <2>1 DEF StepCompleted, StepFailed, Event
  <2>3. Begin(run[e], ev).pc = "Appending" /\ Begin(run[e], ev).pending = ev
    BY <1>0 DEF Begin, Runs
  <2>4. InAttempt(Begin(run[e], ev))
    BY <2>2, <2>3 DEF InAttempt, EffectAtRisk
  <2>5. run[e].pc # "Idle" /\ interruptions' = interruptions
    BY <1>2 DEF RunBody
  <2> HIDE DEF Left
  <2> QED BY <2>1, <2>4, <2>5 DEF Left
<1>3. ASSUME NEW e \in Engines, Acquire(e) PROVE Left(e)
  <2>1. run[e].pc = "Idle" /\ interruptions' = interruptions /\ owner = NoOwner
    BY <1>3 DEF Acquire, RunAcquire, RecoverAcquire
  <2>2. \E s : run' = [run EXCEPT ![e] = s]
    BY <1>3 DEF Acquire, RunAcquire, RecoverAcquire, Set
  <2>3. ~ InAttempt(run[e])
    BY <2>1 DEF InAttempt, EffectAtRisk
  <2> QED BY <2>1, <2>2, <2>3
<1>4. ASSUME NEW e \in Engines, Enter(e) \/ Command(e) \/ Leave(e) PROVE Left(e)
  <2>1. run[e].pc \in {"Starting", "Recovering", "Workflow"} /\ interruptions' = interruptions
    BY <1>4 DEF Enter, StartExisting, StartAbsent, RecoverRejected, RecoverTerminal,
       RecoverRunning, Command, SequenceExhausted, Diverges, ReplayReading, ReplayScheduled,
       BeginCommand, Leave, FinishFaulted, FinishUnconsumed, Finish, Returns, Takes, Issues, Update
  <2>2. \E s : run' = [run EXCEPT ![e] = s]
    BY <1>4 DEF Enter, StartExisting, StartAbsent, RecoverRejected, RecoverTerminal,
       RecoverRunning, Command, SequenceExhausted, Diverges, ReplayReading, ReplayScheduled,
       BeginCommand, Leave, FinishFaulted, FinishUnconsumed, Finish, EndRun, Update, Set
  <2>3. ~ InAttempt(run[e])
    BY <2>1 DEF InAttempt, EffectAtRisk
  <2> QED BY <2>1, <2>2, <2>3
<1>5. ASSUME NEW e \in Engines, Resolve(e), ~ RunBody(e) PROVE Left(e)
  <2>1. /\ run[e].pc \in {"ReplayStep", "ReplayTimer", "AfterStepScheduled", "AfterTimerScheduled",
                          "AfterStepCompleted", "AfterTimerFired"}
        /\ interruptions' = interruptions
    BY <1>5 DEF Resolve, ReplayAttempt, ReplayFollower, RerunStep, Rearm, StartFirstAttempt, Wake,
       ReturnRecorded, Update
  <2>2. \E s : run' = [run EXCEPT ![e] = s]
    BY <1>5 DEF Resolve, ReplayAttempt, ReplayFollower, RerunStep, Rearm, StartFirstAttempt, Wake,
       ReturnRecorded, Update, Set
  <2>3. ~ InAttempt(run[e])
    BY <2>1 DEF InAttempt, EffectAtRisk
  <2> QED BY <2>1, <2>2, <2>3
<1>6. ASSUME NEW e \in Engines, AppendEvent(e) PROVE FALSE
  <2>1. run[e].pending \in Events /\ journal' = Append(journal, run[e].pending)
    BY <1>6 DEF AppendEvent, AppendThenCheckpoint, AppendThenReturn, AppendStart, AppendTerminal,
       IInv, RunAgrees, AppendingOK
  <2> QED BY <1>0, <2>1, AppendedAt
<1> HIDE DEF Left
<1>7. UNCHANGED vars \/ \E e \in Engines : Left(e)
  BY <1>1, <1>2, <1>3, <1>4, <1>5, <1>6 DEF Next, Proceed
<1> QED BY <1>7 DEF Left, vars

\* An append either enters an attempt or leaves none open, unless it is interrupted.
LEMMA AttemptEntered ==
  ASSUME IInv, [Next]_vars, journal' # journal
  PROVE  \E e \in Engines : \E s :
           /\ run' = [run EXCEPT ![e] = s]
           /\ AppendPending(e)
           /\ \/ interruptions' = interruptions + 1
              \/ /\ interruptions' = interruptions
                 /\ run[e].pending.kind = "StepStarted" => InAttempt(s)
<1>1. PICK e \in Engines : AppendEvent(e) \/ CommandAppendFails(e) \/ LifecycleAppendFails(e)
  <2>1. ASSUME NEW e \in Engines, Acquire(e) \/ Enter(e) \/ Command(e) PROVE journal' = journal
    BY <2>1 DEF Acquire, RunAcquire, RecoverAcquire, Enter, StartExisting, StartAbsent,
       RecoverRejected, RecoverTerminal, RecoverRunning, Command, SequenceExhausted, Diverges,
       ReplayReading, ReplayScheduled, BeginCommand, Update
  <2>2. ASSUME NEW e \in Engines, Resolve(e) PROVE journal' = journal
    BY <2>2 DEF Resolve, ReplayAttempt, ReplayFollower, RerunStep, Rearm, StartFirstAttempt, RunBody,
       Wake, ReturnRecorded, Update
  <2>3. ASSUME NEW e \in Engines, Leave(e) \/ Kill(e) \/ InjectCrash(e) \/ LoadFails(e)
        PROVE  journal' = journal
    BY <2>3 DEF Leave, FinishFaulted, FinishUnconsumed, Finish, Update, Kill, InjectCrash, LoadFails
  <2>4. ~ UNCHANGED vars
    BY DEF vars
  <2> QED BY <2>1, <2>2, <2>3, <2>4 DEF Next, Proceed, Interruption
<1>2. AppendPending(e)
  BY <1>1 DEF AppendEvent, AppendThenCheckpoint, AppendThenReturn, AppendStart, AppendTerminal,
     CommandAppendFails, LifecycleAppendFails, AppendUncertain, AppendPending
<1>3. CASE CommandAppendFails(e) \/ LifecycleAppendFails(e)
  BY <1>2, <1>3 DEF CommandAppendFails, LifecycleAppendFails, Interrupt, EndRun, Set
<1>4. CASE AppendThenCheckpoint(e)
  <2> DEFINE s == [run[e] EXCEPT !.pc = CheckpointAfter[run[e].pending.kind]]
  <2>1. run' = [run EXCEPT ![e] = s] /\ interruptions' = interruptions
    BY <1>4 DEF AppendThenCheckpoint, Set
  <2>2. ASSUME run[e].pending.kind = "StepStarted" PROVE InAttempt(s)
    <3>1. run[e] \in Runs /\ s.pc = "AfterStepStarted"
      BY <2>2, Checkpoints DEF IInv, TypeOK, Runs
    <3> QED BY <3>1 DEF InAttempt
  <2> HIDE DEF s
  <2> QED BY <1>2, <2>1, <2>2
<1>5. CASE AppendThenReturn(e) \/ AppendStart(e) \/ AppendTerminal(e)
  <2>1. run[e].pending.kind # "StepStarted" /\ interruptions' = interruptions
    BY <1>5, KindSets DEF AppendThenReturn, AppendStart, AppendTerminal
  <2>2. \E s : run' = [run EXCEPT ![e] = s]
    BY <1>5 DEF AppendThenReturn, AppendStart, AppendTerminal, EndRun, Set
  <2> QED BY <1>2, <2>1, <2>2
<1> QED BY <1>1, <1>3, <1>4, <1>5 DEF AppendEvent

\* Every step pays for the attempt it starts or abandons.
LEMMA AttemptsKept == IInv /\ AttemptsArePaid /\ [Next]_vars => AttemptsArePaid'
<1> DEFINE Open == journal # <<>> /\ EndState(journal).phase = "Started"
<1> SUFFICES ASSUME IInv, AttemptsArePaid, [Next]_vars PROVE AttemptsArePaid'
  OBVIOUS
<1>0. /\ journal \in Seq(Events) /\ interruptions \in Nat
      /\ Open => EndState(journal).attempt \in Nat
  <2>1. journal \in Seq(Events) /\ interruptions \in Nat
    BY InterruptionAssumption DEF IInv, TypeOK
  <2>2. Open => EndState(journal).attempt \in Nat
    <3>1. ASSUME Open PROVE EndState(journal).attempt = journal[Len(journal)].attempt
      BY <2>1, <3>1, JournalEnd, StateTells
    <3>2. ASSUME Open PROVE journal[Len(journal)].attempt \in Nat
      BY <2>1, <3>2, JournalEnd, EventFields, AttemptAssumption
    <3> QED BY <3>1, <3>2
  <2> QED BY <2>1, <2>2
<1>1. CASE UNCHANGED <<journal, run, interruptions>>
  BY <1>1 DEF AttemptsArePaid
<1>2. CASE journal' = journal /\ ~ UNCHANGED <<run, interruptions>>
  <2>0. PICK e \in Engines : \E s :
            /\ run' = [run EXCEPT ![e] = s]
            /\ run[e].pc # "Idle" \/ owner = NoOwner
            /\ \/ interruptions' = interruptions + 1
               \/ interruptions' = interruptions /\ (InAttempt(run[e]) => InAttempt(s))
    BY <1>2, AttemptLeft
  <2>1. PICK s :
            /\ run' = [run EXCEPT ![e] = s]
            /\ run[e].pc # "Idle" \/ owner = NoOwner
            /\ \/ interruptions' = interruptions + 1
               \/ interruptions' = interruptions /\ (InAttempt(run[e]) => InAttempt(s))
    BY <2>0
  <2>2. run'[e] = s /\ \A f \in Engines \ {e} : run[f] = IdleRun
    BY <2>1, OthersStayIdle
  <2>3. ~ InAttempt(IdleRun)
    BY DEF InAttempt, EffectAtRisk, IdleRun
  <2> DEFINE was == \E f \in Engines : InAttempt(run[f])
             is == \E f \in Engines : InAttempt(run'[f])
  <2>4. was => InAttempt(run[e])
    BY <2>2, <2>3
  <2>5. InAttempt(s) => is
    BY <2>2
  <2>6. Open => EndState(journal).attempt <= interruptions + (IF was THEN 1 ELSE 0)
    BY DEF AttemptsArePaid
  <2>7. (Open => EndState(journal).attempt <= interruptions' + (IF is THEN 1 ELSE 0))
           => AttemptsArePaid'
    BY <1>2 DEF AttemptsArePaid
  <2> HIDE DEF was, is
  <2> QED BY <1>0, <2>1, <2>4, <2>5, <2>6, <2>7
<1>3. CASE journal' # journal
  <2>0. PICK e \in Engines : \E s :
         /\ run' = [run EXCEPT ![e] = s]
         /\ AppendPending(e)
         /\ \/ interruptions' = interruptions + 1
            \/ /\ interruptions' = interruptions
               /\ run[e].pending.kind = "StepStarted" => InAttempt(s)
    BY <1>3, AttemptEntered
  <2>1. PICK s :
         /\ run' = [run EXCEPT ![e] = s]
         /\ AppendPending(e)
         /\ \/ interruptions' = interruptions + 1
            \/ /\ interruptions' = interruptions
               /\ run[e].pending.kind = "StepStarted" => InAttempt(s)
    BY <2>0
  <2> DEFINE ev == run[e].pending
             is == \E f \in Engines : InAttempt(run'[f])
  <2>2. ev \in Events /\ journal' # <<>> /\ EndState(journal') = StateAfter(ev)
    BY <2>1, AppendedJournal DEF IInv, RunAgrees, AppendingOK, AppendPending
  <2>3. CASE ev.kind # "StepStarted"
    BY <2>2, <2>3, StateTells DEF AttemptsArePaid
  <2>4. CASE ev.kind = "StepStarted"
    <3>1. run[e].pc = "Appending" /\ journal # <<>> /\ Admits(EndState(journal), ev)
      BY <2>1, <2>4 DEF IInv, RunAgrees, AppendingOK, AppendPending
    <3>2. EndState(journal).phase \in {"Scheduled", "Started"}
          /\ ev.attempt = EndState(journal).attempt + 1
      BY <2>2, <2>4, <3>1, AdmittedAfter
    <3>3. \A f \in Engines : ~ InAttempt(run[f])
      <4>1. ~ InAttempt(run[e])
        BY <2>4, <3>1 DEF InAttempt, EffectAtRisk
      <4>2. ~ InAttempt(IdleRun)
        BY DEF InAttempt, EffectAtRisk, IdleRun
      <4> QED BY <3>1, <4>1, <4>2, OthersIdle
    <3>4. EndState(journal).attempt \in Nat /\ EndState(journal).attempt <= interruptions
      <4>1. CASE EndState(journal).phase = "Started"
        BY <1>0, <3>1, <3>3, <4>1 DEF AttemptsArePaid
      <4>2. CASE EndState(journal).phase = "Scheduled"
        <5>1. /\ journal[Len(journal)] \in Events
              /\ EndState(journal) = StateAfter(journal[Len(journal)])
              /\ journal[Len(journal)].kind = "StepScheduled"
          BY <1>0, <3>1, <4>2, JournalEnd, StateTells
        <5>2. EndState(journal).attempt = 0
          BY <5>1, AfterEvent DEF HistoryState
        <5> QED BY <1>0, <5>2
      <4> QED BY <3>2, <4>1, <4>2
    <3>5. EndState(journal').attempt = EndState(journal).attempt + 1
      BY <2>2, <2>4, <3>2, StateTells
    <3>6. InAttempt(s) => is
      <4>1. run'[e] = s BY <2>1, <3>1, OthersStayIdle
      <4> QED BY <4>1
    <3>7. EndState(journal').attempt <= interruptions' + (IF is THEN 1 ELSE 0)
          => AttemptsArePaid'
      BY DEF AttemptsArePaid
    <3> HIDE DEF is
    <3> QED BY <1>0, <2>1, <2>4, <3>4, <3>5, <3>6, <3>7
  <2> QED BY <2>3, <2>4
<1> QED BY <1>1, <1>2, <1>3

\* However the execution was interrupted, the attempts of its open step are paid
\* for: a step attempted n times was interrupted n - 1 times, n if nobody is in the
\* last attempt (replay_step_outcome, resume_step).
THEOREM AttemptsPaid == Spec => []AttemptsArePaid
<1>1. Init => AttemptsArePaid
  BY DEF Init, AttemptsArePaid
<1> QED BY <1>1, AttemptsKept, Invariance, PTL DEF Spec

-----------------------------------------------------------------------------
(* Divergence.                                                             *)

\* The operators of a run keep its health, but for Fault.
LEMMA HealthKept ==
  ASSUME NEW r \in Runs
  PROVE  /\ Back(r).health = r.health
         /\ \A ev : Begin(r, ev).health = r.health
         /\ \A x : Return(r, x).health = r.health
         /\ \A x : Fault(r, x).health = x
         /\ GoLive(r).health = r.health
         /\ Taken(r).health = r.health
  BY DEF Runs, Back, Begin, Return, Fault, GoLive, Taken

\* A step that gives one engine a run that has not diverged preserves the property.
LEMMA UndivergedStep ==
  ASSUME IInv, NeverDiverges, NEW e \in Engines, NEW s, s.health # "Nondeterminism",
         run' = [run EXCEPT ![e] = s]
  PROVE  NeverDiverges'
  BY DEF IInv, TypeOK, NeverDiverges

\* While a journal is being replayed, an event the code is to answer is the record
\* of a command: the terminal event ends a journal, and no other fits.
LEMMA ReplayFindsCommands ==
  ASSUME IInv, RecordInv, NEW e \in Engines, run[e].pc = "Workflow", Healthy(run[e]),
         Unread(run[e])
  PROVE  LET r == run[e]
             ev == NextRecorded(r)
         IN /\ r.pos \in DOMAIN journal /\ ev = journal[r.pos] /\ ev \in Events
            /\ ev.kind \in CommandRecordKinds /\ ev.seq = r.seq
<1> DEFINE r == run[e]
           j == journal
           ev == NextRecorded(r)
<1>1. /\ r \in Runs /\ j \in Seq(Events) /\ (j # <<>> => Legal(j)) /\ CursorOK(j, r)
      /\ WorkflowOK(j, r) /\ RecordedOK(j, r) /\ r.seq \in Seqs
  BY DEF IInv, TypeOK, HistoryLegal, RunAgrees, RecordInv, RunSees, Runs
<1>2. j # <<>> /\ Legal(j) /\ CursorState(j, r) = Ready(r.seq)
  BY <1>1 DEF WorkflowOK
<1>3. /\ r.mode = "Replaying" /\ r.history = j /\ ev \in Events /\ Admits(Ready(r.seq), ev)
  BY <1>1, <1>2, ReadNext
<1>4. r.pos \in 2 .. Len(j) /\ Len(j) \in Nat /\ DOMAIN j = 1 .. Len(j) /\ ev = j[r.pos]
  BY <1>1, <1>3 DEF CursorOK, Unread, Runs, NextRecorded
<1>5. ev.kind \notin TerminalKinds
  <2> SUFFICES ASSUME ev.kind \in TerminalKinds PROVE FALSE
    OBVIOUS
  <2>1. CASE r.pos = Len(j)
    BY <1>1, <1>2, <1>3, <1>4, <2>1 DEF RecordedOK, Terminal
  <2>2. CASE r.pos < Len(j)
    <3>1. r.pos + 1 \in 2 .. Len(j) /\ (r.pos + 1) - 1 = r.pos /\ r.pos + 1 \in DOMAIN j
      BY <1>4, <2>2
    <3>2. j[r.pos + 1] \in Events /\ Admits(StateAfter(j[r.pos]), j[r.pos + 1])
      BY <1>1, <1>2, <3>1, ElementOfSeq DEF Legal
    <3>3. StateAfter(ev).phase \in OpenPhases \cup {"Ready"}
      BY <1>4, <3>2, AdmittedAfter
    <3>4. StateAfter(ev).phase \in {"Completed", "Failed"}
      BY <1>3, StateTells
    <3> QED BY <3>3, <3>4 DEF OpenPhases
  <2> QED BY <1>4, <2>1, <2>2
<1>6. ev.kind \notin {"ExecutionStarted", "StepStarted", "StepCompleted", "StepFailed", "TimerFired"}
  <2>1. Ready(r.seq).phase = "Ready" BY DEF Ready, HistoryState
  <2> QED BY <1>3, <2>1, AdmittedAfter
<1>7. ev.kind \in CommandRecordKinds
  BY <1>3, <1>5, <1>6, EventFields, KindSets
<1>8. ev.seq = r.seq
  BY <1>1, <1>3, <1>7, EventsAfter
<1> QED BY <1>3, <1>4, <1>7, <1>8

\* What a healthy run in workflow code asks its code next.
LEMMA CodeAsked ==
  ASSUME IInv, RecordInv, NEW e \in Engines, run[e].pc = "Workflow", Healthy(run[e])
  PROVE  LET r == run[e]
         IN /\ r.definition \in Definitions /\ r.input \in Payloads /\ r.seq \in Seqs
            /\ r.obs \in [1 .. r.seq -> Results] /\ r.obs = AnswersTo(journal, r.seq)
            /\ journal # <<>> /\ journal[1].value = InvocationOf(r)
<1> DEFINE r == run[e]
           j == journal
<1>1. /\ r \in Runs /\ j \in Seq(Events) /\ j # <<>> /\ Legal(j) /\ RunSees(j, effects, r)
      /\ SettledOnce(j)
  BY DEF IInv, TypeOK, HistoryLegal, RunAgrees, WorkflowOK, RecordInv, RecordOK
<1>2. j[1].value \in Invocations
  <2>1. j[1] \in Events /\ j[1].kind = "ExecutionStarted"
    BY <1>1, EmptySeq, ElementOfSeq DEF Legal
  <2> QED BY <2>1, EventFields
<1>3. j[1].value = InvocationOf(r) /\ Seen(j, r.obs)
  BY <1>1, GroundedRun DEF Grounded
<1>4. Len(r.obs) = r.seq
  <2>1. ~ InCommand(r)
    BY CommandPcs DEF InCommand
  <2> QED BY <1>1, <2>1 DEF RunSees, ObservedOK
<1>5. /\ r.obs \in Seq(Results) /\ r.obs = AnswersTo(j, r.seq)
      /\ r.seq \in Seqs /\ r.obs \in [1 .. r.seq -> Results]
  BY <1>1, <1>3, <1>4, SeenUnique DEF Runs
<1> QED BY <1>1, <1>2, <1>3, <1>5 DEF InvocationOf, Invocations

\* Where the journal is unread, it records a command the code issues now.
LEMMA RecordAsksAgain ==
  ASSUME IInv, RecordInv, NEW e \in Engines, run[e].pc = "Workflow", Healthy(run[e]),
         Unread(run[e])
  PROVE  LET r == run[e]
         IN \E old \in Commands :
              old \in Code(r.definition, r.input, r.obs) /\ Matches(NextRecorded(r), old)
<1> DEFINE r == run[e]
           j == journal
           ev == NextRecorded(r)
<1>1. r.pos \in DOMAIN j /\ ev = j[r.pos] /\ ev.kind \in CommandRecordKinds /\ ev.seq = r.seq
  BY ReplayFindsCommands
<1>2. PICK old \in Commands :
        /\ old \in Code(j[1].value.definition, j[1].value.input, AnswersTo(j, ev.seq))
        /\ Matches(ev, old)
  BY <1>1 DEF RecordInv, RecordOK, IssuedByCode
<1>3. r.obs = AnswersTo(j, r.seq) /\ j[1].value = InvocationOf(r)
  BY CodeAsked
<1> QED BY <1>1, <1>2, <1>3 DEF InvocationOf

\* The command on record is the one deterministic code issues again.
LEMMA CodeAgrees ==
  ASSUME DeterministicCode, IInv, RecordInv, NEW e \in Engines, NEW cmd \in Commands
  PROVE  ~ Diverges(e, cmd)
<1> SUFFICES ASSUME Diverges(e, cmd) PROVE FALSE
  OBVIOUS
<1> DEFINE r == run[e]
<1>1. /\ r.pc = "Workflow" /\ Healthy(r) /\ Unread(r) /\ ~ Matches(NextRecorded(r), cmd)
      /\ cmd \in Code(r.definition, r.input, r.obs)
  BY DEF Diverges, Takes, Issues
<1>2. PICK old \in Commands :
        old \in Code(r.definition, r.input, r.obs) /\ Matches(NextRecorded(r), old)
  BY <1>1, RecordAsksAgain
<1>3. old = cmd
  BY <1>1, <1>2, CodeAsked DEF DeterministicCode
<1> QED BY <1>1, <1>2, <1>3

\* Starting, recovering and ending a run gives it no divergence.
LEMMA EntryUndiverged ==
  ASSUME IInv, NeverDiverges, NEW e \in Engines,
         Acquire(e) \/ Enter(e) \/ Leave(e) \/ Interruption(e)
  PROVE  NeverDiverges'
<1> DEFINE r == run[e]
<1>r. r \in Runs /\ r.health # "Nondeterminism"
  BY DEF IInv, TypeOK, NeverDiverges
<1>i. IdleRun \in Runs /\ IdleRun.health = "Healthy"
  BY IdleRunTyped DEF IdleRun
<1>1. \E s : run' = [run EXCEPT ![e] = s] /\ s.health # "Nondeterminism"
  <2>1. CASE Acquire(e)
    <3>1. ASSUME NEW d \in Definitions, NEW i \in Payloads, RunAcquire(e, d, i)
          PROVE  \E s : run' = [run EXCEPT ![e] = s] /\ s.health # "Nondeterminism"
      <4> DEFINE s == [IdleRun EXCEPT !.pc = "Starting", !.definition = d, !.input = i]
      <4>1. s.health = "Healthy" BY <1>i DEF Runs
      <4>2. run' = [run EXCEPT ![e] = s] BY <3>1 DEF RunAcquire, Set
      <4> HIDE DEF s
      <4> QED BY <4>1, <4>2
    <3>2. ASSUME NEW d \in Definitions, RecoverAcquire(e, d)
          PROVE  \E s : run' = [run EXCEPT ![e] = s] /\ s.health # "Nondeterminism"
      <4> DEFINE s == [IdleRun EXCEPT !.pc = "Recovering", !.definition = d]
      <4>1. s.health = "Healthy" BY <1>i DEF Runs
      <4>2. run' = [run EXCEPT ![e] = s] BY <3>2 DEF RecoverAcquire, Set
      <4> HIDE DEF s
      <4> QED BY <4>1, <4>2
    <3> QED BY <2>1, <3>1, <3>2 DEF Acquire
  <2>2. CASE StartExisting(e) \/ RecoverRejected(e) \/ RecoverTerminal(e) \/ FinishFaulted(e)
             \/ (\E o \in Outcomes : FinishUnconsumed(e, o)) \/ Kill(e) \/ LifecycleAppendFails(e)
             \/ LoadFails(e)
    BY <1>i, <2>2 DEF StartExisting, RecoverRejected, RecoverTerminal, FinishFaulted,
       FinishUnconsumed, Kill, LifecycleAppendFails, LoadFails, EndRun, Set
  <2>3. CASE StartAbsent(e) \/ (\E o \in Outcomes : Finish(e, o))
    <3>1. PICK ev : run' = [run EXCEPT ![e] = Begin(r, ev)]
      BY <2>3 DEF StartAbsent, Finish, Update, Set
    <3>2. Begin(r, ev).health # "Nondeterminism"
      BY <1>r, HealthKept
    <3> QED BY <3>1, <3>2
  <2>4. CASE RecoverRunning(e)
    <3> DEFINE m == IF Len(journal) > 1 THEN "Replaying" ELSE "Live"
               s == [r EXCEPT !.pc = "Workflow", !.input = journal[1].value.input,
                              !.history = journal, !.pos = 2, !.mode = m]
    <3>1. s.health = r.health
      <4> HIDE DEF m
      <4> QED BY <1>r DEF Runs
    <3>2. run' = [run EXCEPT ![e] = s]
      BY <2>4 DEF RecoverRunning, Update, Set
    <3> HIDE DEF s
    <3> QED BY <1>r, <3>1, <3>2
  <2>5. CASE InjectCrash(e) \/ CommandAppendFails(e)
    <3>1. PICK x \in {"InjectedCrash", "Journal"} : run' = [run EXCEPT ![e] = Fault(r, x)]
      BY <2>5 DEF InjectCrash, CommandAppendFails, Set
    <3>2. Fault(r, x).health # "Nondeterminism"
      BY <1>r, HealthKept
    <3> QED BY <3>1, <3>2
  <2> QED BY <2>1, <2>2, <2>3, <2>4, <2>5 DEF Enter, Leave, Interruption
<1> QED BY <1>1, UndivergedStep

\* A command of deterministic code is the one on record, and what follows it in the
\* journal is the command's own (resolve_recorded, resolve_step, resolve_sleep).
LEMMA CommandUndiverged ==
  ASSUME DeterministicCode, IInv, RecordInv, NeverDiverges, NEW e \in Engines,
         Command(e) \/ Resolve(e) \/ AppendEvent(e)
  PROVE  NeverDiverges'
<1> DEFINE r == run[e]
<1>r. r \in Runs /\ r.health # "Nondeterminism" /\ r.seq \in Seqs
  BY DEF IInv, TypeOK, NeverDiverges, Runs
<1>t. ASSUME NEW cmd \in Commands, Takes(r, cmd)
      PROVE  Taken(r) \in Runs /\ Taken(r).health = r.health
  BY <1>r, <1>t, TakenRun DEF Takes
<1>1. \E s : run' = [run EXCEPT ![e] = s] /\ s.health # "Nondeterminism"
  <2>1. CASE SequenceExhausted(e)
    <3>1. run' = [run EXCEPT ![e] = Fault(r, "Sequence")]
      BY <2>1 DEF SequenceExhausted, Update, Set
    <3>2. Fault(r, "Sequence").health = "Sequence"
      BY <1>r, HealthKept
    <3> QED BY <3>1, <3>2
  <2>2. ASSUME NEW cmd \in Commands, Diverges(e, cmd) PROVE FALSE
    BY <2>2, CodeAgrees
  <2>3. ASSUME NEW cmd \in Commands, ReplayReading(e, cmd)
        PROVE  \E s : run' = [run EXCEPT ![e] = s] /\ s.health # "Nondeterminism"
    <3> DEFINE t == Taken(r)
               ev == NextRecorded(r)
               u == Return(t, ResultOf(ev))
               s == [u EXCEPT !.pos = @ + 1]
    <3>1. t \in Runs /\ t.health = r.health
      BY <1>t, <2>3 DEF ReplayReading
    <3>2. s.health = t.health
      <4> HIDE DEF t
      <4> QED BY <3>1 DEF Return, Back, Runs
    <3>3. run' = [run EXCEPT ![e] = s]
      BY <2>3 DEF ReplayReading, Update, Set
    <3> HIDE DEF s, t
    <3> QED BY <1>r, <3>1, <3>2, <3>3
  <2>4. ASSUME NEW cmd \in Commands, ReplayScheduled(e, cmd)
        PROVE  \E s : run' = [run EXCEPT ![e] = s] /\ s.health # "Nondeterminism"
    <3> DEFINE t == Taken(r)
               s1 == [t EXCEPT !.pc = "ReplayStep", !.pos = @ + 1, !.step = cmd.arg, !.attempt = 1]
               s2 == [t EXCEPT !.pc = "ReplayTimer", !.pos = @ + 1]
               s == IF cmd.kind = "RunStep" THEN s1 ELSE s2
    <3>1. t \in Runs /\ t.health = r.health
      BY <1>t, <2>4 DEF ReplayScheduled
    <3>2. s.health = t.health
      <4> HIDE DEF t
      <4> QED BY <3>1 DEF Runs
    <3>3. run' = [run EXCEPT ![e] = s]
      BY <2>4 DEF ReplayScheduled, Update, Set
    <3> HIDE DEF s, t
    <3> QED BY <1>r, <3>1, <3>2, <3>3
  <2>5. ASSUME NEW cmd \in Commands, BeginCommand(e, cmd)
        PROVE  \E s : run' = [run EXCEPT ![e] = s] /\ s.health # "Nondeterminism"
    <3> DEFINE t == Taken(r)
               step == IF cmd.kind = "RunStep" THEN cmd.arg ELSE NoValue
    <3>1. t \in Runs /\ t.health = r.health
      BY <1>t, <2>5 DEF BeginCommand
    <3>2. PICK ev \in FirstEvents(r.seq, cmd) :
            run' = [run EXCEPT ![e] = [Begin(GoLive(t), ev) EXCEPT !.step = step]]
      BY <2>5 DEF BeginCommand, Update, Set
    <3>3. [Begin(GoLive(t), ev) EXCEPT !.step = step].health = t.health
      <4> HIDE DEF t
      <4> QED BY <3>1 DEF GoLive, Begin, Runs
    <3> HIDE DEF t
    <3> QED BY <1>r, <3>1, <3>2, <3>3
  <2>6. CASE ReplayAttempt(e)
    <3>1. \A a : [r EXCEPT !.pos = @ + 1, !.attempt = a].health = r.health
      BY <1>r DEF Runs
    <3> QED BY <1>r, <2>6, <3>1 DEF ReplayAttempt, Update, Set
  <2>7. CASE ReplayFollower(e)
    <3> DEFINE ev == NextRecorded(r)
               u == Return(r, ResultOf(ev))
               s == [u EXCEPT !.pos = @ + 1]
    <3>1. \/ r.pc = "ReplayStep" /\ ev.kind \in {"StepCompleted", "StepFailed"}
          \/ r.pc = "ReplayTimer" /\ ev.kind = "TimerFired"
      BY <2>7, ReplayCovers DEF ReplayFollower, ReplayIsTotal
    <3>2. run' = [run EXCEPT ![e] = s]
      BY <2>7, <3>1 DEF ReplayFollower, Update, Set
    <3>3. s.health = r.health
      BY <1>r DEF Return, Back, Runs
    <3> HIDE DEF s
    <3> QED BY <1>r, <3>2, <3>3
  <2>8. CASE RerunStep(e) \/ Rearm(e)
    <3>1. \A ev : Begin(GoLive(r), ev).health = r.health
      BY <1>r DEF GoLive, Begin, Runs
    <3>2. Fault(r, "Attempt").health = "Attempt"
      BY <1>r, HealthKept
    <3> QED BY <1>r, <2>8, <3>1, <3>2 DEF RerunStep, Rearm, Update, Set
  <2>9. CASE StartFirstAttempt(e)
    <3>1. \A ev : Begin([r EXCEPT !.attempt = 1], ev).health = r.health
      BY <1>r DEF Begin, Runs
    <3> QED BY <1>r, <2>9, <3>1 DEF StartFirstAttempt, Update, Set
  <2>10. CASE RunBody(e) \/ Wake(e) \/ ReturnRecorded(e)
    <3>1. \/ \E ev : run' = [run EXCEPT ![e] = Begin(r, ev)]
          \/ \E x : run' = [run EXCEPT ![e] = Return(r, x)]
      BY <2>10 DEF RunBody, Wake, ReturnRecorded, Update, Set
    <3> QED BY <1>r, <3>1, HealthKept
  <2>11. CASE AppendThenCheckpoint(e) \/ AppendThenReturn(e) \/ AppendStart(e)
    <3> DEFINE c == CheckpointAfter[r.pending.kind]
               s == [r EXCEPT !.pc = c]
    <3>1. s.health = r.health
      <4> HIDE DEF c
      <4> QED BY <1>r DEF Runs
    <3>2. \/ run' = [run EXCEPT ![e] = s]
          \/ run' = [run EXCEPT ![e] = Back(r)]
          \/ \E x : run' = [run EXCEPT ![e] = Return(r, x)]
      BY <2>11 DEF AppendThenCheckpoint, AppendThenReturn, AppendStart, Set
    <3> HIDE DEF s
    <3> QED BY <1>r, <3>1, <3>2, HealthKept
  <2>12. CASE AppendTerminal(e)
    <3>1. IdleRun.health = "Healthy" BY DEF IdleRun
    <3> QED BY <2>12, <3>1 DEF AppendTerminal, EndRun, Set
  <2> QED BY <2>1, <2>2, <2>3, <2>4, <2>5, <2>6, <2>7, <2>8, <2>9, <2>10, <2>11, <2>12
       DEF Command, Resolve, AppendEvent
<1> QED BY <1>1, UndivergedStep

\* Workflow code that is a function of its definition, input and results never
\* diverges from its record, whatever interrupted the runs that wrote it and however
\* often it is replayed: Error::Nondeterminism is unreachable.
THEOREM DeterministicNeverDiverges ==
  ASSUME DeterministicCode
  PROVE  Spec => []NeverDiverges
<1>1. Init => NeverDiverges
  BY DEF Init, IdleRun, NeverDiverges
<1>2. IInv /\ RecordInv /\ NeverDiverges /\ [Next]_vars => NeverDiverges'
  <2> SUFFICES ASSUME IInv, RecordInv, NeverDiverges, [Next]_vars PROVE NeverDiverges'
    OBVIOUS
  <2>1. CASE UNCHANGED vars
    BY <2>1 DEF vars, NeverDiverges
  <2>2. ASSUME NEW e \in Engines, Acquire(e) \/ Proceed(e) \/ Interruption(e)
        PROVE  NeverDiverges'
    BY <2>2, EntryUndiverged, CommandUndiverged DEF Proceed
  <2> QED BY <2>1, <2>2 DEF Next
<1> QED BY <1>1, <1>2, Invariance, RecordInvariance, PTL DEF Spec

-----------------------------------------------------------------------------
(* Engine implements DurableExecution: whatever the engines, their leases, *)
(* crashes and uncertain appends, what is durable is one run of the        *)
(* workflow's code.  A step of an engine maps to a step of the abstract    *)
(* execution if it makes an event durable or runs a body, to a stutter     *)
(* otherwise; RecordInv says which command the journal leaves open and     *)
(* that the runs have seen what it answers.                                *)

-----------------------------------------------------------------------------
(* The results on record.                                                  *)

\* While a journal goes on, its answers are those to the positions before the one
\* it stands at.
LEMMA AnswersInOrder ==
  ASSUME NEW j \in Seq(Events), RecordOK(j), Continues(j)
  PROVE  EndState(j).seq \in Nat /\ Answers(j) = AnswersTo(j, EndState(j).seq)
<1> DEFINE n == EndState(j).seq
           settled == {p \in Seqs : \E i \in DOMAIN j : Settles(j[i], p)}
<1>1. j # <<>> /\ n \in Nat /\ EndState(j).phase \in OpenPhases \cup {"Ready"}
      /\ j[Len(j)] \in Events /\ EndState(j) = StateAfter(j[Len(j)])
  BY JournalEnd DEF Continues
<1>2. n <= MaxSeq + 1
  <2> DEFINE ev == j[Len(j)]
  <2>1. /\ ev.seq \in 0 .. MaxSeq
        /\ ev.kind \notin TerminalKinds
        /\ ev.kind \in PositionedKinds \cup TerminalKinds \cup {"ExecutionStarted"}
    BY <1>1, EventFields DEF Seqs, Continues, Terminal
  <2>2. \/ ev.kind = "ExecutionStarted"
        \/ ev.kind \in {"StepScheduled", "StepStarted", "TimerScheduled"}
        \/ ev.kind \in SettlingKinds
    BY <2>1, KindSets
  <2> HIDE DEF ev
  <2>3. n = 0 \/ n = ev.seq \/ n = ev.seq + 1
    BY <1>1, <2>2, StateTells DEF ev
  <2> QED BY <2>1, <2>3, SeqAssumption
<1> HIDE DEF n
<1>3. settled = {p \in Nat : p < n}
  <2>1. /\ \A i \in DOMAIN j : j[i].kind \in SettlingKinds => j[i].seq < n
        /\ \A q \in Seqs : q < n => \E i \in DOMAIN j : Settles(j[i], q)
    BY DEF RecordOK, SettledInOrder, n
  <2>2. \A q \in Nat : q < n => q \in Seqs
    BY <1>1, <1>2, SeqAssumption DEF Seqs
  <2>3. Seqs \subseteq Nat
    BY SeqAssumption DEF Seqs
  <2> QED BY <2>1, <2>2, <2>3 DEF Settles
<1> HIDE DEF settled
<1>4. {q + 1 : q \in settled} = 1 .. n
  <2>1. ASSUME NEW k \in 1 .. n PROVE k \in {q + 1 : q \in settled}
    <3>1. k - 1 \in settled /\ (k - 1) + 1 = k
      BY <1>1, <1>3
    <3> QED BY <3>1
  <2> QED BY <1>1, <1>3, <2>1
<1>5. Answers(j) = [k \in {q + 1 : q \in settled} |-> AnswerAt(j, k - 1)]
  BY DEF Answers, settled
<1> QED BY <1>1, <1>4, <1>5 DEF AnswersTo, n

\* An event that answers no command leaves the answers as they are.
LEMMA AnswersKept ==
  ASSUME NEW j \in Seq(Events), NEW ev \in Events, ev.kind \notin SettlingKinds,
         SettledOnce(j), SettledOnce(Append(j, ev))
  PROVE  Answers(Append(j, ev)) = Answers(j)
<1> DEFINE k == Append(j, ev)
           settled(l) == {p \in Seqs : \E i \in DOMAIN l : Settles(l[i], p)}
<1>1. /\ DOMAIN k = DOMAIN j \cup {Len(j) + 1} /\ k[Len(j) + 1] = ev
      /\ \A i \in DOMAIN j : k[i] = j[i]
  BY AppendedAt
<1> HIDE DEF k
<1>2. settled(k) = settled(j)
  BY <1>1 DEF Settles
<1>3. ASSUME NEW p \in settled(j) PROVE AnswerAt(k, p) = AnswerAt(j, p)
  <2>1. PICK i \in DOMAIN j : Settles(j[i], p)
    OBVIOUS
  <2>2. i \in DOMAIN k /\ k[i] = j[i]
    BY <1>1
  <2> QED BY <2>1, <2>2, AnswerIs DEF k
<1>4. \A p \in settled(j) : p \in Nat /\ (p + 1) - 1 = p
  BY SeqAssumption DEF Seqs
<1>5. /\ Answers(k) = [m \in {q + 1 : q \in settled(k)} |-> AnswerAt(k, m - 1)]
      /\ Answers(j) = [m \in {q + 1 : q \in settled(j)} |-> AnswerAt(j, m - 1)]
  BY DEF Answers
<1> HIDE DEF settled
<1>6. \A m \in {q + 1 : q \in settled(j)} : AnswerAt(k, m - 1) = AnswerAt(j, m - 1)
  BY <1>3, <1>4
<1> QED BY <1>2, <1>5, <1>6 DEF k

\* An event that answers the command the journal stands at adds its result.
LEMMA AnswersGrow ==
  ASSUME NEW j \in Seq(Events), RecordOK(j), Continues(j),
         NEW ev \in Events, ev.kind \in SettlingKinds, ev.seq = EndState(j).seq,
         RecordOK(Append(j, ev))
  PROVE  Answers(Append(j, ev)) = Append(Answers(j), ResultOf(ev))
<1> DEFINE k == Append(j, ev)
           n == EndState(j).seq
           a == AnswersTo(j, n)
<1>1. n \in Nat /\ Answers(j) = a
  BY AnswersInOrder
<1>2. /\ k \in Seq(Events) /\ k # <<>> /\ EndState(k) = StateAfter(ev)
      /\ Len(j) + 1 \in DOMAIN k /\ k[Len(j) + 1] = ev
  BY AppendedAt
<1>3. EndState(k).seq = n + 1 /\ EndState(k).phase = "Ready"
  BY <1>2, StateTells
<1>4. Continues(k)
  <2> HIDE DEF k
  <2> QED BY <1>2, <1>3, JournalEnd
<1>5. Answers(k) = AnswersTo(k, n + 1)
  <2> HIDE DEF k, n
  <2> QED BY <1>2, <1>3, <1>4, AnswersInOrder DEF k
<1>6. AnswersTo(k, n) = a
  <2>1. \A q \in Nat : q < n => q \in Seqs
    <3>1. ev.seq \in 0 .. MaxSeq BY EventFields DEF Seqs
    <3> QED BY <1>1, <3>1, SeqAssumption DEF Seqs
  <2>2. \A q \in Nat : q < n => \E i \in DOMAIN j : Settles(j[i], q)
    BY <2>1 DEF RecordOK, SettledInOrder
  <2> QED BY <1>1, <2>2, AnswersStay DEF RecordOK
<1>7. AnswerAt(k, n) = ResultOf(ev)
  <2>1. SettledOnce(k) BY DEF RecordOK
  <2>2. Settles(k[Len(j) + 1], n) BY <1>2 DEF Settles
  <2> HIDE DEF k
  <2> QED BY <1>2, <2>1, <2>2, AnswerIs
<1>8. /\ a = [m \in 1 .. n |-> AnswerAt(j, m - 1)]
      /\ AnswersTo(k, n) = [m \in 1 .. n |-> AnswerAt(k, m - 1)]
      /\ AnswersTo(k, n + 1) = [m \in 1 .. n + 1 |-> AnswerAt(k, m - 1)]
  BY DEF AnswersTo
<1> DEFINE b == AnswersTo(k, n + 1)
           x == ResultOf(ev)
           S == {a[m] : m \in 1 .. n} \cup {x}
<1>9. a \in Seq(S) /\ x \in S /\ Len(a) = n
  <2>1. a \in [1 .. n -> S] /\ x \in S
    <3> HIDE DEF n, a
    <3> QED BY <1>8
  <2> HIDE DEF n, a, S
  <2>2. a \in Seq(S)
    BY <1>1, <2>1, SeqDef
  <2>3. DOMAIN a = 1 .. n /\ DOMAIN a = 1 .. Len(a) /\ Len(a) \in Nat
    BY <2>1, <2>2, LenProperties
  <2> QED BY <1>1, <2>1, <2>2, <2>3
<1> HIDE DEF k, n, a, b, x, S
<1>10. \A m \in 1 .. n : AnswerAt(k, m - 1) = a[m]
  BY <1>6, <1>8
<1>11. b = [m \in 1 .. n + 1 |-> IF m = n + 1 THEN x ELSE a[m]]
  <2>1. b = [m \in 1 .. n + 1 |-> AnswerAt(k, m - 1)]
    BY <1>8 DEF b
  <2>2. \A m \in 1 .. n + 1 : AnswerAt(k, m - 1) = IF m = n + 1 THEN x ELSE a[m]
    <3>1. \A m \in 1 .. n + 1 : m = n + 1 \/ m \in 1 .. n
      BY <1>1
    <3>2. (n + 1) - 1 = n /\ \A m \in 1 .. n : m # n + 1
      BY <1>1
    <3> QED BY <1>7, <1>10, <3>1, <3>2 DEF x
  <2> QED BY <2>1, <2>2
<1>12. Append(a, x) = [m \in 1 .. n + 1 |-> IF m = n + 1 THEN x ELSE a[m]]
  <2> DEFINE c == Append(a, x)
  <2>1. /\ c \in Seq(S) /\ Len(c) = n + 1 /\ c[n + 1] = x
        /\ \A m \in 1 .. n : c[m] = a[m]
    BY <1>1, <1>9, AppendProperties
  <2> HIDE DEF c
  <2>2. c \in [1 .. n + 1 -> S]
    BY <2>1, LenProperties
  <2>3. \A m \in 1 .. n + 1 : c[m] = IF m = n + 1 THEN x ELSE a[m]
    BY <1>1, <2>1
  <2> QED BY <2>2, <2>3 DEF c
<1> QED BY <1>1, <1>5, <1>11, <1>12 DEF b, x, k

-----------------------------------------------------------------------------
(* The open command.                                                       *)

\* No command is open where the journal's end leaves none.
LEMMA NoneOpen ==
  ASSUME NEW j, j = <<>> \/ EndState(j).phase \notin OpenPhases, NEW performed
  PROVE  OpenCommand(j) = <<>> /\ LastPerformance(j, performed) = <<>>
  BY DEF OpenCommand, LastPerformance

\* The open command is the one opened at the position the journal stands at.
LEMMA OpenIs ==
  ASSUME NEW j, j # <<>>, EndState(j).phase \in OpenPhases, NEW i \in DOMAIN j, Opens(j, i)
  PROVE  OpenCommand(j) = << CommandOpenedBy(j[i]) >>
<1>1. j[i].kind \in OpeningKinds /\ j[i].seq = EndState(j).seq
  BY DEF Opens, OpeningKinds
<1>2. \A k \in DOMAIN j : j[k].kind \in OpeningKinds /\ j[k].seq = EndState(j).seq => k = i
  BY DEF Opens
<1>3. (CHOOSE k \in DOMAIN j : j[k].kind \in OpeningKinds /\ j[k].seq = EndState(j).seq) = i
  BY <1>1, <1>2
<1> QED BY <1>3 DEF OpenCommand

\* A step is open while its attempts go on, a timer while it has not fired.
LEMMA OpenKind ==
  ASSUME NEW j, RecordOK(j), Continues(j), EndState(j).phase \in OpenPhases
  PROVE  \E i \in DOMAIN j :
           /\ Opens(j, i)
           /\ OpenCommand(j) = << CommandOpenedBy(j[i]) >>
           /\ CommandOpenedBy(j[i]).kind = IF EndState(j).phase = "Timer" THEN "Sleep" ELSE "RunStep"
<1>1. PICK i \in DOMAIN j : Opens(j, i)
  BY DEF RecordOK, OpenedOnce
<1>2. OpenCommand(j) = << CommandOpenedBy(j[i]) >>
  BY <1>1, OpenIs DEF Continues
<1>3. CommandOpenedBy(j[i]).kind = IF EndState(j).phase = "Timer" THEN "Sleep" ELSE "RunStep"
  BY <1>1 DEF Opens, CommandOpenedBy, RunStep, Sleep
<1> QED BY <1>1, <1>2, <1>3

-----------------------------------------------------------------------------
(* The append of an event.                                                 *)

\* The abstract execution speaks of the same invocations, commands and results.
LEMMA SameVocabulary ==
  /\ Durable!Invocations = Invocations
  /\ Durable!Commands = Commands
  /\ Durable!Results = Results
  /\ Durable!Ends = [kind : {"ExecutionCompleted"}, value : Payloads]
                      \cup [kind : {"ExecutionFailed"}, value : WorkflowErrors]
  /\ \A k : Durable!RecordKind(k) = RecordKind(k)
<1>1. Durable!Invocations = Invocations
  BY DEF Durable!Invocations, Invocations, Durable!Definitions, Definitions
<1>2. Durable!Commands = Commands
  BY DEF Durable!Commands, Commands, Durable!RunStep, RunStep, Durable!ReadNow, ReadNow,
         Durable!DrawRandom, DrawRandom, Durable!Sleep, Sleep
<1>3. Durable!Results = Results
  BY DEF Durable!Results, Results
<1>4. Durable!Ends = [kind : {"ExecutionCompleted"}, value : Payloads]
                      \cup [kind : {"ExecutionFailed"}, value : WorkflowErrors]
  BY DEF Durable!Ends
<1>5. \A k : Durable!RecordKind(k) = RecordKind(k)
  BY DEF Durable!RecordKind, RecordKind
<1> QED BY <1>1, <1>2, <1>3, <1>4, <1>5

\* What every append says of the mapped state.
LEMMA AppendBasics ==
  ASSUME IInv, RecordInv, [Next]_vars, NEW e \in Engines, AppendPending(e)
  PROVE  LET ev == run[e].pending
             k == journal'
         IN /\ ev \in Events /\ journal \in Seq(Events)
            /\ k = Append(journal, ev) /\ k # <<>> /\ EndState(k) = StateAfter(ev)
            /\ k[Len(k)] = ev
            /\ RecordOK(journal) /\ RecordOK(k)
            /\ journal # <<>> => k[1] = journal[1] /\ Beginning(k) = Beginning(journal)
            /\ ev.kind \notin TerminalKinds => Ending(k) = <<>>
            /\ \/ journal = <<>> /\ ev.kind = "ExecutionStarted"
               \/ journal # <<>> /\ Continues(journal) /\ Admits(EndState(journal), ev)
<1> DEFINE ev == run[e].pending
           j == journal
           k == journal'
<1>1. /\ ev \in Events /\ j \in Seq(Events) /\ k = Append(j, ev)
      /\ \/ j = <<>> /\ ev.kind = "ExecutionStarted"
         \/ j # <<>> /\ Admits(EndState(j), ev)
  BY PendingEvent DEF AppendPending
<1>2. /\ k # <<>> /\ EndState(k) = StateAfter(ev) /\ k[Len(k)] = ev
      /\ j # <<>> => k[1] = j[1]
  BY <1>1, AppendedAt
<1>3. RecordOK(j) /\ RecordOK(k)
  BY NextRecords DEF RecordInv
<1>4. j # <<>> => Continues(j)
  BY <1>1, AppendContinues
<1>5. j # <<>> => Beginning(k) = Beginning(j)
  BY <1>2 DEF Beginning
<1>6. ev.kind \notin TerminalKinds => Ending(k) = <<>>
  BY <1>2 DEF Ending, Terminal
<1> QED BY <1>1, <1>2, <1>3, <1>4, <1>5, <1>6

\* What the code may do next is what the abstract execution's code may do: the
\* run has seen exactly the answers on record.
LEMMA CodeMoves ==
  ASSUME IInv, RecordInv, NEW e \in Engines, run[e].pc = "Appending", Continues(journal),
         EndState(journal).phase = "Ready", Len(run[e].obs) = EndState(journal).seq
  PROVE  Durable!Moves = Code(run[e].definition, run[e].input, run[e].obs)
<1> DEFINE r == run[e]
           j == journal
<1>1. j \in Seq(Events) /\ RecordOK(j) /\ r.obs \in Seq(Results) /\ j # <<>>
  BY DEF IInv, TypeOK, RecordInv, Runs, Continues
<1>2. Seen(j, r.obs) /\ j[1].value = InvocationOf(r)
  BY <1>1, PendingEvent DEF Grounded
<1>3. r.obs = Answers(j)
  BY <1>1, <1>2, AnswersInOrder, SeenUnique DEF RecordOK
<1>4. OpenCommand(j) = <<>>
  BY NoneOpen DEF OpenPhases
<1>5. Beginning(j) # <<>> /\ Beginning(j)[1] = InvocationOf(r) /\ Ending(j) = <<>>
  BY <1>1, <1>2 DEF Beginning, Ending, Continues
<1> HIDE DEF j, r
<1>6. Durable!Moves = Code(InvocationOf(r).definition, InvocationOf(r).input, r.obs)
  BY <1>3, <1>4, <1>5 DEF Durable!Moves, j
<1> QED BY <1>6 DEF InvocationOf, r

\* The start record begins the abstract execution.
LEMMA StartMaps ==
  ASSUME IInv, RecordInv, [Next]_vars, NEW e \in Engines, AppendPending(e), effects' = effects,
         run[e].pending.kind = "ExecutionStarted"
  PROVE  Durable!Next
<1> DEFINE ev == run[e].pending
           j == journal
           k == journal'
<1>1. /\ ev \in Events /\ j \in Seq(Events) /\ k = Append(j, ev) /\ k # <<>>
      /\ EndState(k) = StateAfter(ev) /\ RecordOK(k) /\ RecordOK(j) /\ Ending(k) = <<>>
      /\ j = <<>>
  BY AppendBasics, AdmittedAfter, KindSets
<1>2. ev.value \in Invocations
  BY <1>1, EventFields
<1>3. Beginning(j) = <<>> /\ Beginning(k) = <<ev.value>>
  <2>1. k[1] = ev
    BY <1>1, AppendedAt
  <2> QED BY <1>1, <2>1 DEF Beginning
<1>4. Answers(k) = Answers(j)
  BY <1>1, AnswersKept, KindSets DEF RecordOK
<1>5. /\ OpenCommand(j) = <<>> /\ LastPerformance(j, effects) = <<>>
      /\ OpenCommand(k) = <<>> /\ LastPerformance(k, effects) = <<>>
  <2>1. EndState(k).phase \notin OpenPhases
    BY <1>1, StateTells DEF OpenPhases
  <2> HIDE DEF k, j
  <2> QED BY <1>1, <2>1, NoneOpen
<1>6. Ending(j) = <<>>
  BY <1>1 DEF Ending, Terminal
<1> HIDE DEF ev
<1>7. Durable!Start(ev.value)
  BY <1>1, <1>3, <1>4, <1>5, <1>6 DEF Durable!Start
<1> QED BY <1>2, <1>7, SameVocabulary DEF Durable!Next

\* A command's first event opens it, or reads its answer at once; the code of the
\* abstract execution issues it too.
LEMMA CommandOnRecord ==
  ASSUME IInv, RecordInv, [Next]_vars, NEW e \in Engines, AppendPending(e),
         run[e].pending.kind \in CommandRecordKinds
  PROVE  LET ev == run[e].pending
         IN /\ Continues(journal) /\ EndState(journal).phase = "Ready"
            /\ ev.seq = EndState(journal).seq
            /\ OpenCommand(journal) = <<>>
            /\ \A performed : LastPerformance(journal, performed) = <<>>
            /\ Ending(journal) = <<>>
            /\ \E cmd \in Commands :
                 /\ cmd \in Durable!Moves
                 /\ ev.kind = RecordKind(cmd.kind)
                 /\ ev.kind \in OpeningKinds => cmd = CommandOpenedBy(ev)
<1> DEFINE r == run[e]
           ev == r.pending
           j == journal
<1>1. /\ ev \in Events /\ j \in Seq(Events) /\ j # <<>> /\ Continues(j) /\ Admits(EndState(j), ev)
  BY AppendBasics, KindSets
<1>2. EndState(j).phase = "Ready" /\ ev.seq = EndState(j).seq /\ Len(r.obs) = ev.seq
  <2>1. ev.kind \in PositionedKinds /\ r.pc = "Appending"
    BY KindSets DEF AppendPending
  <2> QED BY <1>1, <2>1, AdmittedAfter, PendingEvent
<1>3. OpenCommand(j) = <<>> /\ \A performed : LastPerformance(j, performed) = <<>>
  BY <1>2, NoneOpen DEF OpenPhases
<1>4. Ending(j) = <<>>
  BY <1>1 DEF Ending, Continues
<1>5. Durable!Moves = Code(r.definition, r.input, r.obs)
  BY <1>1, <1>2, CodeMoves DEF AppendPending
<1>6. PICK cmd \in Commands : cmd \in Code(r.definition, r.input, r.obs) /\ Matches(ev, cmd)
  BY DEF RecordInv, RunSees, PendingIssued, AppendPending
<1>7. ev.kind = RecordKind(cmd.kind)
  BY <1>6 DEF Matches
<1>8. ASSUME ev.kind \in OpeningKinds PROVE cmd = CommandOpenedBy(ev)
  <2>1. CASE ev.kind = "StepScheduled"
    <3>1. cmd.kind = "RunStep" /\ cmd.arg = ev.value
      BY <1>6, <1>7, <2>1, CommandFields DEF CommandKinds, Matches
    <3>2. cmd = RunStep(cmd.arg)
      BY <3>1 DEF Commands, RunStep, ReadNow, DrawRandom, Sleep
    <3> QED BY <2>1, <3>1, <3>2 DEF CommandOpenedBy
  <2>2. CASE ev.kind = "TimerScheduled"
    <3>1. cmd.kind = "Sleep" /\ cmd.arg = ev.value
      BY <1>6, <1>7, <2>2, CommandFields DEF CommandKinds, Matches
    <3>2. cmd = Sleep(cmd.arg)
      BY <3>1 DEF Commands, RunStep, ReadNow, DrawRandom, Sleep
    <3> QED BY <2>2, <3>1, <3>2 DEF CommandOpenedBy
  <2> QED BY <1>8, <2>1, <2>2 DEF OpeningKinds
<1> QED BY <1>1, <1>2, <1>3, <1>4, <1>5, <1>6, <1>7, <1>8

\* The schedule of a step or a timer opens the command.
LEMMA OpenMaps ==
  ASSUME IInv, RecordInv, [Next]_vars, NEW e \in Engines, AppendPending(e), effects' = effects,
         run[e].pending.kind \in OpeningKinds
  PROVE  Durable!Next
<1> DEFINE ev == run[e].pending
           j == journal
           k == journal'
           n == Len(j) + 1
<1>1. /\ ev \in Events /\ j \in Seq(Events) /\ k = Append(j, ev) /\ k # <<>>
      /\ EndState(k) = StateAfter(ev) /\ RecordOK(k) /\ RecordOK(j) /\ Ending(k) = <<>>
      /\ Continues(j) /\ j # <<>> /\ Beginning(k) = Beginning(j)
  BY AppendBasics, KindSets DEF OpeningKinds
<1>2. PICK cmd \in Commands :
        cmd \in Durable!Moves /\ ev.kind = RecordKind(cmd.kind) /\ cmd = CommandOpenedBy(ev)
  BY CommandOnRecord, KindSets DEF OpeningKinds
<1>3. /\ EndState(j).phase = "Ready" /\ ev.seq = EndState(j).seq
      /\ LastPerformance(j, effects) = <<>> /\ Ending(j) = <<>>
  BY CommandOnRecord, KindSets DEF OpeningKinds
<1>4. Answers(k) = Answers(j)
  BY <1>1, AnswersKept, KindSets DEF RecordOK, OpeningKinds
<1>5. EndState(k).phase \in OpenPhases /\ EndState(k).seq = ev.seq
  BY <1>1, StateTells DEF OpeningKinds, OpenPhases
<1>6. OpenCommand(k) = <<cmd>>
  <2>1. Continues(k)
    BY <1>1, <1>5, AppendedAt, JournalEnd
  <2>2. PICK i \in DOMAIN k : Opens(k, i) /\ OpenCommand(k) = << CommandOpenedBy(k[i]) >>
    BY <1>1, <1>5, <2>1, OpenKind
  <2>3. n \in DOMAIN k /\ k[n] = ev
    BY <1>1, AppendedAt
  <2>4. k[n].kind \in OpeningKinds /\ k[n].seq = EndState(k).seq
    BY <1>5, <2>3
  <2>5. n = i
    BY <2>2, <2>3, <2>4 DEF Opens
  <2> QED BY <1>2, <2>2, <2>3, <2>5
<1>7. LastPerformance(k, effects) = <<>>
  <2>1. ASSUME effects # <<>> PROVE effects[Len(effects)].seq # ev.seq
    <3>1. effects \in Seq(Effects) /\ Len(effects) \in DOMAIN effects
      BY <2>1, LastEffect DEF IInv, TypeOK
    <3>2. effects[Len(effects)].seq < EndState(j).seq
      BY <1>1, <1>3, <3>1 DEF RecordInv, EffectsBounded
    <3>3. EndState(j).seq \in Nat /\ effects[Len(effects)] \in Effects
      BY <1>1, <2>1, <3>1, JournalEnd, LastEffect
    <3> QED BY <1>3, <3>2, <3>3
  <2> QED BY <1>5, <2>1 DEF LastPerformance
<1>8. cmd.kind \in {"RunStep", "Sleep"}
  BY <1>2 DEF CommandOpenedBy, RunStep, Sleep
<1> HIDE DEF ev, n
<1>9. Durable!Open(cmd)
  BY <1>1, <1>2, <1>3, <1>4, <1>6, <1>7, <1>8 DEF Durable!Open
<1> QED BY <1>2, <1>9, SameVocabulary DEF Durable!Next

\* A reading is issued and answered in one step.
LEMMA ReadMaps ==
  ASSUME IInv, RecordInv, [Next]_vars, NEW e \in Engines, AppendPending(e), effects' = effects,
         run[e].pending.kind \in {"NowRecorded", "RandomRecorded"}
  PROVE  Durable!Next
<1> DEFINE ev == run[e].pending
           j == journal
           k == journal'
<1>1. /\ ev \in Events /\ j \in Seq(Events) /\ k = Append(j, ev) /\ k # <<>>
      /\ EndState(k) = StateAfter(ev) /\ RecordOK(k) /\ RecordOK(j) /\ Ending(k) = <<>>
      /\ Continues(j) /\ j # <<>> /\ Beginning(k) = Beginning(j)
  BY AppendBasics, KindSets
<1>2. ev.kind \in CommandRecordKinds /\ ev.kind \in SettlingKinds
  BY KindSets
<1>3. PICK cmd \in Commands : cmd \in Durable!Moves /\ ev.kind = RecordKind(cmd.kind)
  BY <1>2, CommandOnRecord
<1>4. /\ ev.seq = EndState(j).seq
      /\ OpenCommand(j) = <<>> /\ LastPerformance(j, effects) = <<>> /\ Ending(j) = <<>>
  BY <1>2, CommandOnRecord
<1>5. Answers(k) = Append(Answers(j), ResultOf(ev))
  BY <1>1, <1>2, <1>4, AnswersGrow
<1>6. OpenCommand(k) = <<>> /\ LastPerformance(k, effects) = <<>>
  <2>1. EndState(k).phase \notin OpenPhases
    BY <1>1, <1>2, StateTells DEF OpenPhases
  <2> HIDE DEF k, j
  <2> QED BY <2>1, NoneOpen
<1>7. ResultOf(ev) \in Results /\ ResultOf(ev).kind = ev.kind
  BY <1>1, <1>2, EventFields DEF ResultOf
<1> DEFINE x == ResultOf(ev)
<1> HIDE DEF ev, x
<1>8. Durable!Read(cmd, x)
  BY <1>1, <1>3, <1>4, <1>5, <1>6, <1>7, SameVocabulary DEF Durable!Read, x
<1> QED BY <1>3, <1>7, <1>8, SameVocabulary DEF Durable!Next, x

\* A recorded outcome resolves the open step with what its last body returned; a
\* fired timer resolves the open wait.
LEMMA ResolveMaps ==
  ASSUME IInv, RecordInv, [Next]_vars, NEW e \in Engines, AppendPending(e), effects' = effects,
         run[e].pending.kind \in {"StepCompleted", "StepFailed", "TimerFired"}
  PROVE  Durable!Next
<1> DEFINE r == run[e]
           ev == r.pending
           j == journal
           k == journal'
           x == ResultOf(ev)
<1>1. /\ ev \in Events /\ j \in Seq(Events) /\ k = Append(j, ev) /\ k # <<>>
      /\ EndState(k) = StateAfter(ev) /\ RecordOK(k) /\ RecordOK(j) /\ Ending(k) = <<>>
      /\ Continues(j) /\ j # <<>> /\ Beginning(k) = Beginning(j) /\ Admits(EndState(j), ev)
  BY AppendBasics, KindSets
<1>2. ev.kind \in SettlingKinds
  BY KindSets
<1>3. /\ ev.seq = EndState(j).seq
      /\ EndState(j).phase = IF ev.kind = "TimerFired" THEN "Timer" ELSE "Started"
  BY <1>1, AdmittedAfter, KindSets
<1>4. Answers(k) = Append(Answers(j), x)
  BY <1>1, <1>2, <1>3, AnswersGrow
<1>5. OpenCommand(k) = <<>> /\ LastPerformance(k, effects) = <<>>
  <2>1. EndState(k).phase \notin OpenPhases
    BY <1>1, <1>2, StateTells DEF OpenPhases
  <2> HIDE DEF k, j
  <2> QED BY <2>1, NoneOpen
<1>6. PICK i \in DOMAIN j :
        /\ OpenCommand(j) = << CommandOpenedBy(j[i]) >>
        /\ CommandOpenedBy(j[i]).kind = IF EndState(j).phase = "Timer" THEN "Sleep" ELSE "RunStep"
  <2>1. EndState(j).phase \in OpenPhases
    BY <1>3 DEF OpenPhases
  <2> QED BY <1>1, <2>1, OpenKind
<1>7. OpenCommand(j) # <<>> /\ OpenCommand(j)[1] = CommandOpenedBy(j[i])
  BY <1>6
<1>8. ASSUME ev.kind # "TimerFired" PROVE LastPerformance(j, effects) = <<x>>
  <2>1. EffectAtRisk(r)
    BY <1>8 DEF EffectAtRisk, AppendPending
  <2>2. /\ effects # <<>> /\ effects[Len(effects)].seq = ev.seq
        /\ effects[Len(effects)].result = x
    BY <2>1 DEF RecordInv, RunSees, BodyOK
  <2> QED BY <1>3, <1>7, <2>2 DEF LastPerformance
<1>9. /\ x \in Results /\ x.kind = ev.kind
  BY <1>1, <1>2, EventFields DEF ResultOf
<1>10. Ending(j) = <<>>
  BY <1>1 DEF Ending, Continues
<1>11. IF OpenCommand(j)[1].kind = "RunStep" THEN LastPerformance(j, effects) = <<x>>
                                             ELSE x.kind = "TimerFired"
  BY <1>3, <1>6, <1>7, <1>8, <1>9
<1> HIDE DEF ev, x
<1>12. Durable!Resolve(x)
  BY <1>1, <1>4, <1>5, <1>7, <1>10, <1>11 DEF Durable!Resolve
<1> QED BY <1>9, <1>12, SameVocabulary DEF Durable!Next

\* A recorded attempt is no step of the abstract execution: the same command stays
\* open.
LEMMA AttemptStutters ==
  ASSUME IInv, RecordInv, [Next]_vars, NEW e \in Engines, AppendPending(e), effects' = effects,
         run[e].pending.kind = "StepStarted"
  PROVE  UNCHANGED Durable!vars
<1> DEFINE ev == run[e].pending
           j == journal
           k == journal'
<1>1. /\ ev \in Events /\ j \in Seq(Events) /\ k = Append(j, ev) /\ k # <<>>
      /\ EndState(k) = StateAfter(ev) /\ RecordOK(k) /\ RecordOK(j) /\ Ending(k) = <<>>
      /\ Continues(j) /\ j # <<>> /\ Beginning(k) = Beginning(j) /\ Admits(EndState(j), ev)
  BY AppendBasics, KindSets
<1>2. /\ ev.seq = EndState(j).seq /\ EndState(j).phase \in OpenPhases
      /\ EndState(j).phase # "Timer"
  BY <1>1, AdmittedAfter, KindSets DEF OpenPhases
<1>3. /\ EndState(k).seq = ev.seq /\ EndState(k).phase \in OpenPhases
      /\ EndState(k).phase # "Timer"
  BY <1>1, StateTells DEF OpenPhases
<1>4. Answers(k) = Answers(j)
  BY <1>1, AnswersKept, KindSets DEF RecordOK
<1>5. Continues(k)
  BY <1>1, <1>3, AppendedAt, JournalEnd
<1>6. PICK i \in DOMAIN j : Opens(j, i) /\ OpenCommand(j) = << CommandOpenedBy(j[i]) >>
  BY <1>1, <1>2, OpenKind
<1>7. PICK m \in DOMAIN k : Opens(k, m) /\ OpenCommand(k) = << CommandOpenedBy(k[m]) >>
  BY <1>1, <1>3, <1>5, OpenKind
<1>8. i \in DOMAIN k /\ k[i] = j[i]
  BY <1>1, AppendedAt
<1>9. i = m
  BY <1>2, <1>3, <1>6, <1>7, <1>8 DEF Opens, OpeningKinds
<1>10. OpenCommand(k) = OpenCommand(j)
  BY <1>6, <1>7, <1>8, <1>9
<1>11. LastPerformance(k, effects) = LastPerformance(j, effects)
  BY <1>2, <1>3, <1>10 DEF LastPerformance
<1>12. Ending(j) = <<>>
  BY <1>1 DEF Ending, Continues
<1> QED BY <1>1, <1>4, <1>10, <1>11, <1>12 DEF Durable!vars

\* The seal is the outcome the code returns after all the answers on record.
LEMMA FinishMaps ==
  ASSUME IInv, RecordInv, [Next]_vars, NEW e \in Engines, AppendPending(e), effects' = effects,
         run[e].pending.kind \in TerminalKinds
  PROVE  Durable!Next
<1> DEFINE r == run[e]
           ev == r.pending
           j == journal
           k == journal'
           x == ResultOf(ev)
<1>1. /\ ev \in Events /\ j \in Seq(Events) /\ k = Append(j, ev) /\ k # <<>>
      /\ EndState(k) = StateAfter(ev) /\ RecordOK(k) /\ RecordOK(j) /\ k[Len(k)] = ev
      /\ Continues(j) /\ j # <<>> /\ Beginning(k) = Beginning(j)
  BY AppendBasics, KindSets
<1>2. RunSees(j, effects, r) /\ Healthy(r) /\ r.pc = "Appending"
  BY DEF RecordInv, IInv, RunAgrees, AppendingOK, AppendPending
<1>3. EndState(j).phase = "Ready" /\ Len(r.obs) = EndState(j).seq
  <2>1. ~ InCommand(r)
    BY <1>2, CommandPcs, KindSets DEF InCommand
  <2> QED BY <1>2, <2>1 DEF RunSees, ObservedOK, RecordedOK, Ready, HistoryState
<1>4. OutcomeOf(ev) \in Durable!Moves
  <2>1. OutcomeOf(ev) \in Code(r.definition, r.input, r.obs)
    BY <1>2 DEF RunSees, PendingIssued
  <2> QED BY <1>1, <1>2, <1>3, <2>1, CodeMoves
<1>5. OutcomeOf(ev) = [kind |-> IF x.kind = "ExecutionCompleted" THEN "Ok" ELSE "Err",
                       arg |-> x.value]
  BY DEF OutcomeOf, ResultOf
<1>6. x \in Durable!Ends
  <2>1. x \in {ResultOf(ExecutionCompleted(v)) : v \in Payloads}
                \cup {ResultOf(ExecutionFailed(y)) : y \in WorkflowErrors}
    BY <1>1, FinalResult
  <2> HIDE DEF x
  <2> QED BY <2>1, SameVocabulary DEF ResultOf, ExecutionCompleted, ExecutionFailed, Event
<1>7. Answers(k) = Answers(j)
  BY <1>1, AnswersKept, KindSets DEF RecordOK
<1>8. /\ OpenCommand(j) = <<>> /\ LastPerformance(j, effects) = <<>>
      /\ OpenCommand(k) = <<>> /\ LastPerformance(k, effects) = <<>>
  <2>1. EndState(k).phase \notin OpenPhases
    BY <1>1, StateTells, KindSets DEF OpenPhases
  <2>2. EndState(j).phase \notin OpenPhases
    BY <1>3 DEF OpenPhases
  <2> HIDE DEF k, j
  <2> QED BY <2>1, <2>2, NoneOpen
<1>9. Ending(k) = <<x>>
  BY <1>1 DEF Ending, Terminal
<1> HIDE DEF ev, x
<1>10. Durable!Finish(x)
  BY <1>1, <1>4, <1>5, <1>7, <1>8, <1>9 DEF Durable!Finish
<1> QED BY <1>6, <1>10 DEF Durable!Next

\* An append is a step of the abstract execution or leaves it as it is.
LEMMA AppendMaps ==
  ASSUME IInv, RecordInv, [Next]_vars, NEW e \in Engines, AppendPending(e), effects' = effects
  PROVE  [Durable!Next]_(Durable!vars)
<1>1. run[e].pending \in Events
  BY AppendBasics
<1>2. \/ run[e].pending.kind \in {"ExecutionStarted", "StepStarted"}
      \/ run[e].pending.kind \in OpeningKinds
      \/ run[e].pending.kind \in {"NowRecorded", "RandomRecorded"}
      \/ run[e].pending.kind \in {"StepCompleted", "StepFailed", "TimerFired"}
      \/ run[e].pending.kind \in TerminalKinds
  BY <1>1, EventFields, KindSets DEF OpeningKinds
<1> QED BY <1>2, StartMaps, AttemptStutters, OpenMaps, ReadMaps, ResolveMaps, FinishMaps

-----------------------------------------------------------------------------
(* The run of a body.                                                      *)

\* A body performs the open step.
LEMMA PerformMaps ==
  ASSUME IInv, RecordInv, NEW e \in Engines, RunBody(e)
  PROVE  Durable!Next
<1> DEFINE j == journal
           p == Position(run[e])
<1>1. /\ j # <<>> /\ Continues(j) /\ EndState(j).phase = "Started" /\ EndState(j).seq = p
  BY BodyOfOpenStep
<1>2. PICK ev \in Events :
        /\ ev.kind \in {"StepCompleted", "StepFailed"}
        /\ effects' = Append(effects, [seq |-> p, attempt |-> run[e].attempt,
                                       step |-> run[e].step, result |-> ResultOf(ev)])
  BY BodyOfOpenStep
<1>3. journal' = j
  BY DEF RunBody
<1>4. effects \in Seq(Effects) /\ RecordOK(j)
  BY DEF IInv, TypeOK, RecordInv
<1> DEFINE f == [seq |-> p, attempt |-> run[e].attempt, step |-> run[e].step,
                 result |-> ResultOf(ev)]
<1>5. effects' # <<>> /\ effects'[Len(effects')] = f
  BY <1>2, <1>4, AppendProperties
<1>6. PICK i \in DOMAIN j :
        /\ OpenCommand(j) = << CommandOpenedBy(j[i]) >>
        /\ CommandOpenedBy(j[i]).kind = "RunStep"
  <2>1. EndState(j).phase \in OpenPhases
    BY <1>1 DEF OpenPhases
  <2> QED BY <1>1, <1>4, <2>1, OpenKind
<1>7. OpenCommand(j) # <<>> /\ OpenCommand(j)[1].kind = "RunStep"
  BY <1>6
<1> DEFINE x == ResultOf(ev)
<1>8. LastPerformance(j, effects') = <<x>>
  <2>1. f.seq = EndState(j).seq /\ f.result = x
    BY <1>1
  <2> HIDE DEF f
  <2> QED BY <1>5, <1>7, <2>1 DEF LastPerformance
<1>9. x \in Results /\ x.kind \in {"StepCompleted", "StepFailed"}
  BY <1>2, EventFields, KindSets DEF ResultOf
<1> HIDE DEF x
<1>10. Durable!Perform(x)
  BY <1>3, <1>7, <1>8, <1>9 DEF Durable!Perform
<1> QED BY <1>9, <1>10, SameVocabulary DEF Durable!Next

-----------------------------------------------------------------------------
(* The refinement.                                                         *)

\* Before any engine runs, the abstract execution has not begun.
LEMMA InitMaps == Init => Durable!Init
<1> SUFFICES ASSUME Init PROVE Durable!Init
  OBVIOUS
<1>1. journal = <<>>
  BY DEF Init
<1>2. Beginning(journal) = <<>> /\ Ending(journal) = <<>>
  BY <1>1 DEF Beginning, Ending, Terminal
<1>3. OpenCommand(journal) = <<>> /\ LastPerformance(journal, effects) = <<>>
  BY <1>1, NoneOpen
<1>4. Answers(journal) = <<>>
  <2>1. DOMAIN journal = {}
    BY <1>1, EmptySeq
  <2>2. {q + 1 : q \in {p \in Seqs : \E i \in DOMAIN journal : Settles(journal[i], p)}} = {}
    BY <2>1
  <2> QED BY <2>2 DEF Answers
<1> QED BY <1>2, <1>3, <1>4 DEF Durable!Init

\* Every step of every engine is a step of the abstract execution or leaves it as
\* it is.
LEMMA NextMaps == IInv /\ RecordInv /\ [Next]_vars => [Durable!Next]_(Durable!vars)
<1> SUFFICES ASSUME IInv, RecordInv, [Next]_vars PROVE [Durable!Next]_(Durable!vars)
  OBVIOUS
<1>1. CASE effects' # effects
  BY <1>1, OnlyBodiesRun, PerformMaps
<1>2. CASE journal' # journal
  BY <1>2, OnlyAppendsWrite, AppendMaps
<1>3. CASE journal' = journal /\ effects' = effects
  BY <1>3 DEF Durable!vars
<1> QED BY <1>1, <1>2, <1>3

\* However many engines compete for an execution, and however they crash, retry and
\* lose appends, what is durable is one run of the workflow's code, each command
\* issued after the results before it, each result that of the last body run for it,
\* and the outcome the one the code returns after all of them.
THEOREM Refinement == Spec => ImplementsDurable
  BY InitMaps, NextMaps, Invariance, RecordInvariance, PTL DEF Spec, ImplementsDurable, Durable!Spec
=============================================================================
