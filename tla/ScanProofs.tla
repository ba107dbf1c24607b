----------------------------- MODULE ScanProofs -----------------------------
(***************************************************************************)
(* The code's scans compute what they are meant to: ValidatedHistory::parse *)
(* accepts the grammar of whole journals, and the engine modules' Parses    *)
(* with it; the trace predicates' loops accept the traces of their          *)
(* reference definitions.  A scan is followed element by element: what it   *)
(* has computed after n of them is stated of the n, and n goes up.          *)
(***************************************************************************)
EXTENDS HistoryParse, EquivalenceMC, SequenceTheorems, FiniteSetTheorems, TLAPS

-----------------------------------------------------------------------------
(* The fold of ValidatedHistory::parse.                                    *)

Start == [end |-> Ready(0), error |-> "none", offset |-> 0]

Parser == INSTANCE FoldLemmas WITH Op <- Turn, Base <- Start

LEMMA ParserFolds == \A s : Parser!FoldLeft(Turn, Start, s) = Fold(s)
BY DEF Fold, Start, FoldLeft, Parser!FoldLeft, MapThenFoldSet, Parser!MapThenFoldSet, Max, Parser!Max

\* The state the i-th event of the tail is tested in.
StateBefore(s, i) == IF i = 1 THEN Ready(0) ELSE StateAfter(s[i - 1])

Fits(s, i) == Admits(StateBefore(s, i), s[i])

\* What the fold has computed over s.
Folded(s) ==
  \/ /\ \A i \in DOMAIN s : Fits(s, i)
     /\ Fold(s) = [end |-> StateBefore(s, Len(s) + 1), error |-> "none", offset |-> Len(s)]
  \/ \E n \in DOMAIN s :
       /\ \A i \in 1 .. n - 1 : Fits(s, i)
       /\ ~ Fits(s, n)
       /\ Fold(s).error # "none" /\ Fold(s).offset = n

LEMMA FoldOneMore ==
  ASSUME NEW s \in Seq(Events), NEW ev \in Events, Folded(s)
  PROVE  Folded(Append(s, ev))
<1> DEFINE t == Append(s, ev)
           n == Len(s)
<1> SUFFICES Folded(t)
  OBVIOUS
<1>1. /\ n \in Nat /\ DOMAIN s = 1 .. n /\ DOMAIN t = 1 .. n + 1 /\ Len(t) = n + 1
      /\ t[n + 1] = ev /\ \A i \in 1 .. n : t[i] = s[i]
  OBVIOUS
<1>2. Fold(t) = Turn(Fold(s), ev)
  BY ParserFolds, Parser!FoldOfAppend
<1>3. \A i \in 1 .. n : Fits(t, i) <=> Fits(s, i)
  BY <1>1 DEF Fits, StateBefore
<1>4. StateBefore(t, n + 1) = StateBefore(s, n + 1) /\ StateBefore(t, n + 2) = StateAfter(ev)
  <2> HIDE DEF t, n
  <2>1. n + 1 # 1 => n \in 1 .. n /\ t[n] = s[n]
    BY <1>1
  <2>2. (n + 1) - 1 = n /\ (n + 2) - 1 = n + 1 /\ n + 2 # 1
    BY <1>1
  <2> QED BY <1>1, <2>1, <2>2 DEF StateBefore
<1> HIDE DEF t, n
<1>5. CASE /\ \A i \in DOMAIN s : Fits(s, i)
           /\ Fold(s) = [end |-> StateBefore(s, n + 1), error |-> "none", offset |-> n]
  <2>1. Fold(t) = [end |-> StateAfter(ev), error |-> AdvanceError(StateBefore(s, n + 1), ev),
                   offset |-> n + 1]
    BY <1>2, <1>5 DEF Turn
  <2>2. Fits(t, n + 1) <=> AdvanceError(StateBefore(s, n + 1), ev) = "none"
    BY <1>1, <1>4 DEF Fits, Admits
  <2>3. \A i \in 1 .. n : Fits(t, i)
    BY <1>1, <1>3, <1>5
  <2>4. CASE Fits(t, n + 1)
    <3>1. \A i \in DOMAIN t : Fits(t, i)
      BY <1>1, <2>3, <2>4
    <3>2. Len(t) + 1 = n + 2
      BY <1>1
    <3>3. Fold(t) = [end |-> StateBefore(t, Len(t) + 1), error |-> "none", offset |-> Len(t)]
      BY <1>1, <1>4, <2>1, <2>2, <2>4, <3>2
    <3> QED BY <3>1, <3>3 DEF Folded
  <2>5. CASE ~ Fits(t, n + 1)
    <3>1. n + 1 \in DOMAIN t
      BY <1>1
    <3>2. \A i \in 1 .. (n + 1) - 1 : Fits(t, i)
      BY <1>1, <2>3
    <3>3. Fold(t).error # "none" /\ Fold(t).offset = n + 1
      BY <2>1, <2>2, <2>5
    <3> QED BY <2>5, <3>1, <3>2, <3>3 DEF Folded
  <2> QED BY <2>4, <2>5
<1>6. ASSUME NEW m \in DOMAIN s, \A i \in 1 .. m - 1 : Fits(s, i), ~ Fits(s, m),
             Fold(s).error # "none", Fold(s).offset = m
      PROVE  Folded(t)
  <2>1. Fold(t) = Fold(s)
    BY <1>2, <1>6 DEF Turn
  <2>2. m \in DOMAIN t /\ m \in 1 .. n /\ \A i \in 1 .. m - 1 : i \in 1 .. n
    BY <1>1
  <2>3. ~ Fits(t, m) /\ \A i \in 1 .. m - 1 : Fits(t, i)
    BY <1>3, <1>6, <2>2
  <2> QED BY <1>6, <2>1, <2>2, <2>3 DEF Folded
<1> QED BY <1>5, <1>6 DEF Folded, n

LEMMA FoldStopsAtMisfit == \A s \in Seq(Events) : Folded(s)
<1> DEFINE S == {n \in Nat : \A s \in Seq(Events) : Len(s) = n => Folded(s)}
<1>1. 0 \in S
  <2> SUFFICES ASSUME NEW s \in Seq(Events), Len(s) = 0 PROVE Folded(s)
    OBVIOUS
  <2>1. DOMAIN s = {}
    OBVIOUS
  <2>2. Fold(s) = Start
    BY <2>1, ParserFolds, Parser!FoldOfNone
  <2>3. StateBefore(s, Len(s) + 1) = Ready(0)
    BY DEF StateBefore
  <2> QED BY <2>1, <2>2, <2>3 DEF Folded, Start
<1>2. ASSUME NEW n \in Nat, n \in S PROVE n + 1 \in S
  <2> SUFFICES ASSUME NEW s \in Seq(Events), Len(s) = n + 1 PROVE Folded(s)
    OBVIOUS
  <2> DEFINE f == [i \in 1 .. n |-> s[i]]
  <2>1. f \in Seq(Events) /\ Len(f) = n /\ s[n + 1] \in Events
    OBVIOUS
  <2>2. s = Append(f, s[n + 1])
    OBVIOUS
  <2>3. Folded(f)
    BY <1>2, <2>1
  <2> HIDE DEF f
  <2> QED BY <2>1, <2>2, <2>3, FoldOneMore
<1>3. Nat \subseteq S
  <2> HIDE DEF S
  <2> QED BY <1>1, <1>2, Parser!NatSetInduction
<1> QED
  <2> SUFFICES ASSUME NEW s \in Seq(Events) PROVE Folded(s)
    OBVIOUS
  <2>1. Len(s) \in S
    BY <1>3
  <2> QED BY <2>1

-----------------------------------------------------------------------------
(* The parser against the neighbour-wise definition.                       *)

LEMMA StartsReady ==
  ASSUME NEW ev \in Events, ev.kind = "ExecutionStarted"
  PROVE  StateAfter(ev) = Ready(0)
BY DEF StateAfter, SettlingKinds

\* The state an event of the tail is tested in is the one its predecessor leaves.
LEMMA TailStates ==
  ASSUME NEW j \in Seq(Events), j # <<>>, j[1].kind = "ExecutionStarted"
  PROVE  /\ Tail(j) \in Seq(Events) /\ Len(Tail(j)) = Len(j) - 1 /\ Len(j) \in Nat \ {0}
         /\ \A i \in 1 .. Len(j) : StateBefore(Tail(j), i) = StateAfter(j[i])
         /\ \A i \in 1 .. Len(j) - 1 :
              Fits(Tail(j), i) <=> Admits(StateAfter(j[i]), j[i + 1])
<1>1. /\ Tail(j) \in Seq(Events) /\ Len(Tail(j)) = Len(j) - 1 /\ Len(j) \in Nat \ {0}
      /\ \A i \in 1 .. Len(j) - 1 : Tail(j)[i] = j[i + 1]
  OBVIOUS
<1>2. StateAfter(j[1]) = Ready(0)
  <2>1. j[1] \in Events
    OBVIOUS
  <2> QED BY <2>1, StartsReady
<1>3. ASSUME NEW i \in 1 .. Len(j)
      PROVE  StateBefore(Tail(j), i) = StateAfter(j[i])
  <2>1. i # 1 => i - 1 \in 1 .. Len(j) - 1 /\ (i - 1) + 1 = i
    BY <1>1
  <2>2. i # 1 => Tail(j)[i - 1] = j[i]
    BY <1>1, <2>1
  <2> QED BY <1>2, <2>2 DEF StateBefore
<1>4. \A i \in 1 .. Len(j) - 1 : i \in 1 .. Len(j)
  BY <1>1
<1> QED BY <1>1, <1>3, <1>4 DEF Fits

\* A prefix is legal iff what it holds of the tail fits.
LEMMA PrefixFits ==
  ASSUME NEW j \in Seq(Events), j # <<>>, j[1].kind = "ExecutionStarted",
         NEW n \in 1 .. Len(j)
  PROVE  Legal(SubSeq(j, 1, n)) <=> \A i \in 1 .. n - 1 : Fits(Tail(j), i)
<1> DEFINE p == SubSeq(j, 1, n)
<1>1. /\ p \in Seq(Events) /\ Len(p) = n /\ n \in Nat \ {0} /\ p # <<>>
      /\ \A i \in 1 .. n : p[i] = j[i]
  OBVIOUS
<1> HIDE DEF p
<1>2. \A i \in 1 .. n - 1 : i \in 1 .. Len(j) - 1 /\ i \in 1 .. n /\ i + 1 \in 1 .. n
  BY <1>1, TailStates
<1>3. p[1] = j[1]
  BY <1>1
<1>4. \A i \in 1 .. n - 1 : Fits(Tail(j), i) <=> Admits(StateAfter(p[i]), p[i + 1])
  BY <1>1, <1>2, TailStates
<1>5. ASSUME \A i \in 2 .. n : Admits(StateAfter(p[i - 1]), p[i])
      PROVE  \A i \in 1 .. n - 1 : Fits(Tail(j), i)
  <2> TAKE i \in 1 .. n - 1
  <2>1. i + 1 \in 2 .. n /\ (i + 1) - 1 = i
    BY <1>1
  <2>2. Admits(StateAfter(p[(i + 1) - 1]), p[i + 1])
    BY <1>5, <2>1
  <2> QED BY <1>4, <2>1, <2>2
<1>6. ASSUME \A i \in 1 .. n - 1 : Fits(Tail(j), i)
      PROVE  \A i \in 2 .. n : Admits(StateAfter(p[i - 1]), p[i])
  <2> TAKE i \in 2 .. n
  <2>1. i - 1 \in 1 .. n - 1 /\ (i - 1) + 1 = i
    BY <1>1
  <2>2. Admits(StateAfter(p[i - 1]), p[(i - 1) + 1])
    BY <1>4, <1>6, <2>1
  <2> QED BY <2>1, <2>2
<1>7. Legal(p) <=> \A i \in 1 .. n - 1 : Fits(Tail(j), i)
  BY <1>1, <1>3, <1>5, <1>6 DEF Legal
<1> QED BY <1>7 DEF p

LEMMA WholePrefix ==
  ASSUME NEW j \in Seq(Events)
  PROVE  SubSeq(j, 1, Len(j)) = j
OBVIOUS

\* The fold accepts what the engine modules call a journal that parses.
LEMMA ParserAgrees ==
  ASSUME NEW j \in Seq(Events)
  PROVE  Accepted(j) <=> Parses(j)
<1>1. CASE j = <<>> \/ j[1].kind # "ExecutionStarted"
  BY <1>1 DEF Accepted, Parse, Parses, Legal
<1>2. CASE j # <<>> /\ j[1].kind = "ExecutionStarted"
  <2> DEFINE t == Tail(j)
             n == Len(j)
  <2>1. t \in Seq(Events) /\ n \in Nat \ {0} /\ DOMAIN t = 1 .. n - 1 /\ Len(t) = n - 1
    BY <1>2, TailStates
  <2>2. StateBefore(t, n) = EndState(j)
    BY <1>2, <2>1, TailStates DEF EndState
  <2>3. Legal(j) <=> \A i \in 1 .. n - 1 : Fits(t, i)
    <3>1. Legal(SubSeq(j, 1, n)) <=> \A i \in 1 .. n - 1 : Fits(t, i)
      BY <1>2, <2>1, PrefixFits
    <3>2. SubSeq(j, 1, n) = j
      BY WholePrefix
    <3> HIDE DEF t, n
    <3> QED BY <3>1, <3>2
  <2>4. Accepted(j) <=> Fold(t).error = "none" /\ ~ NoNextAttempt(Fold(t).end)
    BY <1>2 DEF Accepted, Parse
  <2>5. Folded(t)
    BY <2>1, FoldStopsAtMisfit
  <2> HIDE DEF t, n
  <2>6. CASE /\ \A i \in DOMAIN t : Fits(t, i)
             /\ Fold(t) = [end |-> StateBefore(t, Len(t) + 1), error |-> "none", offset |-> Len(t)]
    <3>1. Len(t) + 1 = n
      BY <2>1
    <3>2. Fold(t).error = "none" /\ Fold(t).end = EndState(j)
      BY <2>2, <2>6, <3>1
    <3> QED BY <2>1, <2>3, <2>4, <2>6, <3>2 DEF Parses, Resumable
  <2>7. ASSUME NEW m \in DOMAIN t, ~ Fits(t, m), Fold(t).error # "none"
        PROVE  ~ Accepted(j) /\ ~ Legal(j)
    BY <2>1, <2>3, <2>4, <2>7
  <2> QED BY <2>5, <2>6, <2>7 DEF Folded, Parses
<1> QED BY <1>1, <1>2

\* The reported offset is where the fold stopped.
LEMMA ErrorLocates ==
  ASSUME NEW j \in Seq(Events), Parse(j).error # "none", Parse(j).offset > 0
  PROVE  /\ Legal(SubSeq(j, 1, Parse(j).offset))
         /\ \/ ~ Legal(SubSeq(j, 1, Parse(j).offset + 1))
            \/ Parse(j).error = "AttemptOverflow" /\ Parse(j).offset + 1 = Len(j)
<1> DEFINE t == Tail(j)
           n == Len(j)
<1>1. j # <<>> /\ j[1].kind = "ExecutionStarted"
  BY DEF Parse
<1>2. t \in Seq(Events) /\ n \in Nat \ {0} /\ DOMAIN t = 1 .. n - 1 /\ Len(t) = n - 1
  BY <1>1, TailStates
<1>3. \A k \in 1 .. n : Legal(SubSeq(j, 1, k)) <=> \A i \in 1 .. k - 1 : Fits(t, i)
  BY <1>1, PrefixFits
<1>4. Folded(t)
  BY <1>2, FoldStopsAtMisfit
<1>5. IF Fold(t).error = "none" /\ NoNextAttempt(Fold(t).end)
        THEN Parse(j) = [error |-> "AttemptOverflow", offset |-> n - 1]
        ELSE Parse(j) = [error |-> Fold(t).error, offset |-> Fold(t).offset]
  BY <1>1 DEF Parse
<1> HIDE DEF t, n
<1>6. CASE \A i \in DOMAIN t : Fits(t, i)
  <2>1. Fold(t).error = "none"
    BY <1>4, <1>6 DEF Folded
  <2>2. Parse(j).error = "AttemptOverflow" /\ Parse(j).offset = n - 1
    BY <1>5, <2>1
  <2>3. n - 1 \in 1 .. n /\ (n - 1) + 1 = n
    BY <1>2, <2>2
  <2>4. \A i \in 1 .. (n - 1) - 1 : Fits(t, i)
    BY <1>2, <1>6
  <2>5. Legal(SubSeq(j, 1, n - 1))
    BY <1>3, <2>3, <2>4
  <2> QED BY <2>2, <2>3, <2>5 DEF n
<1>7. CASE ~ \A i \in DOMAIN t : Fits(t, i)
  <2>1. PICK m \in DOMAIN t : /\ \A i \in 1 .. m - 1 : Fits(t, i)
                              /\ ~ Fits(t, m)
                              /\ Fold(t).error # "none" /\ Fold(t).offset = m
    BY <1>4, <1>7 DEF Folded
  <2>2. Parse(j).offset = m
    BY <1>5, <2>1
  <2>3. m \in 1 .. n /\ m + 1 \in 1 .. n /\ m \in 1 .. (m + 1) - 1
    BY <1>2
  <2>4. Legal(SubSeq(j, 1, m)) /\ ~ Legal(SubSeq(j, 1, m + 1))
    BY <1>3, <2>1, <2>3
  <2> QED BY <2>2, <2>4
<1> QED BY <1>6, <1>7

-----------------------------------------------------------------------------
(* The grammar of whole journals: its counts, event by event.              *)

LEMMA KindSets ==
  /\ SettlingKinds = {"StepCompleted", "StepFailed", "NowRecorded", "RandomRecorded", "TimerFired"}
  /\ CommandRecordKinds = {"StepScheduled", "NowRecorded", "RandomRecorded", "TimerScheduled"}
  /\ PositionedKinds = {"StepScheduled", "NowRecorded", "RandomRecorded", "TimerScheduled",
                        "StepCompleted", "StepFailed", "TimerFired", "StepStarted"}
  /\ TerminalKinds = {"ExecutionCompleted", "ExecutionFailed"}
<1>1. CommandRecordKinds = {"StepScheduled", "NowRecorded", "RandomRecorded", "TimerScheduled"}
  BY DEF CommandRecordKinds, RecordKind, CommandKinds
<1> QED BY <1>1 DEF PositionedKinds, SettlingKinds, TerminalKinds

LEMMA EventFields ==
  ASSUME NEW ev \in Events
  PROVE  /\ ev.seq \in Nat /\ ev.seq <= MaxSeq
         /\ ev.attempt \in Nat /\ ev.attempt <= MaxAttempt
         /\ ev.kind \in PositionedKinds \cup TerminalKinds \cup {"ExecutionStarted"}
         /\ ev.kind = "StepStarted" => ev.attempt > 0
  BY SeqAssumption, AttemptAssumption, KindSets
     DEF Events, Event, ExecutionStarted, StepScheduled, StepStarted, StepCompleted,
         StepFailed, NowRecorded, RandomRecorded, TimerScheduled, TimerFired,
         ExecutionCompleted, ExecutionFailed, Seqs, Attempts

\* The state an event leaves.
LEMMA StateTells ==
  ASSUME NEW ev \in Events
  PROVE  LET st == StateAfter(ev)
         IN /\ st.phase \in {"Ready", "Scheduled", "Started", "Timer", "Completed", "Failed"}
            /\ st.seq \in Nat /\ st.attempt \in Nat
            /\ st.phase \in {"Completed", "Failed"} <=> ev.kind \in TerminalKinds
            /\ st.phase = "Scheduled" => st.attempt = 0
            /\ st.phase = "Started" => st.attempt > 0
            /\ ev.kind = "StepScheduled" => st = HistoryState("Scheduled", ev.seq, 0)
            /\ ev.kind = "StepStarted" => st = HistoryState("Started", ev.seq, ev.attempt)
            /\ ev.kind = "TimerScheduled" => st = HistoryState("Timer", ev.seq, 0)
            /\ ev.kind \in SettlingKinds => st = Ready(ev.seq + 1)
  BY EventFields, KindSets DEF StateAfter, Ready, HistoryState, SettlingKinds

\* What HistoryState::advance asks of each kind of event.
LEMMA Admitted ==
  ASSUME NEW p \in Events, NEW ev \in Events
  PROVE  LET st == StateAfter(p)
             at(phases) == st.phase \in phases /\ ev.seq = st.seq
         IN /\ ev.kind = "ExecutionStarted" => ~ Admits(st, ev)
            /\ ev.kind \in TerminalKinds => (Admits(st, ev) <=> st.phase = "Ready")
            /\ ev.kind \in CommandRecordKinds =>
                 (Admits(st, ev) <=> at({"Ready"}) /\ ev.seq # MaxSeq)
            /\ ev.kind = "StepStarted" =>
                 (Admits(st, ev) <=> at({"Scheduled", "Started"}) /\ ev.attempt = st.attempt + 1)
            /\ ev.kind = "StepCompleted" =>
                 (Admits(st, ev) <=> at({"Started"}) /\ ev.seq # MaxSeq)
            /\ ev.kind = "StepFailed" =>
                 (Admits(st, ev) <=> at({"Started"}) /\ ev.seq # MaxSeq /\ ev.attempt = st.attempt)
            /\ ev.kind = "TimerFired" =>
                 (Admits(st, ev) <=> at({"Timer"}) /\ ev.seq # MaxSeq)
<1> DEFINE st == StateAfter(p)
<1>1. /\ PredecessorPhases("ExecutionStarted") = {}
      /\ PredecessorPhases("StepStarted") = {"Scheduled", "Started"}
      /\ \A k \in {"StepCompleted", "StepFailed"} : PredecessorPhases(k) = {"Started"}
      /\ PredecessorPhases("TimerFired") = {"Timer"}
      /\ \A k \in CommandRecordKinds \cup TerminalKinds : PredecessorPhases(k) = {"Ready"}
  BY KindSets DEF PredecessorPhases
<1>2. /\ ev.attempt \in Nat /\ ev.attempt <= MaxAttempt /\ MaxAttempt \in Nat
      /\ st.attempt \in Nat
  BY EventFields, StateTells, AttemptAssumption
<1> HIDE DEF st
<1> USE <1>1, <1>2, KindSets
    DEF Admits, AdvanceError, Unexpected, NoNextAttempt, Misplaced, Misnumbered, NoNextSeq
<1>3. ev.kind = "ExecutionStarted" => ~ Admits(st, ev)
  OBVIOUS
<1>4. ev.kind \in TerminalKinds => (Admits(st, ev) <=> st.phase = "Ready")
  OBVIOUS
<1>5. ev.kind \in CommandRecordKinds =>
        (Admits(st, ev) <=> st.phase = "Ready" /\ ev.seq = st.seq /\ ev.seq # MaxSeq)
  OBVIOUS
<1>6. ev.kind = "StepStarted" =>
        (Admits(st, ev) <=> /\ st.phase \in {"Scheduled", "Started"} /\ ev.seq = st.seq
                            /\ ev.attempt = st.attempt + 1)
  OBVIOUS
<1>7. ev.kind = "StepCompleted" =>
        (Admits(st, ev) <=> st.phase = "Started" /\ ev.seq = st.seq /\ ev.seq # MaxSeq)
  OBVIOUS
<1>8. ev.kind = "StepFailed" =>
        (Admits(st, ev) <=> /\ st.phase = "Started" /\ ev.seq = st.seq /\ ev.seq # MaxSeq
                            /\ ev.attempt = st.attempt)
  OBVIOUS
<1>9. ev.kind = "TimerFired" =>
        (Admits(st, ev) <=> st.phase = "Timer" /\ ev.seq = st.seq /\ ev.seq # MaxSeq)
  OBVIOUS
<1> QED BY <1>3, <1>4, <1>5, <1>6, <1>7, <1>8, <1>9 DEF st

\* Counting up to one more.
LEMMA CountUpTo ==
  ASSUME NEW n \in Nat, NEW A
  PROVE  /\ Cardinality(A \cap (1 .. n)) \in Nat
         /\ Cardinality(A \cap (1 .. n + 1)) =
              Cardinality(A \cap (1 .. n)) + IF n + 1 \in A THEN 1 ELSE 0
<1>1. IsFiniteSet(1 .. n)
  BY FS_Interval
<1>2. IsFiniteSet(A \cap (1 .. n)) /\ Cardinality(A \cap (1 .. n)) \in Nat
  BY <1>1, FS_Intersection, FS_CardinalityType
<1>3. CASE n + 1 \in A
  <2>1. A \cap (1 .. n + 1) = (A \cap (1 .. n)) \cup {n + 1}
    BY <1>3
  <2>2. n + 1 \notin A \cap (1 .. n)
    OBVIOUS
  <2>3. Cardinality((A \cap (1 .. n)) \cup {n + 1}) = Cardinality(A \cap (1 .. n)) + 1
    BY <1>2, <2>2, FS_AddElement
  <2> QED BY <1>2, <1>3, <2>1, <2>3
<1>4. CASE n + 1 \notin A
  <2>1. A \cap (1 .. n + 1) = A \cap (1 .. n)
    BY <1>4
  <2> QED BY <1>2, <1>4, <2>1
<1> QED BY <1>3, <1>4

\* The attempts of position q before the i-th event.
Tries(j, i, q) == {k \in Before(j, i, {"StepStarted"}) : j[k].seq = q}

LEMMA CountsGrow ==
  ASSUME NEW j \in Seq(Events), NEW i \in 1 .. Len(j), NEW kinds, NEW q
  PROVE  /\ Cardinality(Before(j, i, kinds)) \in Nat
         /\ Cardinality(Before(j, i + 1, kinds)) =
              Cardinality(Before(j, i, kinds)) + IF j[i].kind \in kinds THEN 1 ELSE 0
         /\ Cardinality(Tries(j, i, q)) \in Nat
         /\ Cardinality(Tries(j, i + 1, q)) =
              Cardinality(Tries(j, i, q))
                + IF j[i].kind = "StepStarted" /\ j[i].seq = q THEN 1 ELSE 0
<1> DEFINE n == i - 1
           A == {k \in 1 .. i : j[k].kind \in kinds}
           B == {k \in 1 .. i : j[k].kind = "StepStarted" /\ j[k].seq = q}
<1>1. n \in Nat /\ n + 1 = i /\ (i + 1) - 1 = i /\ \A k \in 1 .. n : k \in 1 .. i
  OBVIOUS
<1>2. Before(j, i, kinds) = A \cap (1 .. n) /\ Before(j, i + 1, kinds) = A \cap (1 .. n + 1)
  BY <1>1 DEF Before
<1>3. Tries(j, i, q) = B \cap (1 .. n) /\ Tries(j, i + 1, q) = B \cap (1 .. n + 1)
  BY <1>1 DEF Before, Tries
<1>4. n + 1 \in A <=> j[i].kind \in kinds
  OBVIOUS
<1>5. n + 1 \in B <=> j[i].kind = "StepStarted" /\ j[i].seq = q
  OBVIOUS
<1> HIDE DEF A, B, n
<1>6. /\ Cardinality(A \cap (1 .. n)) \in Nat
      /\ Cardinality(A \cap (1 .. n + 1)) =
           Cardinality(A \cap (1 .. n)) + IF n + 1 \in A THEN 1 ELSE 0
  BY <1>1, CountUpTo
<1>7. /\ Cardinality(B \cap (1 .. n)) \in Nat
      /\ Cardinality(B \cap (1 .. n + 1)) =
           Cardinality(B \cap (1 .. n)) + IF n + 1 \in B THEN 1 ELSE 0
  BY <1>1, CountUpTo
<1> QED BY <1>2, <1>3, <1>4, <1>5, <1>6, <1>7

-----------------------------------------------------------------------------
(* Event by event, the grammar asks what HistoryState::advance asks.       *)

\* What WellFormed asks of the i-th event, i > 1, given what is before it.
WellPlaced(j, i) ==
  LET opened == Cardinality(Before(j, i, CommandRecordKinds))
      settled == Cardinality(Before(j, i, SettlingKinds))
      attempts == Cardinality(AttemptsBefore(j, i))
      ev == j[i]
  IN /\ ev.kind # "ExecutionStarted" /\ j[i - 1].kind \notin TerminalKinds
     /\ ~ (ev.kind \in PositionedKinds /\ ev.seq = MaxSeq)
     /\ ev.kind \in CommandRecordKinds => ev.seq = opened
     /\ ev.kind \in PositionedKinds \ CommandRecordKinds => opened > 0 /\ ev.seq = opened - 1
     /\ settled <= opened
     /\ ev.kind \in CommandRecordKinds \cup TerminalKinds => settled = opened
     /\ ev.kind \in {"StepStarted", "StepCompleted", "StepFailed", "TimerFired"} => settled < opened
     /\ ev.kind = "StepStarted" => ev.attempt = attempts + 1
     /\ ev.kind = "StepCompleted" => attempts > 0
     /\ ev.kind = "StepFailed" => attempts > 0 /\ ev.attempt = attempts
     /\ \A k \in 1 .. i - 1 :
          j[k].kind \in CommandRecordKinds /\ j[k].seq = ev.seq
            => /\ ev.kind \in {"StepStarted", "StepCompleted", "StepFailed"}
                    => j[k].kind = "StepScheduled"
               /\ ev.kind = "TimerFired" => j[k].kind = "TimerScheduled"

Open == {"Scheduled", "Started", "Timer"}

\* The record that opened the command a state is in.
OpenedAs(phase) == IF phase = "Timer" THEN "TimerScheduled" ELSE "StepScheduled"

\* The events before the i-th, counted, tell the state they leave.
Counts(j, i, st) ==
  LET opened == Cardinality(Before(j, i, CommandRecordKinds))
      settled == Cardinality(Before(j, i, SettlingKinds))
  IN /\ st.phase \notin Open => settled = opened
     /\ st.phase = "Ready" => st.seq = opened
     /\ st.phase \in Open =>
          /\ opened = settled + 1 /\ st.seq = settled /\ st.seq # MaxSeq
          /\ \E k \in 1 .. i - 1 : j[k].kind = OpenedAs(st.phase) /\ j[k].seq = st.seq
          /\ \A k \in 1 .. i - 1 :
               j[k].kind \in CommandRecordKinds /\ j[k].seq = st.seq => j[k].kind = OpenedAs(st.phase)
     /\ st.phase \in {"Scheduled", "Started"} => Cardinality(Tries(j, i, st.seq)) = st.attempt
     /\ \A k \in 1 .. i - 1 :
          j[k].kind \in CommandRecordKinds \cup {"StepStarted"} => j[k].seq < opened

LEMMA WellPlacedIsAdmitted ==
  ASSUME NEW j \in Seq(Events), NEW i \in 2 .. Len(j), Counts(j, i, StateAfter(j[i - 1]))
  PROVE  WellPlaced(j, i) <=> Admits(StateAfter(j[i - 1]), j[i])
<1> DEFINE ev == j[i]
           p == j[i - 1]
           st == StateAfter(p)
           o == Cardinality(Before(j, i, CommandRecordKinds))
           s == Cardinality(Before(j, i, SettlingKinds))
           a == Cardinality(AttemptsBefore(j, i))
           paired == \A k \in 1 .. i - 1 :
                       j[k].kind \in CommandRecordKinds /\ j[k].seq = ev.seq
                         => /\ ev.kind \in {"StepStarted", "StepCompleted", "StepFailed"}
                                 => j[k].kind = "StepScheduled"
                            /\ ev.kind = "TimerFired" => j[k].kind = "TimerScheduled"
<1>1. i \in 1 .. Len(j) /\ i - 1 \in 1 .. Len(j) /\ ev \in Events /\ p \in Events
  OBVIOUS
<1>2. o \in Nat /\ s \in Nat /\ a \in Nat
  <2>1. AttemptsBefore(j, i) = Tries(j, i, ev.seq)
    BY DEF AttemptsBefore, Tries
  <2> QED BY <1>1, <2>1, CountsGrow
<1>3. WellPlaced(j, i) <=>
        /\ ev.kind # "ExecutionStarted" /\ p.kind \notin TerminalKinds
        /\ ~ (ev.kind \in PositionedKinds /\ ev.seq = MaxSeq)
        /\ ev.kind \in CommandRecordKinds => ev.seq = o
        /\ ev.kind \in PositionedKinds \ CommandRecordKinds => o > 0 /\ ev.seq = o - 1
        /\ s <= o
        /\ ev.kind \in CommandRecordKinds \cup TerminalKinds => s = o
        /\ ev.kind \in {"StepStarted", "StepCompleted", "StepFailed", "TimerFired"} => s < o
        /\ ev.kind = "StepStarted" => ev.attempt = a + 1
        /\ ev.kind = "StepCompleted" => a > 0
        /\ ev.kind = "StepFailed" => a > 0 /\ ev.attempt = a
        /\ paired
  BY DEF WellPlaced
<1>4. /\ st.phase \notin Open => s = o
      /\ st.phase = "Ready" => st.seq = o
      /\ st.phase \in Open => o = s + 1 /\ st.seq = s /\ st.seq # MaxSeq
  BY DEF Counts
<1>5. st.phase \in {"Scheduled", "Started"} /\ ev.seq = st.seq => a = st.attempt
  BY DEF Counts, Tries, AttemptsBefore
<1>6. st.phase \in Open /\ ev.seq = st.seq =>
        /\ ev.kind \in {"StepStarted", "StepCompleted", "StepFailed"}
             => (paired <=> st.phase \in {"Scheduled", "Started"})
        /\ ev.kind = "TimerFired" => (paired <=> st.phase = "Timer")
  <2> SUFFICES ASSUME st.phase \in Open, ev.seq = st.seq
               PROVE  /\ ev.kind \in {"StepStarted", "StepCompleted", "StepFailed"}
                           => (paired <=> st.phase \in {"Scheduled", "Started"})
                      /\ ev.kind = "TimerFired" => (paired <=> st.phase = "Timer")
    OBVIOUS
  <2>1. PICK k \in 1 .. i - 1 : j[k].kind = OpenedAs(st.phase) /\ j[k].seq = st.seq
    BY DEF Counts
  <2>2. j[k].kind \in CommandRecordKinds
    BY <2>1, KindSets DEF OpenedAs
  <2>3. \A m \in 1 .. i - 1 :
          j[m].kind \in CommandRecordKinds /\ j[m].seq = st.seq => j[m].kind = OpenedAs(st.phase)
    BY DEF Counts
  <2> HIDE DEF st, ev
  <2>4. OpenedAs(st.phase) = "StepScheduled" <=> st.phase # "Timer"
    BY DEF OpenedAs
  <2>5. OpenedAs(st.phase) = "TimerScheduled" <=> st.phase = "Timer"
    BY DEF OpenedAs
  <2>6. st.phase # "Timer" <=> st.phase \in {"Scheduled", "Started"}
    BY DEF Open
  <2> QED BY <2>1, <2>2, <2>3, <2>4, <2>5, <2>6
<1>7. ev.kind \notin {"StepStarted", "StepCompleted", "StepFailed", "TimerFired"} => paired
  OBVIOUS
<1>8. /\ st.phase \in {"Ready", "Completed", "Failed"} \cup Open
      /\ st.phase \in {"Completed", "Failed"} <=> p.kind \in TerminalKinds
      /\ st.phase = "Scheduled" => st.attempt = 0
      /\ st.phase = "Started" => st.attempt > 0
  BY <1>1, StateTells DEF Open
<1>9. /\ ev.kind \in PositionedKinds \cup TerminalKinds \cup {"ExecutionStarted"}
      /\ ev.seq \in Nat /\ st.seq \in Nat /\ st.attempt \in Nat
  BY <1>1, EventFields, StateTells
<1>10. /\ ev.kind = "ExecutionStarted" => ~ Admits(st, ev)
       /\ ev.kind \in TerminalKinds => (Admits(st, ev) <=> st.phase = "Ready")
       /\ ev.kind \in CommandRecordKinds =>
            (Admits(st, ev) <=> st.phase = "Ready" /\ ev.seq = st.seq /\ ev.seq # MaxSeq)
       /\ ev.kind = "StepStarted" =>
            (Admits(st, ev) <=> /\ st.phase \in {"Scheduled", "Started"} /\ ev.seq = st.seq
                                /\ ev.attempt = st.attempt + 1)
       /\ ev.kind = "StepCompleted" =>
            (Admits(st, ev) <=> st.phase = "Started" /\ ev.seq = st.seq /\ ev.seq # MaxSeq)
       /\ ev.kind = "StepFailed" =>
            (Admits(st, ev) <=> /\ st.phase = "Started" /\ ev.seq = st.seq /\ ev.seq # MaxSeq
                                /\ ev.attempt = st.attempt)
       /\ ev.kind = "TimerFired" =>
            (Admits(st, ev) <=> st.phase = "Timer" /\ ev.seq = st.seq /\ ev.seq # MaxSeq)
  BY <1>1, Admitted
<1> SUFFICES WellPlaced(j, i) <=> Admits(st, ev)
  OBVIOUS
<1> HIDE DEF ev, p, st, o, s, a, paired
<1> USE <1>2, <1>3, <1>4, <1>7, <1>8, <1>9, <1>10, KindSets DEF Open
<1>11. CASE ev.kind = "ExecutionStarted" \/ ev.kind \in TerminalKinds
  BY <1>11
<1>12. CASE ev.kind \in CommandRecordKinds
  BY <1>12
<1>13. CASE ev.kind = "StepStarted"
  BY <1>5, <1>6, <1>13
<1>14. CASE ev.kind = "StepCompleted"
  BY <1>5, <1>6, <1>14
<1>15. CASE ev.kind = "StepFailed"
  BY <1>5, <1>6, <1>15
<1>16. CASE ev.kind = "TimerFired"
  BY <1>6, <1>16
<1> QED BY <1>11, <1>12, <1>13, <1>14, <1>15, <1>16

\* An admitted event leaves the counts telling its state.
LEMMA CountsFollow ==
  ASSUME NEW j \in Seq(Events), NEW i \in 2 .. Len(j), Counts(j, i, StateAfter(j[i - 1])),
         Admits(StateAfter(j[i - 1]), j[i])
  PROVE  Counts(j, i + 1, StateAfter(j[i]))
<1> DEFINE ev == j[i]
           st == StateAfter(j[i - 1])
           o == Cardinality(Before(j, i, CommandRecordKinds))
           s == Cardinality(Before(j, i, SettlingKinds))
           oo == Cardinality(Before(j, i + 1, CommandRecordKinds))
           ss == Cardinality(Before(j, i + 1, SettlingKinds))
           a == Cardinality(Tries(j, i, ev.seq))
           aa == Cardinality(Tries(j, i + 1, ev.seq))
           earlier == 1 .. i - 1
<1>1. i \in 1 .. Len(j) /\ i - 1 \in 1 .. Len(j) /\ ev \in Events /\ j[i - 1] \in Events
  OBVIOUS
<1>2. /\ o \in Nat /\ s \in Nat /\ a \in Nat
      /\ oo = o + IF ev.kind \in CommandRecordKinds THEN 1 ELSE 0
      /\ ss = s + IF ev.kind \in SettlingKinds THEN 1 ELSE 0
      /\ aa = a + IF ev.kind = "StepStarted" THEN 1 ELSE 0
  <2>1. o \in Nat /\ oo = o + IF ev.kind \in CommandRecordKinds THEN 1 ELSE 0
    BY <1>1, CountsGrow, ZenonT(30)
  <2>2. s \in Nat /\ ss = s + IF ev.kind \in SettlingKinds THEN 1 ELSE 0
    BY <1>1, CountsGrow, ZenonT(30)
  <2>3. a \in Nat /\ aa = a + IF ev.kind = "StepStarted" /\ ev.seq = ev.seq THEN 1 ELSE 0
    BY <1>1, CountsGrow, Zenon
  <2> QED BY <2>1, <2>2, <2>3
<1>3. /\ st.phase \notin Open => s = o
      /\ st.phase = "Ready" => st.seq = o
      /\ st.phase \in Open => o = s + 1 /\ st.seq = s /\ st.seq # MaxSeq
      /\ st.phase \in Open => \E k \in earlier : j[k].kind = OpenedAs(st.phase) /\ j[k].seq = st.seq
      /\ st.phase \in Open => \A k \in earlier :
           j[k].kind \in CommandRecordKinds /\ j[k].seq = st.seq => j[k].kind = OpenedAs(st.phase)
      /\ \A k \in earlier : j[k].kind \in CommandRecordKinds \cup {"StepStarted"} => j[k].seq < o
  BY DEF Counts
<1>4. st.phase \in {"Scheduled", "Started"} /\ ev.seq = st.seq => a = st.attempt
  BY DEF Counts
<1>5. 1 .. (i + 1) - 1 = earlier \cup {i} /\ i \notin earlier
  OBVIOUS
<1>6. /\ st.phase \in {"Ready", "Completed", "Failed"} \cup Open
      /\ ev.seq \in Nat /\ st.seq \in Nat /\ st.attempt \in Nat
      /\ ev.kind \in PositionedKinds \cup TerminalKinds \cup {"ExecutionStarted"}
      /\ \A k \in earlier : j[k].seq \in Nat
  <2>1. \A k \in earlier : j[k] \in Events
    OBVIOUS
  <2> QED BY <1>1, <2>1, StateTells, EventFields DEF Open
<1>7. /\ ev.kind \in TerminalKinds <=> StateAfter(ev).phase \in {"Completed", "Failed"}
      /\ ev.kind = "StepScheduled" => StateAfter(ev) = HistoryState("Scheduled", ev.seq, 0)
      /\ ev.kind = "StepStarted" => StateAfter(ev) = HistoryState("Started", ev.seq, ev.attempt)
      /\ ev.kind = "TimerScheduled" => StateAfter(ev) = HistoryState("Timer", ev.seq, 0)
      /\ ev.kind \in SettlingKinds => StateAfter(ev) = Ready(ev.seq + 1)
  BY <1>1, StateTells
<1>8. /\ ev.kind = "ExecutionStarted" => ~ Admits(st, ev)
      /\ ev.kind \in TerminalKinds => (Admits(st, ev) <=> st.phase = "Ready")
      /\ ev.kind \in CommandRecordKinds =>
           (Admits(st, ev) <=> st.phase = "Ready" /\ ev.seq = st.seq /\ ev.seq # MaxSeq)
      /\ ev.kind = "StepStarted" =>
           (Admits(st, ev) <=> /\ st.phase \in {"Scheduled", "Started"} /\ ev.seq = st.seq
                               /\ ev.attempt = st.attempt + 1)
      /\ ev.kind = "StepCompleted" =>
           (Admits(st, ev) <=> st.phase = "Started" /\ ev.seq = st.seq /\ ev.seq # MaxSeq)
      /\ ev.kind = "StepFailed" =>
           (Admits(st, ev) <=> /\ st.phase = "Started" /\ ev.seq = st.seq /\ ev.seq # MaxSeq
                               /\ ev.attempt = st.attempt)
      /\ ev.kind = "TimerFired" =>
           (Admits(st, ev) <=> st.phase = "Timer" /\ ev.seq = st.seq /\ ev.seq # MaxSeq)
  BY <1>1, Admitted
<1>9. Admits(st, ev)
  OBVIOUS
\* No attempt at a position no command had.
<1>10. ev.seq = o => a = 0
  <2>1. ASSUME ev.seq = o, NEW k \in Tries(j, i, ev.seq) PROVE FALSE
    <3>1. k \in earlier /\ j[k].kind = "StepStarted" /\ j[k].seq = o
      BY <2>1 DEF Tries, Before
    <3>2. j[k].seq < o
      BY <1>3, <3>1
    <3> HIDE DEF o, earlier
    <3> QED BY <1>2, <3>1, <3>2
  <2>2. ev.seq = o => Tries(j, i, ev.seq) = {}
    BY <2>1
  <2> QED BY <2>2, FS_EmptySet
<1>11. Counts(j, i + 1, StateAfter(ev)) <=>
         LET st2 == StateAfter(ev)
         IN /\ st2.phase \notin Open => ss = oo
            /\ st2.phase = "Ready" => st2.seq = oo
            /\ st2.phase \in Open =>
                 /\ oo = ss + 1 /\ st2.seq = ss /\ st2.seq # MaxSeq
                 /\ \E k \in earlier \cup {i} : j[k].kind = OpenedAs(st2.phase) /\ j[k].seq = st2.seq
                 /\ \A k \in earlier \cup {i} :
                      j[k].kind \in CommandRecordKinds /\ j[k].seq = st2.seq
                        => j[k].kind = OpenedAs(st2.phase)
            /\ st2.phase \in {"Scheduled", "Started"} =>
                 Cardinality(Tries(j, i + 1, st2.seq)) = st2.attempt
            /\ \A k \in earlier \cup {i} :
                 j[k].kind \in CommandRecordKinds \cup {"StepStarted"} => j[k].seq < oo
  <2> HIDE DEF earlier
  <2> QED BY <1>5 DEF Counts
<1>12. StateAfter(ev).seq = ev.seq => Cardinality(Tries(j, i + 1, StateAfter(ev).seq)) = aa
  OBVIOUS
<1>13. ev = j[i]
  OBVIOUS
<1> SUFFICES Counts(j, i + 1, StateAfter(ev))
  OBVIOUS
<1> HIDE DEF ev, st, o, s, oo, ss, a, aa, earlier
<1> USE KindSets DEF Open, HistoryState, Ready
<1>14. CASE ev.kind \in TerminalKinds
  <2>1. st.phase = "Ready" /\ oo = o /\ ss = s /\ o = s
    BY <1>2, <1>3, <1>8, <1>9, <1>14
  <2>2. StateAfter(ev).phase \in {"Completed", "Failed"}
    BY <1>7, <1>14
  <2> QED BY <1>2, <1>3, <1>11, <1>13, <1>14, <2>1, <2>2
<1>15. CASE ev.kind \in {"NowRecorded", "RandomRecorded"}
  <2>1. st.phase = "Ready" /\ oo = o + 1 /\ ss = s + 1 /\ o = s /\ ev.seq = o
    BY <1>2, <1>3, <1>8, <1>9, <1>15
  <2>2. StateAfter(ev).phase = "Ready" /\ StateAfter(ev).seq = o + 1
    BY <1>7, <1>15, <2>1
  <2>3. \A k \in earlier \cup {i} :
          j[k].kind \in CommandRecordKinds \cup {"StepStarted"} => j[k].seq < oo
    BY <1>2, <1>3, <1>6, <1>13, <2>1
  <2> QED BY <1>2, <1>11, <2>1, <2>2, <2>3
<1>16. CASE ev.kind \in {"StepScheduled", "TimerScheduled"}
  <2>1. st.phase = "Ready" /\ oo = o + 1 /\ ss = s /\ o = s /\ ev.seq = o /\ ev.seq # MaxSeq
    BY <1>2, <1>3, <1>8, <1>9, <1>16
  <2>2. /\ StateAfter(ev).phase \in {"Scheduled", "Timer"} /\ StateAfter(ev).seq = ev.seq
        /\ StateAfter(ev).attempt = 0
        /\ ev.kind = OpenedAs(StateAfter(ev).phase)
    BY <1>7, <1>16 DEF OpenedAs
  <2>3. \A k \in earlier \cup {i} :
          j[k].kind \in CommandRecordKinds \cup {"StepStarted"} => j[k].seq < oo
    BY <1>2, <1>3, <1>6, <1>13, <2>1
  <2>4. aa = 0
    BY <1>2, <1>10, <1>16, <2>1
  <2>5. \A k \in earlier \cup {i} :
          j[k].kind \in CommandRecordKinds /\ j[k].seq = ev.seq => k = i
    BY <1>2, <1>3, <1>6, <2>1
  <2> QED BY <1>2, <1>11, <1>12, <1>13, <2>1, <2>2, <2>3, <2>4, <2>5
<1>17. CASE ev.kind = "StepStarted"
  <2>1. /\ st.phase \in {"Scheduled", "Started"} /\ oo = o /\ ss = s /\ o = s + 1
        /\ ev.seq = s /\ st.seq = s /\ ev.seq # MaxSeq /\ ev.attempt = st.attempt + 1
    BY <1>2, <1>3, <1>8, <1>9, <1>17
  <2>2. /\ StateAfter(ev).phase = "Started" /\ StateAfter(ev).seq = ev.seq
        /\ StateAfter(ev).attempt = ev.attempt
    BY <1>7, <1>17
  <2>3. aa = ev.attempt
    BY <1>2, <1>4, <1>17, <2>1
  <2>4. \A k \in earlier \cup {i} :
          j[k].kind \in CommandRecordKinds \cup {"StepStarted"} => j[k].seq < oo
    BY <1>2, <1>3, <1>6, <1>13, <2>1
  <2>5. OpenedAs(st.phase) = OpenedAs("Started")
    BY <2>1 DEF OpenedAs
  <2>6. /\ \E k \in earlier \cup {i} : j[k].kind = OpenedAs("Started") /\ j[k].seq = ev.seq
        /\ \A k \in earlier \cup {i} :
             j[k].kind \in CommandRecordKinds /\ j[k].seq = ev.seq => j[k].kind = OpenedAs("Started")
    BY <1>3, <1>13, <1>17, <2>1, <2>5
  <2> QED BY <1>2, <1>11, <1>12, <2>1, <2>2, <2>3, <2>4, <2>6
<1>18. CASE ev.kind \in {"StepCompleted", "StepFailed", "TimerFired"}
  <2>1. st.phase \in Open /\ oo = o /\ ss = s + 1 /\ o = s + 1 /\ ev.seq = s
    BY <1>2, <1>3, <1>8, <1>9, <1>18
  <2>2. StateAfter(ev).phase = "Ready" /\ StateAfter(ev).seq = s + 1
    BY <1>7, <1>18, <2>1
  <2>3. \A k \in earlier \cup {i} :
          j[k].kind \in CommandRecordKinds \cup {"StepStarted"} => j[k].seq < oo
    BY <1>2, <1>3, <1>6, <1>13, <1>18, <2>1
  <2> QED BY <1>2, <1>11, <2>1, <2>2, <2>3
<1> QED BY <1>6, <1>8, <1>9, <1>14, <1>15, <1>16, <1>17, <1>18

\* The start record opens nothing.
LEMMA CountsStart ==
  ASSUME NEW j \in Seq(Events), j # <<>>, j[1].kind = "ExecutionStarted"
  PROVE  Counts(j, 2, StateAfter(j[1]))
<1>1. /\ j[1] \in Events /\ StateAfter(j[1]) = Ready(0) /\ 2 - 1 = 1
  BY StartsReady
<1>2. \A k \in 1 .. 1 : j[k].kind \notin CommandRecordKinds \cup SettlingKinds \cup {"StepStarted"}
  BY KindSets
<1>3. Before(j, 2, CommandRecordKinds) = {} /\ Before(j, 2, SettlingKinds) = {}
  BY <1>1, <1>2 DEF Before
<1>4. Cardinality({}) = 0
  BY FS_EmptySet
<1>5. Ready(0).phase = "Ready" /\ Ready(0).seq = 0
  BY DEF Ready, HistoryState
<1>6. \A k \in 1 .. 2 - 1 : k \in 1 .. 1
  OBVIOUS
<1> HIDE DEF Ready
<1>7. Counts(j, 2, Ready(0))
  BY <1>2, <1>3, <1>4, <1>5, <1>6 DEF Counts, Open
<1> QED BY <1>1, <1>7

\* Up to any event, well placed is admitted, and then the counts are right.
LEMMA PlacedUpTo ==
  ASSUME NEW j \in Seq(Events), j # <<>>, j[1].kind = "ExecutionStarted"
  PROVE  (\A i \in 2 .. Len(j) : WellPlaced(j, i)) <=> Legal(j)
<1> DEFINE Placed(n) == \A i \in 2 .. n : WellPlaced(j, i)
           Admissible(n) == \A i \in 2 .. n : Admits(StateAfter(j[i - 1]), j[i])
           Told(n) == n \in 1 .. Len(j) =>
                        /\ Placed(n) <=> Admissible(n)
                        /\ Admissible(n) => Counts(j, n + 1, StateAfter(j[n]))
           S == {n \in Nat : Told(n)}
<1>1. Len(j) \in Nat \ {0}
  OBVIOUS
<1>2. Told(0)
  OBVIOUS
<1>3. ASSUME NEW n \in Nat, Told(n) PROVE Told(n + 1)
  <2> SUFFICES ASSUME n + 1 \in 1 .. Len(j)
               PROVE  /\ Placed(n + 1) <=> Admissible(n + 1)
                      /\ Admissible(n + 1) => Counts(j, (n + 1) + 1, StateAfter(j[n + 1]))
    OBVIOUS
  <2>1. CASE n = 0
    <3>1. 2 .. n + 1 = {} /\ (n + 1) + 1 = 2 /\ n + 1 = 1
      BY <2>1
    <3> QED BY <3>1, CountsStart
  <2>2. CASE n # 0
    <3>1. n \in 1 .. Len(j) /\ n + 1 \in 2 .. Len(j) /\ (n + 1) - 1 = n
          /\ 2 .. n + 1 = (2 .. n) \cup {n + 1}
      BY <2>2
    <3>2. /\ Placed(n + 1) <=> Placed(n) /\ WellPlaced(j, n + 1)
          /\ Admissible(n + 1) <=>
               Admissible(n) /\ Admits(StateAfter(j[(n + 1) - 1]), j[n + 1])
      <4>1. \A P : P \in {i \in 2 .. n + 1 : WellPlaced(j, i)} <=>
                     P \in (2 .. n) \cup {n + 1} /\ WellPlaced(j, P)
        BY <3>1
      <4> QED BY <3>1
    <3>3. /\ Placed(n) <=> Admissible(n)
          /\ Admissible(n) => Counts(j, n + 1, StateAfter(j[n]))
      BY <1>3, <3>1
    <3> HIDE DEF Placed, Admissible
    <3>4. CASE Admissible(n)
      <4>1. Counts(j, n + 1, StateAfter(j[(n + 1) - 1]))
        BY <3>1, <3>3, <3>4
      <4>2. WellPlaced(j, n + 1) <=> Admits(StateAfter(j[(n + 1) - 1]), j[n + 1])
        BY <3>1, <4>1, WellPlacedIsAdmitted
      <4>3. Admits(StateAfter(j[(n + 1) - 1]), j[n + 1])
              => Counts(j, (n + 1) + 1, StateAfter(j[n + 1]))
        BY <3>1, <4>1, CountsFollow
      <4> QED BY <3>2, <3>3, <3>4, <4>2, <4>3
    <3>5. CASE ~ Admissible(n)
      BY <3>2, <3>3, <3>5
    <3> QED BY <3>4, <3>5
  <2> QED BY <2>1, <2>2
<1>4. Nat \subseteq S
  <2>1. 0 \in S
    BY <1>2
  <2>2. \A n \in Nat : n \in S => n + 1 \in S
    <3> HIDE DEF Told
    <3> QED BY <1>3
  <2> HIDE DEF S
  <2> QED BY <2>1, <2>2, Parser!NatSetInduction
<1>5. Told(Len(j))
  <2>1. Len(j) \in S
    BY <1>1, <1>4
  <2> HIDE DEF Told
  <2> QED BY <2>1
<1>6. Placed(Len(j)) <=> Admissible(Len(j))
  BY <1>1, <1>5
<1> QED BY <1>1, <1>6 DEF Legal

\* The grammar, event by event.
LEMMA WellFormedIsPlaced ==
  ASSUME NEW j \in Seq(Events)
  PROVE  WellFormed(j) <=> /\ j # <<>> /\ j[1].kind = "ExecutionStarted"
                           /\ \A i \in 2 .. Len(j) : WellPlaced(j, i)
<1>1. CASE j = <<>> \/ j[1].kind # "ExecutionStarted"
  <2>1. j # <<>> => 1 \in DOMAIN j
    OBVIOUS
  <2> QED BY <1>1, <2>1 DEF WellFormed, Bracketed
<1>2. CASE j # <<>> /\ j[1].kind = "ExecutionStarted"
  <2> DEFINE n == Len(j)
  <2>1. /\ Len(j) \in Nat \ {0} /\ DOMAIN j = {1} \cup (2 .. Len(j)) /\ 1 \notin 2 .. Len(j)
        /\ DOMAIN j = 1 .. Len(j)
    <3>1. n \in Nat \ {0} /\ DOMAIN j = 1 .. n
      BY <1>2
    <3> HIDE DEF n
    <3>2. 1 .. n = {1} \cup (2 .. n) /\ 1 \notin 2 .. n
      BY <3>1
    <3> QED BY <3>1, <3>2 DEF n
  <2>2. ASSUME WellFormed(j), NEW i \in 2 .. Len(j)
        PROVE  WellPlaced(j, i)
    <3>1. i \in DOMAIN j /\ i # 1 /\ i - 1 \in DOMAIN j /\ i - 1 # Len(j)
      BY <2>1
    <3>2. j[i].kind # "ExecutionStarted" /\ j[i - 1].kind \notin TerminalKinds
      BY <2>2, <3>1 DEF WellFormed, Bracketed
    <3>3. ~ (j[i].kind \in PositionedKinds /\ j[i].seq = MaxSeq)
      BY <2>2, <3>1 DEF WellFormed, Representable
    <3>4. /\ j[i].kind \in CommandRecordKinds
               => j[i].seq = Cardinality(Before(j, i, CommandRecordKinds))
          /\ j[i].kind \in PositionedKinds \ CommandRecordKinds
               => /\ Cardinality(Before(j, i, CommandRecordKinds)) > 0
                  /\ j[i].seq = Cardinality(Before(j, i, CommandRecordKinds)) - 1
      BY <2>2, <3>1 DEF WellFormed, Numbered
    <3>5. LET opened == Before(j, i, CommandRecordKinds)
              settled == Before(j, i, SettlingKinds)
          IN Cardinality(settled) <= Cardinality(opened)
             /\ (j[i].kind \in CommandRecordKinds \cup TerminalKinds
                   => Cardinality(settled) = Cardinality(opened))
             /\ (j[i].kind \in {"StepStarted", "StepCompleted", "StepFailed", "TimerFired"}
                   => Cardinality(settled) < Cardinality(opened))
      BY <2>2, <3>1 DEF WellFormed, Sequential
    <3>6. LET attempts == Cardinality(AttemptsBefore(j, i))
          IN /\ j[i].kind = "StepStarted" => j[i].attempt = attempts + 1
             /\ j[i].kind = "StepCompleted" => attempts > 0
             /\ j[i].kind = "StepFailed" => attempts > 0 /\ j[i].attempt = attempts
      BY <2>2, <3>1 DEF WellFormed, AttemptsCounted
    <3>7. \A k \in 1 .. i - 1 :
            j[k].kind \in CommandRecordKinds /\ j[k].seq = j[i].seq
              => /\ j[i].kind \in {"StepStarted", "StepCompleted", "StepFailed"}
                      => j[k].kind = "StepScheduled"
                 /\ j[i].kind = "TimerFired" => j[k].kind = "TimerScheduled"
      <4>1. \A k \in 1 .. i - 1 : k \in DOMAIN j /\ k < i
        BY <2>1
      <4> QED BY <2>2, <3>1, <4>1 DEF WellFormed, Paired
    <3> QED BY <3>2, <3>3, <3>4, <3>5, <3>6, <3>7 DEF WellPlaced
  <2>3. ASSUME \A i \in 2 .. Len(j) : WellPlaced(j, i)
        PROVE  WellFormed(j)
    <3>1. /\ j[1].kind \notin PositionedKinds \cup TerminalKinds \cup CommandRecordKinds
          /\ 1 .. 1 - 1 = {}
      BY <1>2, KindSets
    <3>2. Bracketed(j)
      <4>1. ASSUME NEW i \in DOMAIN j, j[i].kind \in TerminalKinds PROVE i = Len(j)
        <5>1. i # Len(j) => i + 1 \in 2 .. Len(j) /\ (i + 1) - 1 = i
          BY <2>1
        <5>2. i # Len(j) => j[(i + 1) - 1].kind \notin TerminalKinds
          BY <2>3, <5>1 DEF WellPlaced
        <5> QED BY <4>1, <5>1, <5>2
      <4>2. ASSUME NEW i \in DOMAIN j PROVE j[i].kind = "ExecutionStarted" <=> i = 1
        BY <1>2, <2>1, <2>3 DEF WellPlaced
      <4> QED BY <1>2, <4>1, <4>2 DEF Bracketed
    <3>3. Representable(j)
      BY <2>1, <2>3, <3>1 DEF Representable, WellPlaced
    <3>4. Numbered(j)
      BY <2>1, <2>3, <3>1 DEF Numbered, WellPlaced
    <3>5. Sequential(j)
      <4>1. Before(j, 1, CommandRecordKinds) = {} /\ Before(j, 1, SettlingKinds) = {}
        BY <3>1 DEF Before
      <4>2. /\ Cardinality(Before(j, 1, CommandRecordKinds)) = 0
            /\ Cardinality(Before(j, 1, SettlingKinds)) = 0
        BY <4>1, FS_EmptySet, Zenon
      <4>3. j[1].kind \notin {"StepStarted", "StepCompleted", "StepFailed", "TimerFired"}
        BY <1>2
      <4> DEFINE InTurn(i) ==
                   LET opened == Before(j, i, CommandRecordKinds)
                       settled == Before(j, i, SettlingKinds)
                   IN Cardinality(settled) <= Cardinality(opened)
                      /\ (j[i].kind \in CommandRecordKinds \cup TerminalKinds
                            => Cardinality(settled) = Cardinality(opened))
                      /\ (j[i].kind \in {"StepStarted", "StepCompleted", "StepFailed", "TimerFired"}
                            => Cardinality(settled) < Cardinality(opened))
      <4>4. InTurn(1)
        BY <4>2, <4>3
      <4>5. \A i \in 2 .. Len(j) : InTurn(i)
        BY <2>3 DEF WellPlaced
      <4>6. (\A i \in DOMAIN j : InTurn(i)) <=> Sequential(j)
        BY DEF Sequential
      <4> HIDE DEF InTurn
      <4> QED BY <2>1, <4>4, <4>5, <4>6
    <3>6. AttemptsCounted(j)
      BY <1>2, <2>1, <2>3 DEF AttemptsCounted, WellPlaced
    <3>7. Paired(j)
      <4> SUFFICES ASSUME NEW i \in DOMAIN j, NEW k \in DOMAIN j, k < i,
                          j[k].kind \in CommandRecordKinds, j[k].seq = j[i].seq
                   PROVE  /\ j[i].kind \in {"StepStarted", "StepCompleted", "StepFailed"}
                               => j[k].kind = "StepScheduled"
                          /\ j[i].kind = "TimerFired" => j[k].kind = "TimerScheduled"
        BY DEF Paired
      <4>1. i \in 2 .. Len(j) /\ k \in 1 .. i - 1
        BY <2>1
      <4> QED BY <2>3, <4>1 DEF WellPlaced
    <3> QED BY <3>2, <3>3, <3>4, <3>5, <3>6, <3>7 DEF WellFormed
  <2> QED BY <1>2, <2>2, <2>3
<1> QED BY <1>1, <1>2

\* The grammar of whole journals is the neighbour-wise one.
LEMMA GrammarIsLegal ==
  ASSUME NEW j \in Seq(Events)
  PROVE  WellFormed(j) <=> Legal(j)
<1>1. CASE j # <<>> /\ j[1].kind = "ExecutionStarted"
  BY <1>1, WellFormedIsPlaced, PlacedUpTo
<1>2. CASE ~ (j # <<>> /\ j[1].kind = "ExecutionStarted")
  BY <1>2, WellFormedIsPlaced DEF Legal
<1> QED BY <1>1, <1>2

\* A journal that cannot be resumed ends in the last attempt there is.
LEMMA Unresumable ==
  ASSUME NEW j \in Seq(Events), j # <<>>
  PROVE  ~ Resumable(j) <=> j[Len(j)] \in {StepStarted(q, MaxAttempt) : q \in Seqs}
<1> DEFINE ev == j[Len(j)]
<1>1. ev \in Events
  OBVIOUS
<1>2. ev.kind = "StepStarted" => ev = StepStarted(ev.seq, ev.attempt) /\ ev.seq \in Seqs
  BY <1>1
     DEF Events, Event, ExecutionStarted, StepScheduled, StepStarted, StepCompleted,
         StepFailed, NowRecorded, RandomRecorded, TimerScheduled, TimerFired,
         ExecutionCompleted, ExecutionFailed
<1>3. \A q \in Seqs : /\ StepStarted(q, MaxAttempt).kind = "StepStarted"
                      /\ StepStarted(q, MaxAttempt).attempt = MaxAttempt
  BY DEF StepStarted, Event
<1>4. StateAfter(ev).phase = "Started" <=> ev.kind = "StepStarted"
  BY <1>1 DEF StateAfter, SettlingKinds, Ready, HistoryState, Events, Event, ExecutionStarted,
         StepScheduled, StepStarted, StepCompleted, StepFailed, NowRecorded, RandomRecorded,
         TimerScheduled, TimerFired, ExecutionCompleted, ExecutionFailed
<1>5. ev.kind = "StepStarted" => StateAfter(ev).attempt = ev.attempt
  BY <1>1, StateTells DEF HistoryState
<1>6. ~ Resumable(j) <=> ev.kind = "StepStarted" /\ ev.attempt = MaxAttempt
  BY <1>4, <1>5 DEF Resumable, NoNextAttempt, EndState
<1> HIDE DEF ev
<1>7. ev.kind = "StepStarted" /\ ev.attempt = MaxAttempt <=>
        ev \in {StepStarted(q, MaxAttempt) : q \in Seqs}
  BY <1>2, <1>3
<1> QED BY <1>6, <1>7 DEF ev

LEMMA JournalsAreTyped == Spec => [](journal \in Seq(Events))
<1>1. Init => journal \in Seq(Events)
  BY DEF Init
<1>2. journal \in Seq(Events) /\ [Next]_journal => (journal \in Seq(Events))'
  BY DEF Next, Grow
<1> QED BY <1>1, <1>2, PTL DEF Spec

\* The fold of ValidatedHistory::parse accepts exactly the journals that are
\* well formed as a whole and can be resumed, and the Parses of the engine
\* modules is it: what they prove of Parses they prove of the parser.
THEOREM ParserAcceptsGrammar == Spec => []ParseIsTheGrammar
<1>1. journal \in Seq(Events) => ParseIsTheGrammar
  <2> SUFFICES ASSUME journal \in Seq(Events) PROVE ParseIsTheGrammar
    OBVIOUS
  <2>1. Accepted(journal) <=> Parses(journal)
    BY ParserAgrees
  <2>2. WellFormed(journal) <=> Legal(journal)
    BY GrammarIsLegal
  <2>3. Legal(journal) => journal # <<>>
    BY DEF Legal
  <2>4. journal # <<>> =>
          (~ Resumable(journal) <=>
             journal[Len(journal)] \in {StepStarted(q, MaxAttempt) : q \in Seqs})
    BY Unresumable
  <2> QED BY <2>1, <2>2, <2>3, <2>4 DEF ParseIsTheGrammar, Parses
<1> QED BY <1>1, JournalsAreTyped, PTL

\* An error names the first event that does not fit: the journal is legal up
\* to it and illegal with it, but for an exhausted attempt at the tail
\* (HistoryError, the offset of every variant).
THEOREM ParserLocatesMisfit == Spec => []ErrorLocatesFirstMisfit
<1>1. journal \in Seq(Events) => ErrorLocatesFirstMisfit
  BY ErrorLocates DEF ErrorLocatesFirstMisfit
<1> QED BY <1>1, JournalsAreTyped, PTL

-----------------------------------------------------------------------------
(* The trace predicates.                                                   *)

LEMMA TracesAreTyped ==
  TraceSpec => [](observed \in Seq(Records) /\ reference \in Seq(Records))
<1> DEFINE Typed == observed \in Seq(Records) /\ reference \in Seq(Records)
<1>1. TraceInit => Typed
  BY DEF TraceInit
<1>2. Typed /\ [TraceNext]_<<observed, reference>> => Typed'
  <2> SUFFICES ASSUME Typed, [TraceNext]_<<observed, reference>> PROVE Typed'
    OBVIOUS
  <2>1. ASSUME NEW r \in Records, Observe(r) PROVE Typed'
    BY <2>1 DEF Observe
  <2>2. ASSUME NEW r \in Records, Expect(r) PROVE Typed'
    BY <2>2 DEF Expect
  <2>3. CASE UNCHANGED <<observed, reference>>
    BY <2>3
  <2> QED BY <2>1, <2>2, <2>3 DEF TraceNext
<1> QED BY <1>1, <1>2, PTL DEF TraceSpec

-----------------------------------------------------------------------------
(* One repeated neighbour.                                                 *)

\* Repeating a record moves what stands after it one place on.
LEMMA RepeatedAt ==
  ASSUME NEW T, NEW U \in Seq(T), NEW i \in 1 .. Len(U)
  PROVE  LET V == Repeated(U, i)
         IN /\ V \in Seq(T) /\ Len(V) = Len(U) + 1
            /\ \A k \in 1 .. i : V[k] = U[k]
            /\ \A k \in i .. Len(U) : V[k + 1] = U[k]
<1> DEFINE l == Len(U)
           before == SubSeq(U, 1, i - 1)
           after == SubSeq(U, i, l)
           upTo == before \o <<U[i]>>
           V == upTo \o after
<1>1. l \in Nat /\ i \in Nat /\ i >= 1 /\ i <= l /\ U[i] \in T
  OBVIOUS
<1>2. /\ before \in Seq(T) /\ Len(before) = i - 1
      /\ \A k \in 1 .. i - 1 : before[k] = U[k]
  OBVIOUS
<1>3. /\ after \in Seq(T) /\ Len(after) = l + 1 - i
      /\ \A k \in 1 .. l + 1 - i : after[k] = U[i + k - 1]
  OBVIOUS
<1> HIDE DEF before, after, l
<1>4. /\ upTo \in Seq(T) /\ Len(upTo) = i /\ upTo[i] = U[i]
      /\ \A k \in 1 .. i - 1 : upTo[k] = U[k]
  BY <1>1, <1>2
<1> HIDE DEF upTo
<1>5. /\ V \in Seq(T) /\ Len(V) = l + 1
      /\ \A k \in 1 .. i : V[k] = upTo[k]
      /\ \A k \in 1 .. l + 1 - i : V[i + k] = after[k]
  <2>1. /\ V \in Seq(T) /\ Len(V) = Len(upTo) + Len(after)
        /\ \A k \in 1 .. Len(upTo) + Len(after) :
              V[k] = IF k <= Len(upTo) THEN upTo[k] ELSE after[k - Len(upTo)]
    BY <1>3, <1>4, ConcatProperties
  <2> HIDE DEF V
  <2>2. ASSUME NEW k \in 1 .. l + 1 - i PROVE V[i + k] = after[k]
    <3>1. i + k \in 1 .. Len(upTo) + Len(after) /\ ~ (i + k <= Len(upTo))
          /\ (i + k) - Len(upTo) = k
      BY <1>1, <1>3, <1>4
    <3> QED BY <2>1, <3>1
  <2>3. i + (l + 1 - i) = l + 1
    BY <1>1
  <2> QED BY <1>1, <1>3, <1>4, <2>1, <2>2, <2>3
<1>6. \A k \in i .. l : V[k + 1] = U[k]
  <2> TAKE k \in i .. l
  <2>1. k + 1 - i \in 1 .. l + 1 - i /\ i + (k + 1 - i) = k + 1 /\ i + (k + 1 - i) - 1 = k
    BY <1>1
  <2>2. V[i + (k + 1 - i)] = after[k + 1 - i] /\ after[k + 1 - i] = U[i + (k + 1 - i) - 1]
    BY <1>3, <1>5, <2>1
  <2> HIDE DEF V
  <2> QED BY <2>1, <2>2
<1>7. Repeated(U, i) = V
  BY DEF Repeated, InsertAt, V, upTo, before, after, l
<1> HIDE DEF V
<1>8. \A k \in 1 .. i : V[k] = U[k]
  BY <1>1, <1>4, <1>5
<1> QED BY <1>5, <1>6, <1>7, <1>8 DEF l

\* Removing the i-th moves what stands after it one place back.
LEMMA Removed ==
  ASSUME NEW T, NEW U \in Seq(T), NEW i \in 1 .. Len(U)
  PROVE  LET V == RemoveAt(U, i)
         IN /\ V \in Seq(T) /\ Len(V) = Len(U) - 1
            /\ \A k \in 1 .. i - 1 : V[k] = U[k]
            /\ \A k \in i .. Len(U) - 1 : V[k] = U[k + 1]
<1> DEFINE l == Len(U)
           before == SubSeq(U, 1, i - 1)
           after == SubSeq(U, i + 1, l)
           V == before \o after
<1>1. l \in Nat /\ i \in Nat /\ i >= 1 /\ i <= l
  OBVIOUS
<1>2. /\ before \in Seq(T) /\ Len(before) = i - 1
      /\ \A k \in 1 .. i - 1 : before[k] = U[k]
  OBVIOUS
<1>3. /\ after \in Seq(T) /\ Len(after) = l - i
      /\ \A k \in 1 .. l - i : after[k] = U[i + k]
  OBVIOUS
<1> HIDE DEF before, after, l
<1>4. /\ V \in Seq(T) /\ Len(V) = l - 1
      /\ \A k \in 1 .. i - 1 : V[k] = before[k]
      /\ \A k \in 1 .. l - i : V[(i - 1) + k] = after[k]
  <2>1. /\ V \in Seq(T) /\ Len(V) = Len(before) + Len(after)
        /\ \A k \in 1 .. Len(before) + Len(after) :
              V[k] = IF k <= Len(before) THEN before[k] ELSE after[k - Len(before)]
    BY <1>2, <1>3, ConcatProperties
  <2> HIDE DEF V
  <2>2. ASSUME NEW k \in 1 .. l - i PROVE V[(i - 1) + k] = after[k]
    <3>1. (i - 1) + k \in 1 .. Len(before) + Len(after) /\ ~ ((i - 1) + k <= Len(before))
          /\ ((i - 1) + k) - Len(before) = k
      BY <1>1, <1>2, <1>3
    <3> QED BY <2>1, <3>1
  <2>3. (i - 1) + (l - i) = l - 1
    BY <1>1
  <2> QED BY <1>1, <1>2, <1>3, <2>1, <2>2, <2>3
<1>5. \A k \in i .. l - 1 : V[k] = U[k + 1]
  <2> TAKE k \in i .. l - 1
  <2>1. k - i + 1 \in 1 .. l - i /\ (i - 1) + (k - i + 1) = k /\ i + (k - i + 1) = k + 1
    BY <1>1
  <2>2. V[(i - 1) + (k - i + 1)] = after[k - i + 1] /\ after[k - i + 1] = U[i + (k - i + 1)]
    BY <1>3, <1>4, <2>1
  <2> HIDE DEF V
  <2> QED BY <2>1, <2>2
<1>6. RemoveAt(U, i) = V
  BY DEF RemoveAt, V, before, after, l
<1> HIDE DEF V
<1> QED BY <1>2, <1>4, <1>5, <1>6 DEF l

\* The search by insertion finds what the removal undoes.
LEMMA RepeatIsRemovable ==
  ASSUME NEW T, observed \in Seq(T), reference \in Seq(T)
  PROVE  DuplicateIsRemovable
<1> DEFINE n == Len(reference)
<1>1. n \in Nat /\ DOMAIN reference = 1 .. n /\ Len(observed) \in Nat
      /\ \A k \in 1 .. n : reference[k] \in T
  OBVIOUS
<1>2. ASSUME Len(observed) = n + 1, NEW i \in 1 .. n, Repeated(reference, i) = observed
      PROVE  OneExtraNeighbour
  <2>1. i \in 1 .. Len(reference) /\ reference[i] \in T
    BY <1>1
  <2>2. /\ \A k \in 1 .. i : observed[k] = reference[k]
        /\ \A k \in i .. n : observed[k + 1] = reference[k]
    BY <1>2, <2>1, RepeatedAt
  <2>3. i + 1 \in 2 .. Len(observed) /\ (i + 1) - 1 = i /\ i \in i .. n
        /\ i + 1 \in 1 .. Len(observed)
    BY <1>1, <1>2
  <2>4. observed[i + 1] = observed[(i + 1) - 1]
    <3>1. i \in 1 .. i
      BY <1>1
    <3> QED BY <2>2, <2>3, <3>1
  <2> DEFINE V == RemoveAt(observed, i + 1)
  <2>5. /\ V \in Seq(T) /\ Len(V) = Len(observed) - 1
        /\ \A k \in 1 .. (i + 1) - 1 : V[k] = observed[k]
        /\ \A k \in (i + 1) .. Len(observed) - 1 : V[k] = observed[k + 1]
    BY <2>3, Removed
  <2> HIDE DEF V
  <2>6. ASSUME NEW k \in 1 .. n PROVE V[k] = reference[k]
    <3>1. CASE k < i
      BY <1>1, <2>2, <2>5, <3>1
    <3>2. CASE k = i
      BY <1>1, <2>2, <2>5, <3>2
    <3>3. CASE k > i
      <4>1. k \in (i + 1) .. Len(observed) - 1 /\ k \in i .. n
        BY <1>1, <1>2, <3>3
      <4> QED BY <2>2, <2>5, <4>1
    <3> QED BY <1>1, <3>1, <3>2, <3>3
  <2>7. Len(V) = n
    BY <1>1, <1>2, <2>5
  <2>8. V = reference
    BY <1>1, <2>5, <2>6, <2>7, SeqEqual
  <2> QED BY <2>3, <2>4, <2>8 DEF OneExtraNeighbour, V
<1>3. ASSUME NEW i \in 2 .. Len(observed), observed[i] = observed[i - 1],
             RemoveAt(observed, i) = reference
      PROVE  /\ Len(observed) = n + 1 /\ i - 1 \in 1 .. n
             /\ Repeated(reference, i - 1) = observed
  <2>1. /\ n = Len(observed) - 1
        /\ \A k \in 1 .. i - 1 : reference[k] = observed[k]
        /\ \A k \in i .. n : reference[k] = observed[k + 1]
    <3>1. i \in 1 .. Len(observed)
      OBVIOUS
    <3> QED BY <1>3, <3>1, Removed
  <2>2. Len(observed) = n + 1 /\ i - 1 \in 1 .. n
    BY <1>1, <2>1
  <2> DEFINE m == i - 1
             V == Repeated(reference, m)
  <2>3. /\ V \in Seq(T) /\ Len(V) = n + 1
        /\ \A k \in 1 .. m : V[k] = reference[k]
        /\ \A k \in m .. n : V[k + 1] = reference[k]
    <3>1. m \in 1 .. Len(reference)
      BY <2>2
    <3> HIDE DEF m
    <3> QED BY <3>1, RepeatedAt
  <2> HIDE DEF V
  <2>4. ASSUME NEW k \in 1 .. n + 1 PROVE V[k] = observed[k]
    <3>1. CASE k < i
      <4>1. k \in 1 .. i - 1 /\ k \in 1 .. m
        BY <1>1, <3>1
      <4> QED BY <2>1, <2>3, <4>1
    <3>2. CASE k = i
      <4>1. i - 1 \in m .. n /\ (i - 1) + 1 = i /\ i - 1 \in 1 .. i - 1
        BY <1>1, <2>2
      <4>2. V[(i - 1) + 1] = reference[i - 1] /\ reference[i - 1] = observed[i - 1]
        BY <2>1, <2>3, <4>1
      <4> QED BY <1>3, <3>2, <4>1, <4>2
    <3>3. CASE k > i
      <4>1. k - 1 \in m .. n /\ k - 1 \in i .. n /\ (k - 1) + 1 = k
        BY <1>1, <3>3
      <4>2. V[(k - 1) + 1] = reference[k - 1] /\ reference[k - 1] = observed[(k - 1) + 1]
        BY <2>1, <2>3, <4>1
      <4> QED BY <4>1, <4>2
    <3> QED BY <1>1, <3>1, <3>2, <3>3
  <2>5. V = observed
    BY <2>2, <2>3, <2>4, SeqEqual
  <2> QED BY <2>2, <2>5 DEF V
<1>4. SingleAdjacentDuplicate(observed, reference) <=>
        \/ observed = reference
        \/ /\ Len(observed) = n + 1
           /\ \E i \in 1 .. n : Repeated(reference, i) = observed
  BY <1>1 DEF SingleAdjacentDuplicate
<1>5. OneExtraNeighbour <=>
        \E i \in 2 .. Len(observed) :
          observed[i] = observed[i - 1] /\ RemoveAt(observed, i) = reference
  BY DEF OneExtraNeighbour
<1> HIDE DEF n
<1> QED BY <1>2, <1>3, <1>4, <1>5 DEF DuplicateIsRemovable

-----------------------------------------------------------------------------
(* First appearances, record by record.                                    *)

\* The members of a set of positions are ranked 1, 2, ... without gap or tie.
LEMMA Ranked ==
  ASSUME NEW n \in Nat, NEW F \in SUBSET (1 .. n)
  PROVE  LET rank(i) == Cardinality({k \in F : k <= i})
         IN /\ Cardinality(F) \in Nat
            /\ \A i \in F : rank(i) \in 1 .. Cardinality(F)
            /\ \A i, k \in F : rank(i) = rank(k) => i = k
            /\ \A m \in 1 .. Cardinality(F) : \E i \in F : rank(i) = m
<1> DEFINE rank(i) == Cardinality({k \in F : k <= i})
           c(i) == Cardinality(F \cap (1 .. i))
           S == {i \in Nat : \A m \in 1 .. c(i) : \E k \in F \cap (1 .. i) : c(k) = m}
<1>0. \A k \in F : k \in 1 .. n /\ k \in Nat /\ k >= 1 /\ k <= n
  OBVIOUS
<1>1. \A i \in Nat : c(i) \in Nat /\ c(i + 1) = c(i) + IF i + 1 \in F THEN 1 ELSE 0
  BY CountUpTo
<1>2. \A i \in Nat : rank(i) = c(i)
  <2> TAKE i \in Nat
  <2>1. \A k \in F : k <= i <=> k \in 1 .. i
    BY <1>0
  <2>2. {k \in F : k <= i} = F \cap (1 .. i)
    BY <2>1, Zenon
  <2> QED BY <2>2
<1>3. c(n) = Cardinality(F) /\ c(0) = 0
  <2>1. F \cap (1 .. n) = F
    BY <1>0, Zenon
  <2>2. F \cap (1 .. 0) = {}
    BY <1>0
  <2> QED BY <2>1, <2>2, FS_EmptySet
<1>4. \A i, k \in Nat : i <= k => c(i) <= c(k)
  <2> SUFFICES ASSUME NEW i \in Nat, NEW k \in Nat, i <= k PROVE c(i) <= c(k)
    OBVIOUS
  <2>1. F \cap (1 .. i) \subseteq F \cap (1 .. k)
    OBVIOUS
  <2>2. IsFiniteSet(F \cap (1 .. k))
    <3>1. IsFiniteSet(1 .. k)
      BY FS_Interval
    <3> QED BY <3>1, FS_Intersection
  <2> QED BY <2>1, <2>2, FS_Subset
<1>5. \A i \in F : i \in Nat /\ i - 1 \in Nat /\ (i - 1) + 1 = i /\ i <= n
  OBVIOUS
<1> HIDE DEF c
<1>6. ASSUME NEW i \in F PROVE c(i) \in 1 .. c(n)
  <2>1. c(i) = c(i - 1) + 1 /\ c(i - 1) \in Nat /\ c(i) <= c(n) /\ c(n) \in Nat
    BY <1>1, <1>4, <1>5
  <2> QED BY <2>1
<1>7. ASSUME NEW i \in F, NEW k \in F, i < k PROVE c(i) < c(k)
  <2>1. c(k) = c(k - 1) + 1 /\ c(k - 1) \in Nat /\ c(i) \in Nat
    BY <1>1, <1>5
  <2>2. i <= k - 1
    BY <1>5, <1>7
  <2>3. c(i) <= c(k - 1)
    BY <1>4, <1>5, <2>2
  <2> QED BY <2>1, <2>3
<1>8. \A i, k \in F : c(i) = c(k) => i = k
  <2> SUFFICES ASSUME NEW i \in F, NEW k \in F, c(i) = c(k) PROVE i = k
    OBVIOUS
  <2>1. ~ (i < k) /\ ~ (k < i)
    BY <1>1, <1>5, <1>7
  <2> QED BY <1>5, <2>1
<1>9. Nat \subseteq S
  <2>1. 0 \in S
    BY <1>3
  <2>2. ASSUME NEW i \in Nat, i \in S PROVE i + 1 \in S
    <3> SUFFICES ASSUME NEW m \in 1 .. c(i + 1)
                 PROVE  \E k \in F \cap (1 .. i + 1) : c(k) = m
      BY <2>2
    <3>1. c(i) \in Nat /\ c(i + 1) = c(i) + IF i + 1 \in F THEN 1 ELSE 0
      BY <1>1
    <3>2. CASE m \in 1 .. c(i)
      <4>1. PICK k \in F \cap (1 .. i) : c(k) = m
        BY <2>2, <3>2
      <4> QED BY <4>1
    <3>3. CASE m \notin 1 .. c(i)
      <4>1. m = c(i + 1) /\ i + 1 \in F
        BY <3>1, <3>3
      <4> QED BY <4>1
    <3> QED BY <3>2, <3>3
  <2> HIDE DEF S
  <2> QED BY <2>1, <2>2, Parser!NatSetInduction
<1>10. \A m \in 1 .. c(n) : \E k \in F : c(k) = m
  <2>1. n \in S
    BY <1>9
  <2> QED BY <2>1
<1>11. \A i \in F : rank(i) = c(i)
  BY <1>2, <1>5
<1>12. c(n) \in Nat
  BY <1>1
<1> HIDE DEF rank
<1>13. /\ Cardinality(F) \in Nat
       /\ \A i \in F : rank(i) \in 1 .. Cardinality(F)
       /\ \A i, k \in F : rank(i) = rank(k) => i = k
       /\ \A m \in 1 .. Cardinality(F) : \E i \in F : rank(i) = m
  BY <1>3, <1>6, <1>8, <1>10, <1>11, <1>12
<1> QED BY <1>13 DEF rank

\* The first appearance ranked m-th.
FirstRanked(t, m) ==
  CHOOSE i \in FirstAt(t) :
    Cardinality({k \in FirstAt(t) : k <= i}) = m

Values(t) == {t[k] : k \in DOMAIN t}

\* One record more is one first appearance more, if it is new.
LEMMA FirstGrows ==
  ASSUME NEW T, NEW t \in Seq(T), NEW x \in T
  PROVE  /\ FirstAppearances(t) \in Seq(T)
         /\ FirstAppearances(Append(t, x)) =
              IF x \in Values(t) THEN FirstAppearances(t)
              ELSE Append(FirstAppearances(t), x)
<1> DEFINE u == Append(t, x)
           n == Len(t)
           F == FirstAt(t)
           G == FirstAt(u)
           rankF(i) == Cardinality({k \in F : k <= i})
           rankG(i) == Cardinality({k \in G : k <= i})
           c == Cardinality(F)
           A == FirstAppearances(t)
           B == FirstAppearances(u)
<1>1. /\ n \in Nat /\ DOMAIN t = 1 .. n /\ DOMAIN u = 1 .. n + 1
      /\ u[n + 1] = x /\ \A i \in 1 .. n : u[i] = t[i] /\ t[i] \in T
  OBVIOUS
<1> HIDE DEF u, n
<1>2. F \subseteq 1 .. n /\ G \subseteq 1 .. n + 1
  BY <1>1 DEF FirstAt
<1>3. \A i \in 1 .. n : i \in G <=> i \in F
  <2> TAKE i \in 1 .. n
  <2>1. \A k \in 1 .. i - 1 : k \in 1 .. n
    BY <1>1
  <2>2. i \in DOMAIN u /\ i \in DOMAIN t
    BY <1>1
  <2> QED BY <1>1, <2>1, <2>2 DEF FirstAt
<1>4. n + 1 \in G <=> x \notin Values(t)
  <2>1. (n + 1) - 1 = n /\ n + 1 \in DOMAIN u
    BY <1>1
  <2>2. n + 1 \in G <=> \A k \in 1 .. n : u[k] # x
    BY <1>1, <2>1 DEF FirstAt
  <2> QED BY <1>1, <2>2 DEF Values
<1>5. /\ c \in Nat
      /\ \A i \in F : rankF(i) \in 1 .. c
      /\ \A m \in 1 .. c : \E i \in F : rankF(i) = m
  <2> DEFINE rank(i) == Cardinality({k \in F : k <= i})
  <2>1. \A i : rankF(i) = rank(i)
    BY Zenon
  <2> HIDE DEF rankF
  <2>2. /\ c \in Nat
        /\ \A i \in F : rank(i) \in 1 .. c
        /\ \A m \in 1 .. c : \E i \in F : rank(i) = m
    BY <1>1, <1>2, Ranked
  <2> HIDE DEF rank
  <2> QED BY <2>1, <2>2
<1>6. \A i, k \in G : rankG(i) = rankG(k) => i = k
  <2> DEFINE rank(i) == Cardinality({k \in G : k <= i})
  <2>1. \A i : rankG(i) = rank(i)
    BY Zenon
  <2> HIDE DEF rankG
  <2>2. \A i, k \in G : rank(i) = rank(k) => i = k
    <3>1. n + 1 \in Nat
      BY <1>1
    <3> QED BY <1>2, <3>1, Ranked
  <2> HIDE DEF rank
  <2> QED BY <2>1, <2>2
<1>7. \A i \in F : rankG(i) = rankF(i)
  <2> TAKE i \in F
  <2>1. {k \in G : k <= i} = {k \in F : k <= i}
    BY <1>1, <1>2, <1>3
  <2> QED BY <2>1
<1>8. A = [m \in 1 .. c |-> t[FirstRanked(t, m)]]
  BY DEF FirstAppearances, FirstRanked
<1>9. B = [m \in 1 .. Cardinality(G) |-> u[FirstRanked(u, m)]]
  BY DEF FirstAppearances, FirstRanked
<1>10. \A m \in 1 .. c : FirstRanked(t, m) \in F /\ rankF(FirstRanked(t, m)) = m
  BY <1>5, Zenon DEF FirstRanked
<1>11. \A m : (\E i \in G : rankG(i) = m) =>
                FirstRanked(u, m) \in G /\ rankG(FirstRanked(u, m)) = m
  BY Zenon DEF FirstRanked
<1>12. F \subseteq G
  BY <1>2, <1>3
<1>13. IsFiniteSet(F)
  <2>1. IsFiniteSet(1 .. n)
    BY <1>1, FS_Interval
  <2> QED BY <1>2, <2>1, FS_Subset, Zenon
<1> HIDE DEF F, G, rankF, rankG, c, A, B
<1>14. \A m \in 1 .. c : FirstRanked(u, m) = FirstRanked(t, m)
  <2> TAKE m \in 1 .. c
  <2>1. FirstRanked(t, m) \in G /\ rankG(FirstRanked(t, m)) = m
    BY <1>7, <1>10, <1>12
  <2>2. FirstRanked(u, m) \in G /\ rankG(FirstRanked(u, m)) = m
    BY <1>11, <2>1
  <2> QED BY <1>6, <2>1, <2>2
<1>15. \A m \in 1 .. c : u[FirstRanked(u, m)] = t[FirstRanked(t, m)] /\ t[FirstRanked(t, m)] \in T
  BY <1>1, <1>2, <1>10, <1>14
<1>16. A \in Seq(T) /\ Len(A) = c
  BY <1>5, <1>8, <1>15
<1>17. CASE x \in Values(t)
  <2>1. G = F
    <3>1. \A i \in 1 .. n + 1 : i \in 1 .. n \/ i = n + 1
      BY <1>1
    <3>2. G \subseteq F
      BY <1>2, <1>3, <1>4, <1>17, <3>1
    <3> QED BY <1>12, <3>2
  <2>2. Cardinality(G) = c
    BY <2>1 DEF c
  <2>3. A = B
    BY <1>8, <1>9, <1>15, <2>2
  <2> QED BY <1>16, <1>17, <2>3 DEF A, B, u
<1>18. CASE x \notin Values(t)
  <2>1. G = F \cup {n + 1} /\ n + 1 \notin F
    <3>1. \A i \in 1 .. n + 1 : i \in 1 .. n \/ i = n + 1
      BY <1>1
    <3>2. n + 1 \notin 1 .. n
      BY <1>1
    <3>3. G \subseteq F \cup {n + 1}
      BY <1>2, <1>3, <3>1
    <3> QED BY <1>2, <1>4, <1>12, <1>18, <3>2, <3>3
  <2>2. Cardinality(G) = c + 1
    BY <1>13, <2>1, FS_AddElement DEF c
  <2>3. rankG(n + 1) = c + 1
    <3>1. \A k \in G : k <= n + 1
      BY <1>1, <1>2
    <3>2. {k \in G : k <= n + 1} = G
      BY <3>1, Zenon
    <3> QED BY <2>2, <3>2 DEF rankG
  <2>4. FirstRanked(u, c + 1) = n + 1
    BY <1>6, <1>11, <2>1, <2>3
  <2>5. B = Append(A, x)
    <3>1. DOMAIN B = 1 .. c + 1 /\ \A m \in 1 .. c + 1 : B[m] = u[FirstRanked(u, m)]
      BY <1>9, <2>2
    <3>2. \A m \in 1 .. c : B[m] = A[m]
      BY <1>5, <1>8, <1>15, <3>1
    <3>3. B[c + 1] = x
      BY <1>1, <1>5, <2>4, <3>1
    <3>4. B = [m \in 1 .. c + 1 |-> B[m]]
      BY <1>9, <2>2
    <3>5. /\ Append(A, x) \in Seq(T) /\ Len(Append(A, x)) = c + 1
          /\ \A m \in 1 .. c : Append(A, x)[m] = A[m]
          /\ Append(A, x)[c + 1] = x
      BY <1>16, AppendProperties
    <3>6. \A m \in 1 .. c + 1 : m \in 1 .. c \/ m = c + 1
      BY <1>5
    <3>7. \A m \in 1 .. c + 1 : B[m] = Append(A, x)[m] /\ B[m] \in T
      <4>1. \A m \in 1 .. c : A[m] \in T
        BY <1>16
      <4> QED BY <3>2, <3>3, <3>5, <3>6, <4>1
    <3>8. B \in Seq(T) /\ Len(B) = c + 1
      BY <1>5, <3>4, <3>7, SMTT(30)
    <3> QED BY <3>5, <3>7, <3>8, SeqEqual
  <2> QED BY <1>16, <1>18, <2>5 DEF A, B, u
<1> QED BY <1>17, <1>18

LEMMA FirstOfNone == FirstAppearances(<<>>) = <<>>
<1>1. FirstAt(<<>>) = {}
  BY DEF FirstAt
<1>2. Cardinality(FirstAt(<<>>)) = 0
  BY <1>1, FS_EmptySet, Zenon
<1> QED BY <1>2 DEF FirstAppearances

-----------------------------------------------------------------------------
(* The scan of ordered retries.                                            *)

\* One turn of the scan.
ScanTurn(next, place) == Advance(next, place)

Scan == INSTANCE FoldLemmas WITH Op <- ScanTurn, Base <- 0

LEMMA ScanFolds == \A s : FoldLeft(Advance, 0, s) = Scan!FoldLeft(ScanTurn, 0, s)
BY DEF FoldLeft, Scan!FoldLeft, MapThenFoldSet, Scan!MapThenFoldSet,
       Max, Scan!Max, ScanTurn

\* A record is found where it stands in a reference of unique operations, and
\* nowhere else.
LEMMA PlaceTells ==
  ASSUME NEW T, NEW r \in Seq(T), UniqueOperations(r), NEW x \in T
  PROVE  LET p == Place(r, x)
         IN /\ p \in 0 .. Len(r)
            /\ p # 0 => r[p] = x
            /\ \A i \in 1 .. Len(r) : r[i] = x => p = i
<1> DEFINE known == {i \in DOMAIN r : r[i].operation = x.operation}
           p == Place(r, x)
<1>1. DOMAIN r = 1 .. Len(r) /\ Len(r) \in Nat
  OBVIOUS
<1>2. \A i, k \in known : i = k
  BY DEF UniqueOperations
<1>3. p = IF x \in {r[i] : i \in known} THEN CHOOSE i \in known : TRUE ELSE 0
  BY DEF Place, Nowhere
<1>4. known \subseteq 1 .. Len(r)
  BY <1>1
<1>5. \A i \in 1 .. Len(r) : r[i] = x => i \in known
  BY <1>1
<1> HIDE DEF known, p
<1>6. CASE x \in {r[i] : i \in known}
  <2>1. PICK k \in known : x = r[k]
    BY <1>6
  <2>2. p = k
    BY <1>2, <1>3, <1>6, <2>1
  <2>3. k \in 1 .. Len(r) /\ r[p] = x /\ p \in 0 .. Len(r)
    BY <1>1, <1>4, <2>1, <2>2
  <2>4. \A i \in 1 .. Len(r) : r[i] = x => p = i
    BY <1>2, <1>5, <2>1, <2>2
  <2> QED BY <2>3, <2>4 DEF p
<1>7. CASE x \notin {r[i] : i \in known}
  <2>1. p = 0
    BY <1>3, <1>7
  <2>2. \A i \in 1 .. Len(r) : r[i] # x
    BY <1>5, <1>7
  <2>3. p \in 0 .. Len(r)
    BY <1>1, <2>1
  <2> QED BY <2>1, <2>2, <2>3 DEF p
<1> QED BY <1>6, <1>7

\* The trace a begins the trace r.
Begins(a, r) == Len(a) <= Len(r) /\ \A k \in 1 .. Len(a) : a[k] = r[k]

ScanOf(t, r) == Scan!FoldLeft(ScanTurn, 0, Places(t, r))

\* What the scan has computed over t: how much of the reference its first
\* appearances are, as long as they begin it.
Scanned(t, r) ==
  LET first == FirstAppearances(t)
  IN /\ Values(first) = Values(t)
     /\ ScanOf(t, r) = IF Begins(first, r) THEN Len(first) ELSE NoMatch

LEMMA ScanOneMore ==
  ASSUME NEW T, NEW r \in Seq(T), UniqueOperations(r),
         NEW t \in Seq(T), NEW x \in T, Scanned(t, r)
  PROVE  Scanned(Append(t, x), r)
<1> DEFINE u == Append(t, x)
           n == Len(t)
           a == FirstAppearances(t)
           b == FirstAppearances(u)
           p == Place(r, x)
           m == Len(a)
           l == Len(r)
<1>1. /\ n \in Nat /\ DOMAIN t = 1 .. n /\ DOMAIN u = 1 .. n + 1
      /\ u[n + 1] = x /\ \A i \in 1 .. n : u[i] = t[i] /\ t[i] \in T
  OBVIOUS
<1>2. a \in Seq(T) /\ b = IF x \in Values(t) THEN a ELSE Append(a, x)
  BY FirstGrows
<1>3. /\ p \in 0 .. l
      /\ p # 0 => r[p] = x
      /\ \A i \in 1 .. l : r[i] = x => p = i
  BY PlaceTells
<1>4. m \in Nat /\ l \in Nat /\ DOMAIN a = 1 .. m
  BY <1>2
<1>5. Values(a) = Values(t)
      /\ ScanOf(t, r) = IF Begins(a, r) THEN m ELSE NoMatch
  BY DEF Scanned
<1>6. ScanOf(u, r) = ScanTurn(ScanOf(t, r), p)
  <2>1. Places(t, r) \in Seq(Nat) /\ p \in Nat
    <3>1. \A i \in 1 .. n : Place(r, t[i]) \in Nat
      <4> TAKE i \in 1 .. n
      <4>1. t[i] \in T
        BY <1>1
      <4>2. Place(r, t[i]) \in 0 .. Len(r)
        BY <4>1, PlaceTells
      <4> QED BY <4>2
    <3>2. Places(t, r) = [k \in 1 .. n |-> Place(r, t[k])]
      BY <1>1 DEF Places
    <3> QED BY <1>1, <1>3, <3>1, <3>2
  <2>2. Places(u, r) = Append(Places(t, r), p)
    <3> DEFINE f == Places(t, r)
               g == Places(u, r)
    <3>1. Len(f) = n /\ DOMAIN f = 1 .. n /\ \A k \in 1 .. n : f[k] = Place(r, t[k])
      BY <1>1, <2>1 DEF Places
    <3>2. g = [k \in 1 .. n + 1 |-> Place(r, u[k])]
      BY <1>1 DEF Places
    <3>3. \A k \in 1 .. n + 1 : k \in 1 .. n \/ k = n + 1
      BY <1>1
    <3> HIDE DEF f, g, u, p
    <3>4. /\ Append(f, p) \in Seq(Nat) /\ Len(Append(f, p)) = n + 1
          /\ \A k \in 1 .. n : Append(f, p)[k] = f[k]
          /\ Append(f, p)[n + 1] = p
      BY <2>1, <3>1, AppendProperties DEF f
    <3>5. \A k \in 1 .. n + 1 : g[k] = Append(f, p)[k] /\ g[k] \in Nat
      <4> TAKE k \in 1 .. n + 1
      <4>1. CASE k \in 1 .. n
        <5>1. f[k] \in Nat
          BY <2>1, <3>1, <4>1 DEF f
        <5> QED BY <1>1, <3>1, <3>2, <3>4, <4>1, <5>1
      <4>2. CASE k = n + 1
        BY <1>1, <2>1, <3>2, <3>4, <4>2 DEF p
      <4> QED BY <3>3, <4>1, <4>2
    <3>6. g \in Seq(Nat) /\ Len(g) = n + 1
      BY <1>1, <3>2, <3>5
    <3>7. g = Append(f, p)
      BY <3>4, <3>5, <3>6, SeqEqual
    <3> QED BY <3>7 DEF f, g
  <2> HIDE DEF u, p
  <2> QED BY <2>1, <2>2, Scan!FoldOfAppend DEF ScanOf
<1>7. Values(u) = Values(t) \cup {x}
  <2>1. 1 .. n + 1 = (1 .. n) \cup {n + 1}
    BY <1>1
  <2> QED BY <1>1, <2>1 DEF Values
<1> SUFFICES Values(b) = Values(u)
             /\ ScanOf(u, r) = IF Begins(b, r) THEN Len(b) ELSE NoMatch
  BY DEF Scanned
<1> HIDE DEF u, a, b, p, m, l, n
<1>8. CASE x \in Values(t)
  <2>1. b = a /\ Values(b) = Values(u)
    BY <1>2, <1>5, <1>7, <1>8
  <2>2. ASSUME Begins(a, r) PROVE ScanTurn(m, p) = m
    <3>1. PICK k \in 1 .. m : a[k] = x
      BY <1>4, <1>5, <1>8 DEF Values
    <3>2. r[k] = x /\ k \in 1 .. l /\ m <= l
      BY <1>4, <2>2, <3>1 DEF Begins, m, l
    <3>3. p = k
      BY <1>3, <3>2
    <3> QED BY <1>4, <3>3 DEF ScanTurn, Advance, NoMatch, Nowhere
  <2>3. ~ Begins(a, r) => ScanTurn(NoMatch, p) = NoMatch
    BY DEF ScanTurn, Advance
  <2> QED BY <1>5, <1>6, <2>1, <2>2, <2>3 DEF m
<1>9. CASE x \notin Values(t)
  <2>1. /\ b = Append(a, x) /\ Len(b) = m + 1 /\ b[m + 1] = x
        /\ \A k \in 1 .. m : b[k] = a[k]
        /\ DOMAIN b = 1 .. m + 1
    BY <1>2, <1>4, <1>9, AppendProperties DEF m
  <2>2. Values(b) = Values(u)
    <3>1. 1 .. m + 1 = (1 .. m) \cup {m + 1}
      BY <1>4
    <3>2. Values(b) = Values(a) \cup {x}
      BY <1>4, <2>1, <3>1 DEF Values
    <3> QED BY <1>5, <1>7, <3>2
  <2>3. Begins(b, r) <=> Begins(a, r) /\ m + 1 <= l /\ r[m + 1] = x
    <3>1. Begins(b, r) <=> m + 1 <= l /\ \A k \in 1 .. m + 1 : b[k] = r[k]
      BY <2>1 DEF Begins, l
    <3>2. Begins(a, r) <=> m <= l /\ \A k \in 1 .. m : a[k] = r[k]
      BY DEF Begins, m, l
    <3>3. \A k \in 1 .. m + 1 : k \in 1 .. m \/ k = m + 1
      BY <1>4
    <3>4. m + 1 \in 1 .. m + 1 /\ (\A k \in 1 .. m : k \in 1 .. m + 1)
      BY <1>4
    <3>5. m + 1 <= l => m <= l
      BY <1>4
    <3>6. (\A k \in 1 .. m + 1 : b[k] = r[k]) => r[m + 1] = x /\ \A k \in 1 .. m : a[k] = r[k]
      BY <2>1, <3>4
    <3>7. (\A k \in 1 .. m : a[k] = r[k]) /\ r[m + 1] = x => \A k \in 1 .. m + 1 : b[k] = r[k]
      BY <2>1, <3>3
    <3> QED BY <3>1, <3>2, <3>5, <3>6, <3>7
  <2>4. CASE Begins(a, r)
    <3>1. m <= l /\ \A k \in 1 .. m : a[k] = r[k]
      BY <2>4 DEF Begins, m, l
    <3>2. p \notin 1 .. m
      <4> SUFFICES ASSUME p \in 1 .. m PROVE FALSE
        OBVIOUS
      <4>1. a[p] = x
        BY <1>3, <1>4, <3>1
      <4>2. x \in Values(a)
        BY <1>4, <4>1 DEF Values
      <4> QED BY <1>5, <1>9, <4>2
    <3>3. m + 1 <= l /\ r[m + 1] = x <=> p = m + 1
      <4>1. ASSUME m + 1 <= l, r[m + 1] = x PROVE p = m + 1
        <5>1. m + 1 \in 1 .. l
          BY <1>4, <4>1
        <5> QED BY <1>3, <4>1, <5>1
      <4>2. ASSUME p = m + 1 PROVE m + 1 <= l /\ r[m + 1] = x
        BY <1>3, <1>4, <4>2
      <4> QED BY <4>1, <4>2
    <3>4. ScanTurn(m, p) = IF p = m + 1 THEN m + 1 ELSE NoMatch
      <4>1. p \in Nat /\ (p = 0 \/ p > m)
        BY <1>3, <1>4, <3>2
      <4> QED BY <1>4, <4>1 DEF ScanTurn, Advance, NoMatch, Nowhere
    <3> QED BY <1>5, <1>6, <2>1, <2>2, <2>3, <2>4, <3>3, <3>4
  <2>5. CASE ~ Begins(a, r)
    <3>1. ScanTurn(NoMatch, p) = NoMatch
      BY DEF ScanTurn, Advance
    <3> QED BY <1>5, <1>6, <2>2, <2>3, <2>5, <3>1
  <2> QED BY <2>4, <2>5
<1> QED BY <1>8, <1>9

LEMMA ScanFollowsFirsts ==
  ASSUME NEW T, NEW r \in Seq(T), UniqueOperations(r)
  PROVE  \A t \in Seq(T) : Scanned(t, r)
<1> DEFINE S == {n \in Nat : \A t \in Seq(T) : Len(t) = n => Scanned(t, r)}
<1>1. 0 \in S
  <2> SUFFICES ASSUME NEW t \in Seq(T), Len(t) = 0 PROVE Scanned(t, r)
    OBVIOUS
  <2>1. t = <<>>
    OBVIOUS
  <2>2. FirstAppearances(t) = <<>>
    BY <2>1, FirstOfNone
  <2>3. ScanOf(t, r) = 0
    <3>1. DOMAIN Places(t, r) = {}
      BY <2>1 DEF Places
    <3> QED BY <3>1, Scan!FoldOfNone DEF ScanOf
  <2>4. Begins(<<>>, r) /\ Len(<<>>) = 0
    BY DEF Begins
  <2> QED BY <2>1, <2>2, <2>3, <2>4 DEF Scanned
<1>2. ASSUME NEW n \in Nat, n \in S PROVE n + 1 \in S
  <2> SUFFICES ASSUME NEW t \in Seq(T), Len(t) = n + 1 PROVE Scanned(t, r)
    OBVIOUS
  <2> DEFINE f == [i \in 1 .. n |-> t[i]]
  <2>1. f \in Seq(T) /\ Len(f) = n /\ t[n + 1] \in T
    OBVIOUS
  <2>2. t = Append(f, t[n + 1])
    OBVIOUS
  <2>3. Scanned(f, r)
    BY <1>2, <2>1
  <2> HIDE DEF f
  <2>4. Scanned(Append(f, t[n + 1]), r)
    BY <2>1, <2>3, ScanOneMore
  <2> QED BY <2>2, <2>4
<1>3. Nat \subseteq S
  <2> HIDE DEF S
  <2> QED BY <1>1, <1>2, Parser!NatSetInduction
<1> QED
  <2> SUFFICES ASSUME NEW t \in Seq(T) PROVE Scanned(t, r)
    OBVIOUS
  <2>1. Len(t) \in S
    BY <1>3
  <2> QED BY <2>1

\* The scan accepts a trace iff its first appearances are the reference.
LEMMA RetriesAreFirstAppearances ==
  ASSUME NEW T, observed \in Seq(T), reference \in Seq(T)
  PROVE  RetriesKeepFirstAppearances
<1> DEFINE a == FirstAppearances(observed)
<1>1. CASE UniqueOperations(reference)
  <2>1. OrderedRetries(observed, reference) <=>
          ScanOf(observed, reference) = Len(reference)
    BY <1>1, ScanFolds DEF OrderedRetries, ScanOf
  <2>2. ScanOf(observed, reference) = IF Begins(a, reference) THEN Len(a) ELSE NoMatch
    BY <1>1, ScanFollowsFirsts DEF Scanned
  <2>3. a \in Seq(T)
    <3>1. CASE observed = <<>>
      BY <3>1, FirstOfNone
    <3>2. CASE observed # <<>>
      <4>1. observed[1] \in T
        BY <3>2
      <4> QED BY <4>1, FirstGrows
    <3> QED BY <3>1, <3>2
  <2> HIDE DEF a
  <2>4. Len(a) \in Nat /\ Len(reference) \in Nat /\ NoMatch # Len(reference)
    BY <2>3 DEF NoMatch
  <2>5. a = reference <=> Begins(a, reference) /\ Len(a) = Len(reference)
    <3>1. ASSUME Begins(a, reference), Len(a) = Len(reference) PROVE a = reference
      BY <2>3, <3>1, SeqEqual DEF Begins
    <3>2. a = reference => Begins(a, reference) /\ Len(a) = Len(reference)
      BY <2>4 DEF Begins
    <3> QED BY <3>1, <3>2
  <2>6. OrderedRetries(observed, reference) <=> a = reference
    BY <2>1, <2>2, <2>4, <2>5
  <2> QED BY <1>1, <2>6 DEF RetriesKeepFirstAppearances, a
<1>2. CASE ~ UniqueOperations(reference)
  BY <1>2 DEF RetriesKeepFirstAppearances, OrderedRetries
<1> QED BY <1>1, <1>2

-----------------------------------------------------------------------------
(* The theorems of the trace predicates.                                   *)

\* SingleAdjacentDuplicate::matches, which tries every insertion, finds exactly
\* the traces from which one of two equal neighbours can be removed.
THEOREM DuplicateSearchIsRemoval == TraceSpec => []DuplicateIsRemovable
<1>1. observed \in Seq(Records) /\ reference \in Seq(Records)
        => DuplicateIsRemovable
  BY RepeatIsRemovable
<1> QED BY <1>1, TracesAreTyped, PTL

\* OrderedRetries::matches accepts exactly the traces whose first appearances,
\* in order, are the reference, if its operations are unique.
THEOREM RetryScanKeepsFirsts == TraceSpec => []RetriesKeepFirstAppearances
<1>1. observed \in Seq(Records) /\ reference \in Seq(Records)
        => RetriesKeepFirstAppearances
  BY RetriesAreFirstAppearances
<1> QED BY <1>1, TracesAreTyped, PTL

=============================================================================
