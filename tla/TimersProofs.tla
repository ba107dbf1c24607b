---------------------------- MODULE TimersProofs ----------------------------
(***************************************************************************)
(* Timers.tla for every period, horizon, start of the clock and number of  *)
(* clock steps and kills: waits are computed from the recorded reading, and *)
(* what they miss their deadline by is what the clock was set by.          *)
(***************************************************************************)
EXTENDS Timers, TLAPS, SequenceTheorems

\* A record as long as the process's position says, the reading it holds, and
\* the sleep's distance from the deadline.
IInv ==
  /\ TypeOK
  /\ pc = "RecordNow" => record = <<>> /\ reading \in 0 .. LastReading
  /\ record = <<>> => wall <= LastReading
  /\ pc \in {"Sleep", "Arm", "Sleeping", "Woken", "Done"} =>
       record # <<>> /\ reading = record[1].time
  /\ pc \in {"Arm", "Sleeping", "Woken"} => Len(record) = 2
  /\ pc = "Sleeping" => clock = "SystemClock"
  /\ pc = "Sleeping" => wall + left >= Deadline + skew
  /\ pc = "Sleeping" /\ left > 0 => wall + left = Deadline + skew
  /\ pc = "Woken" /\ clock = "SystemClock" => woke >= Deadline + skew

LEMMA RecordShape ==
  ASSUME NEW r, IsRecord(r)
  PROVE  /\ r \in Seq(TimerEvents)
         /\ Len(r) \in Nat
         /\ Len(r) <= 3
         /\ r = <<>> <=> Len(r) = 0
         /\ r # <<>> => r[1].time \in 0 .. LastReading
<1>1. r \in Seq(TimerEvents) BY DEF IsRecord
<1>2. r = <<>> <=> Len(r) = 0 BY <1>1, EmptySeq
<1>3. Len(r) \in Nat /\ Len(r) <= 3 BY <1>1, LenProperties DEF IsRecord
<1>4. ASSUME r # <<>> PROVE r[1].time \in 0 .. LastReading
  <2>1. PICK t \in 0 .. LastReading : r[1] = NowRecorded(t)
    BY <1>2, <1>3, <1>4 DEF IsRecord
  <2> QED BY <2>1 DEF NowRecorded
<1> QED BY <1>1, <1>2, <1>3, <1>4

\* The three appends that extend a record.
LEMMA Append1Shape ==
  ASSUME NEW r \in Seq(TimerEvents), NEW ev \in TimerEvents
  PROVE  /\ Append(r, ev) \in Seq(TimerEvents)
         /\ Append(r, ev) # <<>>
         /\ Len(Append(r, ev)) = Len(r) + 1
         /\ \A i \in 1 .. Len(r) : Append(r, ev)[i] = r[i]
         /\ Append(r, ev)[Len(r) + 1] = ev
BY AppendProperties

LEMMA ReadingAppended ==
  ASSUME NEW t \in 0 .. LastReading
  PROVE  LET s == Append(<<>>, NowRecorded(t))
         IN IsRecord(s) /\ s # <<>> /\ Len(s) = 1 /\ s[1].time = t
<1> DEFINE s == Append(<<>>, NowRecorded(t))
<1>1. NowRecorded(t) \in TimerEvents
  BY PeriodAssumption, TimeAssumption DEF TimerEvents, NowRecorded
<1>2. <<>> \in Seq(TimerEvents) /\ Len(<<>>) = 0
  BY EmptySeq
<1>3. s \in Seq(TimerEvents) /\ s # <<>> /\ Len(s) = 1 /\ s[1] = NowRecorded(t)
  BY <1>1, <1>2, Append1Shape
<1> HIDE DEF s
<1>4. s[1].time = t
  BY <1>3 DEF NowRecorded
<1>5. IsRecord(s)
  BY <1>3 DEF IsRecord
<1> QED BY <1>3, <1>4, <1>5 DEF s

LEMMA TimerAppended ==
  ASSUME NEW r \in Seq(TimerEvents), IsRecord(r), Len(r) = 1
  PROVE  LET s == Append(r, TimerScheduled(r[1].time + Period))
         IN IsRecord(s) /\ s # <<>> /\ Len(s) = 2 /\ s[1] = r[1]
<1> DEFINE s == Append(r, TimerScheduled(r[1].time + Period))
<1>1. PICK t \in 0 .. LastReading : r[1] = NowRecorded(t)
  BY DEF IsRecord
<1>2. r[1].time + Period \in 0 .. MaxWall
  BY <1>1, PeriodAssumption, TimeAssumption DEF NowRecorded
<1>3. TimerScheduled(r[1].time + Period) \in TimerEvents
  BY <1>2 DEF TimerEvents, TimerScheduled
<1>4. /\ s \in Seq(TimerEvents) /\ s # <<>> /\ Len(s) = 2 /\ s[1] = r[1]
      /\ s[2] = TimerScheduled(r[1].time + Period)
  <2>1. /\ s \in Seq(TimerEvents) /\ s # <<>> /\ Len(s) = Len(r) + 1
        /\ \A i \in 1 .. Len(r) : s[i] = r[i]
        /\ s[Len(r) + 1] = TimerScheduled(r[1].time + Period)
    BY <1>3, Append1Shape
  <2>2. 1 \in 1 .. 1 /\ 1 + 1 = 2
    OBVIOUS
  <2> HIDE DEF s
  <2> QED BY <2>1, <2>2
<1> HIDE DEF s
<1>5. IsRecord(s)
  BY <1>1, <1>4 DEF IsRecord
<1> QED BY <1>4, <1>5 DEF s

LEMMA FiringAppended ==
  ASSUME NEW r \in Seq(TimerEvents), IsRecord(r), Len(r) = 2
  PROVE  LET s == Append(r, TimerFired)
         IN IsRecord(s) /\ s # <<>> /\ Len(s) = 3 /\ s[1] = r[1]
<1> DEFINE s == Append(r, TimerFired)
<1>1. /\ \E t \in 0 .. LastReading : r[1] = NowRecorded(t)
      /\ r[2] = TimerScheduled(r[1].time + Period)
  BY DEF IsRecord
<1>2. TimerFired \in TimerEvents
  BY TimeAssumption DEF TimerEvents, TimerFired
<1>3. /\ s \in Seq(TimerEvents) /\ s # <<>> /\ Len(s) = 3
      /\ s[1] = r[1] /\ s[2] = r[2] /\ s[3] = TimerFired
  <2>1. /\ s \in Seq(TimerEvents) /\ s # <<>> /\ Len(s) = Len(r) + 1
        /\ \A i \in 1 .. Len(r) : s[i] = r[i]
        /\ s[Len(r) + 1] = TimerFired
    BY <1>2, Append1Shape
  <2>2. 1 \in 1 .. 2 /\ 2 \in 1 .. 2 /\ 2 + 1 = 3
    OBVIOUS
  <2> HIDE DEF s
  <2> QED BY <2>1, <2>2
<1> HIDE DEF s
<1>4. IsRecord(s)
  BY <1>1, <1>3 DEF IsRecord
<1> QED BY <1>3, <1>4 DEF s

LEMMA InitInvariant == Init => IInv
<1>1. <<>> \in Seq(TimerEvents) /\ Len(<<>>) = 0
  BY EmptySeq
<1>2. IsRecord(<<>>)
  BY <1>1 DEF IsRecord
<1> QED BY <1>2, PeriodAssumption, TimeAssumption, FaultAssumption
        DEF Init, IInv, TypeOK, Pcs, Deadline, Clocks

\* The two appends of the workflow, and the one of a timer that fired.
LEMMA RecordNowInvariant == IInv /\ RecordNow /\ UNCHANGED clock => IInv'
<1> SUFFICES ASSUME IInv, RecordNow, UNCHANGED clock PROVE IInv'
  OBVIOUS
<1>1. record = <<>> /\ reading \in 0 .. LastReading /\ record' = Append(<<>>, NowRecorded(reading))
  BY DEF IInv, RecordNow, Append1
<1>2. IsRecord(record') /\ record' # <<>> /\ Len(record') = 1 /\ record'[1].time = reading
  BY <1>1, ReadingAppended
<1> QED BY <1>2 DEF IInv, TypeOK, RecordNow, Goto, Pcs

LEMMA SleepInvariant == IInv /\ Sleep /\ UNCHANGED clock => IInv'
<1> SUFFICES ASSUME IInv, Sleep, UNCHANGED clock PROVE IInv'
  OBVIOUS
<1>1. IsRecord(record) /\ record # <<>> /\ reading = record[1].time
  BY DEF IInv, TypeOK, Sleep
<1>2. /\ record \in Seq(TimerEvents)
      /\ Len(record) \in Nat /\ Len(record) <= 3 /\ Len(record) # 0
  BY <1>1, RecordShape
<1>3. CASE Scheduled
  <2>1. UNCHANGED <<clock, wall, record, reading, left, skew, woke, steps, kills>>
    BY <1>3 DEF Sleep
  <2>2. pc' = "Done" \/ (pc' = "Arm" /\ Len(record) = 2)
    <3>1. CASE Fired
      BY <1>3, <3>1 DEF Sleep, Goto
    <3>2. CASE ~ Fired
      <4>1. pc' = "Arm"
        BY <1>3, <3>2 DEF Sleep, Goto
      <4>2. Len(record) >= 2 /\ Len(record) # 3
        BY <1>3, <3>2 DEF Scheduled, Fired
      <4>3. \A n \in Nat : n <= 3 /\ n >= 2 /\ n # 3 => n = 2
        OBVIOUS
      <4> QED BY <1>2, <4>1, <4>2, <4>3
    <3> QED BY <3>1, <3>2
  <2> QED BY <1>1, <2>1, <2>2 DEF IInv, TypeOK, Pcs, Deadline
<1>4. CASE ~ Scheduled
  <2>n. \A n \in Nat : n # 0 /\ ~ n >= 2 => n = 1
    OBVIOUS
  <2>1. Len(record) = 1
    BY <1>2, <1>4, <2>n DEF Scheduled
  <2>2. ~ Fired
    BY <2>1 DEF Fired
  <2>3. /\ record' = Append(record, TimerScheduled(record[1].time + Period)) /\ pc' = "Arm"
        /\ UNCHANGED <<clock, wall, reading, left, skew, woke, steps, kills>>
    BY <1>1, <1>4, <2>2 DEF Sleep, Append1, Deadline, Goto
  <2>4. IsRecord(record') /\ record' # <<>> /\ Len(record') = 2 /\ record'[1] = record[1]
    BY <1>1, <1>2, <2>1, <2>3, TimerAppended
  <2> QED BY <1>1, <2>3, <2>4 DEF IInv, TypeOK, Pcs
<1> QED BY <1>3, <1>4

LEMMA FireInvariant == IInv /\ Fire /\ UNCHANGED clock => IInv'
<1> SUFFICES ASSUME IInv, Fire, UNCHANGED clock PROVE IInv'
  OBVIOUS
<1>1. /\ IsRecord(record) /\ reading = record[1].time /\ Len(record) = 2
      /\ record \in Seq(TimerEvents) /\ record' = Append(record, TimerFired)
  BY RecordShape DEF IInv, TypeOK, Fire, Append1
<1>2. IsRecord(record') /\ record' # <<>> /\ record'[1] = record[1]
  BY <1>1, FiringAppended
<1> QED BY <1>1, <1>2 DEF IInv, TypeOK, Fire, Goto, Pcs

\* A wait begins at most as far from the deadline as the clock says.
LEMMA ArmInvariant == IInv /\ Arm /\ UNCHANGED clock => IInv'
<1> SUFFICES ASSUME IInv, Arm, UNCHANGED clock PROVE IInv'
  OBVIOUS
<1>1. wall \in Int /\ Now \in Nat /\ Deadline \in Nat /\ wall <= Now
  BY PeriodAssumption DEF IInv, TypeOK, Now, Deadline
<1>2. CASE Blocks(Deadline - Now) /\ Deadline > Now /\ clock = "SystemClock"
  BY <1>1, <1>2 DEF IInv, TypeOK, Arm, Blocks, Goto, Pcs, Deadline
<1>3. CASE Returns /\ ~ (clock = "SystemClock" /\ Deadline > Now)
  BY <1>1, <1>3 DEF IInv, TypeOK, Arm, Returns, Goto, Pcs, Deadline
<1> QED BY <1>2, <1>3 DEF Arm

LEMMA NextInvariant == IInv /\ [Next]_vars => IInv'
<1> SUFFICES ASSUME IInv, [Next]_vars PROVE IInv'
  OBVIOUS
<1> USE PeriodAssumption, TimeAssumption, FaultAssumption
<1>1. CASE Start /\ UNCHANGED clock
  BY <1>1 DEF IInv, TypeOK, Start, Goto, Pcs, Deadline
<1>2. CASE ReadNow /\ UNCHANGED clock
  <2>1. UNCHANGED <<clock, wall, record, left, skew, woke, steps, kills>>
    BY <1>2 DEF ReadNow
  <2>2. CASE record # <<>>
    <3>1. reading' = record[1].time /\ pc' = "Sleep" /\ record[1].time \in 0 .. LastReading
      BY <1>2, <2>2, RecordShape DEF ReadNow, Goto, IInv, TypeOK
    <3> QED BY <2>1, <2>2, <3>1 DEF IInv, TypeOK, Pcs
  <2>3. CASE record = <<>>
    <3>1. reading' \in 0 .. LastReading /\ pc' = "RecordNow"
      BY <1>2, <2>3 DEF ReadNow, Goto, Now, IInv, TypeOK
    <3> QED BY <2>1, <2>3, <3>1 DEF IInv, TypeOK, Pcs
  <2> QED BY <2>2, <2>3
<1>3. CASE Wake /\ UNCHANGED clock
  BY <1>3 DEF IInv, TypeOK, Wake, Goto, Pcs, Deadline
<1>4. CASE Kill /\ UNCHANGED clock
  BY <1>4 DEF IInv, TypeOK, Kill, Pcs, Deadline
<1>5. CASE Tick /\ UNCHANGED clock
  BY <1>5 DEF IInv, TypeOK, Tick, Horizon, Pcs, Deadline
<1>6. ASSUME NEW w \in (- BeforeEpoch) .. MaxWall, Set(w), UNCHANGED clock
      PROVE  IInv'
  BY <1>6 DEF IInv, TypeOK, Set, Horizon, Pcs, Deadline
<1>7. ASSUME NEW w \in (- BeforeEpoch) .. MaxWall, Advance(w), UNCHANGED clock
      PROVE  IInv'
  <2>1. /\ UNCHANGED <<record, pc, reading, left, skew, woke, steps, kills>>
        /\ wall' = w /\ wall < w /\ w <= Horizon /\ clock = "TestClock" /\ clock' = clock
    BY <1>7 DEF Advance, process
  <2>2. /\ wall' \in Int /\ wall' <= MaxWall /\ wall < wall'
        /\ record = <<>> => wall' <= LastReading
    BY <2>1 DEF IInv, TypeOK, Horizon
  <2>3. wall \in Int /\ left \in Nat /\ skew \in Int /\ Deadline \in Nat
    BY DEF IInv, TypeOK, Deadline
  <2>4. pc # "Sleeping"
    BY <2>1 DEF IInv
  <2> QED BY <2>1, <2>2, <2>3, <2>4 DEF IInv, TypeOK, Pcs, Deadline
<1>8. CASE UNCHANGED vars
  BY <1>8 DEF IInv, TypeOK, vars, process, Deadline
<1> QED BY <1>1, <1>2, <1>3, <1>4, <1>5, <1>6, <1>7, <1>8,
           RecordNowInvariant, SleepInvariant, ArmInvariant, FireInvariant
        DEF Next, Run, Pass, Disturb

-----------------------------------------------------------------------------
THEOREM Invariance == Spec => []IInv
<1> QED BY InitInvariant, NextInvariant, PTL DEF Spec

\* Type correctness, the shape of the record included.
THEOREM TypeCorrect == Spec => []TypeOK
<1>1. IInv => TypeOK BY DEF IInv
<1> QED BY <1>1, Invariance, PTL

\* However often the process is killed and the clock set, what is left of a
\* sleep ends at the deadline computed from the recorded reading.
THEOREM RestartKeepsDeadline == Spec => []SleepEndsAtDeadline
<1>1. IInv => SleepEndsAtDeadline
  BY DEF IInv, SleepEndsAtDeadline, Deadline
<1> QED BY <1>1, Invariance, PTL

\* A wait misses its deadline by no more than the clock was set back.
THEOREM EarlinessIsSkew == Spec => []WakesEarlyOnlyBySkew
<1>1. IInv => WakesEarlyOnlyBySkew
  BY PeriodAssumption DEF IInv, TypeOK, WakesEarlyOnlyBySkew, Deadline
<1> QED BY <1>1, Invariance, PTL
=============================================================================
