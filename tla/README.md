# Yaoki: a TLA+ model of the durable execution engine

Yaoki runs *workflows*: ordinary synchronous Rust code that asks a context for
steps, clock readings, random draws and timers. Every answer is journaled before
the code sees it. After a crash the code is run again over the journal: recorded
answers are replayed, and the run continues live where the record ends.

This directory holds TLA+ modules that model the engine, TLC configurations that
check them on small instances, and proofs checked by TLAPS for every instance.
Paths are relative to the repository; the crate's sources are in `src/src/`.

    tlasany M.tla                                # parse
    tlc -workers 2 -config X.cfg M               # model-check
    tlapm EngineProofs.tla                       # check proofs (a few minutes a module)

`PROJECT.json` maps every definition to the lines it stands for, every property to
the run that checks it and to a mutation of the model that breaks it, and lists the
hazards of the code the properties are aimed at.

## 1. The system

| component | source | state | operations |
|---|---|---|---|
| vocabulary | `journal.rs`, `command.rs`, `step.rs`, `execution.rs` | none | `Seq`, `Attempt`, `Command`, `JournalEvent` (eleven kinds) |
| event grammar | `history.rs` | none | `HistoryState::advance`, `ValidatedHistory::parse`, `into_recovery` |
| workflow context | `context.rs` | mode (live, or a cursor over the loaded history), next position, first engine fault | `step`, `now`, `random`, `sleep_until` and their replay |
| engine | `engine.rs` | the `Execution` handle with its lease | `run`, `recover_and_run`, `finish` |
| journal stores | `stores/file.rs`, `stores/memory.rs` behind the `JournalStore` trait | the journals, the leases | `acquire`, `append`, `load`, dropping a lease |
| failpoints | `failpoints.rs` | the armed crash point | `CrashPoint`s consulted by the context |
| clocks, randomness | `time.rs`, `random.rs` | the clock | `now`, `sleep_until`, a draw |
| trace predicates | `equivalence.rs` | a recorder | `ExactTrace`, `SingleAdjacentDuplicate`, `OrderedRetries` |
| demo binary | `main.rs` | none | a signup workflow, `run` and `recover` |

**How they interact.** `Engine::run` and `Engine::recover_and_run` take the
execution's lease from the store and keep it in the `Execution` handle until they
return. `run` loads the journal and, if it is empty, appends `ExecutionStarted`.
`recover_and_run` loads it once, selects the workflow by the recorded name and
version, parses the history, answers from a terminal record if there is one, and
otherwise starts the workflow over a cursor on that snapshot. The workflow calls the
context; the context reads the cursor or appends to the store, and consults a
failpoint at each `CrashPoint`. A step body is called by the context between the
append of `StepStarted` and that of its outcome, so its external effect is not atomic
with the record. `Engine::finish` checks that the context is healthy and the history
read to the end, and appends the terminal record.

**What is hard.**

* *Crashes between an effect and its record.* The body may run again; nothing else may.
* *Appends of unknown outcome.* The trait lets `append` fail with the event durable or
  not (`journal.rs:239`). The context must stop writing; a workflow may catch the error
  and return as if nothing had happened, and `finish` must not believe it.
* *Competing owners.* `start` loads and then appends; recovery loads once and appends
  much later. Only the lease makes either safe.
* *Replay across several crashes.* Attempts accumulate, a crash can fall between any two
  events of a command, and the parser and the context each decide what may come next.
* *Changed code or the wrong version.* A recovered history must be read by the workflow
  that wrote it, to its end.
* *Limits.* Positions and attempts are fixed-width counters with no wrap; the parser and
  the context check them in different places and must agree.
* *Storage.* Torn frames, healing on read, a failing metadata call that reads as "no
  file", lock files, poisoned mutexes, documents this build cannot read.
* *Time.* A timer outlives processes; the wall clock it is measured against can be set.
* *Crash injection.* A crash test shows nothing if its crash point is never reached.

**What makes each component correct.** The grammar accepts exactly the well-formed
histories and locates the first misfit. The context writes only what the grammar
accepts, returns only durable results, and performs each attempt at most once and after
its record. The engine lets one owner in, seals an execution only with everything on
record seen, and tells every caller the same outcome. The stores lose no acknowledged
event and heal a torn tail; the framing finds what was written and nothing else, and the
codec lets nothing in that the constructors would refuse. A restart does not move a
timer's deadline. The crash driver reaches every window. The trace predicates mean what
their names say, and the engine's effects satisfy them.

## 2. Modules

    JournalEvents ── History ──┬── HistoryParse                  (fold and grammar)
                               └── Engine ──┬── EngineInvariant
                                            │     │  └── EngineMC
                                            │     └───────────── EngineRecord
    DurableExecution ───────────────────────┴── EngineRefines ───┴─ EngineTraces ─┬─ WorkflowMC
    Equivalence ── EquivalenceMC                                    │             ├─ Failpoints ── FailpointsMC
         └──────────────────────────────────────────────────────────┘             └─ Demo ── DemoMC
    StoreContract ─┬─ FileJournal ─┬─ FileJournalMC
                   │               └─ FileJournalInvariant
                   └─ MemoryJournal
    HistoryParse, EquivalenceMC ── ScansMC
    Crc32 ── Frames ── FramesMC        RecordCodec        Timers

The proofs are beside the modules they are about:

    EngineInvariant ── EngineProofs ─┐
    EngineRecord ────────────────────┴─ EngineRecordProofs ─┐
    EngineTraces ── Demo, Failpoints ───────────────────────┴─ DriverProofs
    HistoryParse, EquivalenceMC ── ScanProofs               FoldLemmas  (used by both)
    FileJournalInvariant ── FileJournalProofs
    MemoryJournal ── MemoryJournalProofs                    Timers ── TimersProofs

| module | models |
|---|---|
| `JournalEvents` | positions, attempts, commands and events; payloads, names, timestamps and random bytes are opaque constants |
| `History` | `HistoryState::advance` with its errors in the order the code tests them; `Legal`, `Resumable`, `Parses` |
| `HistoryParse` | `parse` as the code's fold, and an independent grammar over the whole journal |
| `Engine` | one execution, several engines, the lease, the context, replay, append outcomes, kills and failpoints |
| `EngineInvariant` | the inductive invariant of a run's position in the grammar |
| `EngineRecord` | the one on top of it: what the journal, the effects and the run say of each other |
| `DurableExecution` | the abstract specification: no engines, leases, attempts, replay or crashes |
| `EngineRefines` | the refinement mapping from `Engine` |
| `Equivalence`, `EquivalenceMC` | the three trace predicates and independent models of them |
| `EngineTraces` | the engine's effects against those predicates |
| `Failpoints` | `Engine` under one `CrashOnce` policy: the crash tests' driver, over every window |
| `Demo` | `Engine` inside the demo's processes: `run`, then `recover_and_run` with the lease free in between, and how each exits |
| `StoreContract` | what a `JournalStore` promises of one execution: a log, an owner, one call at a time |
| `FileJournal` | one journal file and its lock file, system call by system call, with faults |
| `FileJournalInvariant` | the inductive invariant of the file, its lock and the calls under way |
| `Crc32`, `Frames` | the frames of that file byte by byte, with their checksum |
| `RecordCodec` | the JSON records in the frames, and the validation on the way back |
| `MemoryJournal` | the in-memory store: its two mutexes, poisoning, the lease's drop |
| `Timers` | a durable timer, the clock it is measured against, and restarts |
| `EngineProofs`, `EngineRecordProofs`, `DriverProofs`, `ScanProofs`, `FileJournalProofs`, `MemoryJournalProofs`, `TimersProofs` | the theorems |
| `FoldLemmas` | what their proofs need of a fold over a sequence |
| `ScansMC`, `EngineMC`, `WorkflowMC`, `FailpointsMC`, `DemoMC`, `FileJournalMC`, `FramesMC` | instances for TLC: the parser and the predicates side by side; arbitrary code; the demo workflow and a deterministic one; the crash tests' workflows; two processes on one file; payloads that imitate the framing |

### How `Engine` corresponds to the code

The variables are `journal` (what the store has made durable), `owner` (the lease),
`run[e]` (the stack of the engine that holds it, the `WorkflowCtx` included),
`effects` (the bodies that ran, the outside world), `replies` (final outcomes given to
callers) and the count of interruptions. Executions share nothing in the store but a
directory or a map keyed by execution, so one execution is enough.

A run is a record. `mode`, `history` and `pos` are `Mode` with its `Cursor`; `seq` is
the context's next position, already advanced while a command is in progress (so
`Position(r) = seq - 1` is that command's); `health` is the first fault retained by
`retain_engine_result`; `obs` is what workflow code has seen; `pending` is the event
being appended, and `step`, `attempt` are the locals of the step in progress. `pc` says
where in the call the thread stands. The granularity is one atomic step between two
points where something else can happen: a store call, a step body, a wait, or a
checkpoint. Between those, the code touches only its own stack while the lease keeps
every other engine out.

| code | actions |
|---|---|
| `Execution::new`, `start` | `RunAcquire`, `StartExisting`, `StartAbsent` |
| `Execution::recover`, `Invocation::parse` and `select`, `ValidatedHistory::parse` | `RecoverAcquire`, `RecoverRejected`, `RecoverTerminal`, `RecoverRunning` |
| a command's entry (`ensure_healthy`, position, `Cursor` against command) | `SequenceExhausted`, `Diverges`, `ReplayReading`, `ReplayScheduled`, `BeginCommand` |
| `replay_step_outcome`, the replay half of `resolve_sleep` | `ReplayAttempt`, `ReplayFollower`, `RerunStep`, `Rearm` |
| `run_live`, the live half of `resolve_sleep` | `StartFirstAttempt`, `RunBody`, `Wake`, `ReturnRecorded` |
| `JournalStore::append` returning `Ok` | `AppendThenCheckpoint`, `AppendThenReturn`, `AppendStart`, `AppendTerminal` |
| `append` returning `Err` | `CommandAppendFails`, `LifecycleAppendFails` |
| `Engine::finish` | `FinishFaulted`, `FinishUnconsumed`, `Finish` |
| a failpoint; the process dying; a failing `load` | `InjectCrash`, `Kill`, `LoadFails` |

An injected crash is an error the workflow can catch, so it leaves an unhealthy run; a
kill ends the run and releases the lease, as the operating system does. A failing
append leaves the event durable or absent, as the trait allows.

A panic in workflow code or in a body unwinds and drops the handle: `Kill` covers it.

Workflow code is the constant operator `Code(definition, input, obs)`: the commands it
may issue, or outcomes it may return, after its commands returned `obs`. A set with
several members is code that is not deterministic. What is promised to any code is
checked with a `Code` that returns everything; what needs determinism, with one that
returns one member.

### How `FileJournal` corresponds to the code

`file` is the journal file as every process sees it, `disk` what the last `sync_all`
made durable, both as sequences of frame parts. A frame `crc:len:payload\n` is
`FrameParts` parts written in order by `write_all`; the checksum makes it readable
exactly when all its parts are there, so `GoodFrames` is `parse_frames`. An absent file
is an empty one, since `read_and_heal` returns no events for either; but `read_and_heal` asks
`Path::exists` (`file.rs:356`), which is false also when the metadata call fails. With that
fault (`ReadAbsent`) the call goes on as over an absent file whatever is in it: a `load`
answers no events, an `append` writes at the file's end with nothing healed and returns
position 0. `call[p].blind` and `blindly` observe such appends; no action's guard reads
them. `lock` is the holder of
the OS lock; the lock belongs to the open file, so a child that another thread is
spawning holds it too until its `exec` (`Fork`, `Exec`), and `orphaned` says that only
that copy is left. `call[p]` is the call a process is in and the system call it is at; `acked` and `loaded`
are what the calls answered.

| code | actions |
|---|---|
| `acquire`, dropping a `FileLease` | `Acquire`; `Drop`, `FailUnlock` |
| `read_and_heal` | `Read`, `Truncate`, `SyncTruncation` |
| the rest of `append`; `load` | `Write` (a turn of `write_all`), `SyncAppend`; `Call`, `Healed` |
| a failing metadata call in `read_and_heal` | `ReadAbsent` |
| any other failing system call; the process dying; the machine losing power | `Fail`, `Kill`, `PowerLoss` |

`Fail` covers an error at any other call, `open` included, with no effect of that call:
these are all returned, with `?`; a
write that fails half way is `Write` followed by `Fail`. A failing `sync_all` may have
synced: `disk` is then a part of what is durable, which `PowerLoss` allows, since it may
keep the new contents. A later successful `sync_all` is taken to make the whole file
durable, also after one that failed; a kernel that forgets the pages it could not write
is outside the model.

### The file's contents: `Frames`, `Crc32`, `RecordCodec`

`FileJournal` takes it that a frame reads back exactly when all of it is there.
`Frames` is what makes that so: bytes are numbers, `EncodeFrame` and `ParseOneFrame`
follow `encode_frame` and `parse_one_frame` down to the plus sign that Rust's number
parsers accept, and the checksum is the real one (`Crc32`; a 32-bit word is the set of
its one bits, next to a reference that divides bit by bit). `WriteByte` is one byte of
`write_all`, `Cut` ends it early, `Spoil` loses up to four neighbouring bytes of an
unsynced frame, `ReadAndHeal` is a read with its truncation.

`RecordCodec` has the eleven record types with the type of each field, JSON values as
far as `serde` tells them apart, and the constructors a field passes on the way back
(`Constructs`). `Add` and `Load` are `append` and `load`; `Foreign` puts a document of
another build in the file: one field changed, missing, or added, or a kind this build
does not know.

### How `MemoryJournal` corresponds to the code

`executions` and `owners` are the two maps, `holder` and `poisoned` their mutexes, and
`thread[t]` the call a thread is in: it wants a mutex (`Want`), is inside, or has pushed
and not yet returned. One action is one critical section's work.

| code | actions |
|---|---|
| a call, dropping a lease | `Acquire`, `Call`, `Drop` |
| `Mutex::lock`, and its refusal of poison | `Lock`, `Refuse` |
| `acquire`, `append`, `load`, `MemoryLease::drop` | `Insert`; `Push`, `Confirm`; `Clone`; `Remove` |
| a panic, anywhere a thread can stand | `Panic` |

`Remove` looks past the poison, as the code does with `PoisonError::into_inner`.

### How `Timers` corresponds to the code

The journal is the reading, the schedule and the firing; the process reads the clock
(`ReadNow`, `RecordNow`), sleeps until reading plus period (`Sleep`, `Arm`, `Wake`,
`Fire`), can be killed and is started again. `Arm` reads the wall clock once and blocks
for the difference, as `sleep_until` does; `left` counts down with `Tick`, which is
time that passes, while `Set` moves the wall clock alone. `skew` sums what `Set` moved
during this wait. Under `TestClock` no time passes and a wait returns.

### `Failpoints` and `Demo`

Both add variables to `Engine` and conjoin their own conditions to its actions, so the
engine in them is the same one. `Failpoints` gives each engine the policy it was built
with; `Crash` is `Engine`'s `InjectCrash` where the policy says so, and every other
interruption is left out, as in the crash tests. `Demo` adds what `main` is doing and
how the process ended; it leaves `InjectCrash` out.

## 3. The runs

| run | question | instance | distinct states |
|---|---|---|---|
| `scans` | Does the parser's fold accept exactly the grammar and stop at the first misfit, and do the trace predicates mean what the independent models say? | every journal of up to 7 events, one misfit and one event after it included, positions 0..2, attempts 1..2; every pair of traces of at most 3 and 4 records over 3 operations and 2 payloads | 482 275 |
| `engine_any` | What does the engine guarantee to any code? | 2 engines, 2 names × 2 versions, 2 steps, all commands; `MaxSeq` 2, `MaxAttempt` 2, 3 interruptions | 574 076 |
| `engine_mixed` | For deterministic code, do all the crashed and contended runs add up to one run of it, with the effects the trace predicates allow, and does it finish? | 2 engines, code that depends on version, input, a draw and a failure; `MaxSeq` 3, `MaxAttempt` 3, 2 interruptions | 51 403 |
| `file_store` | Is the file with its lock the store the engine relies on, whatever fails? | 2 processes, 2 events, frames of 3 parts, 3 frames; 2 kills or failures, 1 power loss | 717 172 up to symmetry |
| `absent_file` | Does every append return the position of its event? | 1 process, 2 events, 2 frames, 1 failure | violated |
| `memory_store` | Is the in-memory store one, whatever panics? | 2 threads, 2 executions, 2 events; see `MemoryStore.cfg` | 200 284 |
| `timers` | Where does a wait end after restarts and clock changes? | both clocks, period 3, the clock at first before the epoch, 2 settings, 2 kills | 42 047 |
| `failpoints` | Does every window crash, recover, and repeat only what it may? | each window of two workflows, policy reused or not | 2 834 |
| `demo` | Can processes that run and recover by turns end any other way than expected? | 2 processes, 2 builds, 2 interruptions | 138 050 |
| `record_codec` | Does every event read back, and nothing else get in? | 1 own and 1 foreign document in any order, every single edit of every event; `MaxU32` 1, `MaxU64` 2 | 337 506 |
| `frames` | Does the parser find what was written and nothing else? | five payloads that imitate framing, files up to 45 bytes, every cut, every loss of up to 4 neighbouring bytes | 4 408 |
| `effect_windows` | Is every window between an effect and its record a named `CrashPoint`? | as `engine_any` | violated |

**The properties.**

* `ParseIsTheGrammar` compares the fold with a grammar that counts over the whole
  journal, and with the neighbour-wise form that `Engine` uses, which is what ties the
  engine's results to the parser. `ErrorLocatesFirstMisfit` is about the reported offset.
  Which of several errors an event has is reported, `AdvanceError` follows the code in; no
  property compares it with anything.
* `HistoryLegal`: whatever the interleaving, the engine writes what recovery can read.
* `ReplayIsTotal`: on a parsed history, three defensive branches of the context are
  unreachable, the attempt overflow among them.
* `SnapshotIsCurrent`, `LeaseExclusive`: nothing is appended behind a run's back.
* `ObservedIsDurable`, `OutcomeWasPerformed`, `RepliesAreDurable`: what code, the record
  and callers know agree with the journal and with the effects.
* `EffectsFollowAttempts`, `RepeatsNeedInterruptions`, `NoEffectOnceSettled`: when a body
  may run, and what a repeat costs.
* `SealSawEverything`: the run of the lease's holder that ends an execution saw every
  recorded result and had no fault, whatever its code made of it.
* `ImplementsDurable` is the refinement of `DurableExecution`; `NeverDiverges` is about
  deterministic code only.
* `OneInterruptionOneDuplicate`, `FinishedWithOrderedRetries` join `Engine` and
  `Equivalence`: the predicates are what the crash tests assert.
* `LeaseIsReleased`, `EventuallyTerminal`: progress.
* `AcknowledgedStay`: an event whose append read the file and returned `Ok` stays where it
  was put, power losses included, and whatever an append that took the file for absent
  wrote before or after. `EveryPositionIsRight` asks it of every append, and is what
  `absent_file` refutes. `NoStrayLock`: an orderly drop frees the execution although a
  child has the descriptor. `ImplementsStore`: but for the power losses and the answers of
  calls that took a file with events for absent (`MisledAnswer`), every step of the file is
  one of `StoreContract`, whose unanswered append is `AppendUncertain` in `Engine`; so
  healing takes back nothing a reader was shown. The writes of a misled append are steps
  of the contract too: an event is added if its frame ends the file with nothing torn
  before it, and is otherwise not there. `TypeOK` bounds the file by its frames and one
  more for each fault, which is all that unhealed tails can amount to.
* `OwnersHaveLeases`: an execution is owned exactly while a thread holds its lease, or is
  still to drop it. `PoisonFreezesJournals`: a poisoned store refuses and never answers
  from a half-done change. `ImplementsStore` of `MemoryJournal` says it of each execution.
* `SleepEndsAtDeadline`, `WakesEarlyOnlyBySkew`: what is left of a sleep always ends at
  the deadline of the recorded reading, up to what the clock was set by during this very
  sleep. So `Clock::sleep_until`, which "blocks until `deadline`" (`time.rs:47`), returns
  before it when the clock is set back meanwhile. `EventuallyFires`: no timer is lost.
* `OnlyTheWindowAfterTheEffectRepeatsIt` is the sentence of the crash tests, for every
  window and step; `NoWindowIsSkipped`: an execution that ended without the crash went
  through no window it was set to; `CrashedRunsRecover`: a policy that is reused by the
  recovery does not crash it again and again.
* `OnlyInterruptionsShow`: no process records the workflow as failed, or is told that it
  cannot continue, because of what another one or a fault did. `EventuallySucceeds`:
  launched again and again, one completes.
* `EventsReadBack`, `UnreadableStops`: own events are read as they were appended, foreign
  ones as something the constructors would build or not at all, and behind an unreadable
  one nothing is written or healed.
* `ParsesWhatWasWritten`, `ChecksumIsDivision`: the parser finds the frames written whole,
  and counts just their bytes; the table computes the division it stands for.

Most of these are also proved for every instance (section 4), and the type invariants of
`Engine`, `FileJournal`, `MemoryJournal` and `Timers` with them.

**Bounds.** Two engines are enough for every race on one lease: a third can only be
refused. `MaxSeq` 2 and `MaxAttempt` 2 make both counters reach their limit, and leave
room for a replayed command followed by a live one. Three interruptions
exceed the attempts of a step, so an execution with no attempt left occurs. Journals
are bounded by `MaxSeq`, `MaxAttempt` and the interruptions, with no further constraint.
Names, payloads and draws have as many values as the properties tell apart. For the
file, three frames are a healthy prefix, an event left by a failed append, and one more;
three parts make a frame's beginning, middle and end tear differently and let a power
loss mix an old frame with a new one. Processes and records are interchangeable there,
hence the symmetry. Two threads make every race on a mutex, two executions share one.
A timer is set forward and back, before and during a wait, and its process killed on
either side of each record. A frame within a frame, and each of the header's bytes
inside a payload, are among the payloads of `Frames`; numbers in `RecordCodec` go one
past the widest integer, and the two widths differ, so that a field of the wrong one shows.

**Deadlock** is checked where something can always go on. It is not checked in
`scans`, whose generators stop at a length, nor in `timers`, where a
timer that fired is the end.

**Fairness.** In `engine_mixed` an engine that holds the lease goes on (weak
fairness of `Proceed`): its thread runs, bodies and waits return. Nothing in the code
retries: the operator runs `recover` again, and `RetryAsRecorded` is that assumption,
that somebody keeps recovering the execution with its recorded definition. It is
strongly fair, since other engines may hold the lease between two tries. Interruptions
are not fair and are bounded below the attempts of a step; with more, an execution whose
step is always interrupted is never finished, which is what the code does. In `timers`
the process runs, is restarted, and time passes (weak fairness of `Run` and `Pass`).
In `failpoints` one thread drives everything, as in the tests: weak fairness of the whole
next-state relation. In `demo` a process with the lease runs (`Go`, weakly fair), and
each build is launched again and again; two processes can refuse each other the lease
for ever, between `run` and `recover_and_run` too, so launching and retrying are
strongly fair.

**The violations.** `absent_file`: a process appends an event, which is confirmed at
position 0, and then a second one, whose metadata call fails. `read_and_heal` returns no
events, so the second append returns `Ok` with position 0 as well, though its event is the
second of the journal; behind a torn tail it would return `Ok` for an event that the next
read truncates away. `JournalStore::append` "Returns the 0-based position the event was
appended at." (`journal.rs:239`). A `load` with the same fault answers `Ok` with no events,
although it "Loads the full event history" (`journal.rs:247`). `try_exists`, or opening the file and looking at the error's kind, would
return the failure instead.

`effect_windows`: when a body returns an error, `run_live` appends `StepFailed` with no
checkpoint before it. A process that dies between the failing body and that record has
performed an effect and stands at no `CrashPoint`, although `failpoints.rs:1` says that
every window between a side effect and its journal record is named there. The engine
handles the crash correctly (the other runs include it); the crash tests cannot place
one there.

## 4. The proofs

Every theorem holds for all values of the constants its module's named assumptions allow.

| module | theorem | states |
|---|---|---|
| `EngineProofs` | `TypeCorrect`, `Invariance` | `[]TypeOK`, `[]IInv` |
| | `LeaseHeld` | `[]LeaseExclusive` |
| | `AlwaysLegal` | `[]HistoryLegal` |
| | `SnapshotHeld` | `[]SnapshotIsCurrent` |
| | `ReplayTotal` | `[]ReplayIsTotal` |
| `EngineRecordProofs` | `RecordInvariance` | `[]RecordInv` |
| | `ObservedDurable`, `EffectsAttempted` | `[]ObservedIsDurable`, `[]EffectsFollowAttempts` |
| | `OutcomePerformed`, `RepliesDurable` | `[]OutcomeWasPerformed`, `[]RepliesAreDurable` |
| | `RepeatsPaid` | `[]RepeatsNeedInterruptions` |
| | `SettledStaysQuiet`, `SealSaw` | `NoEffectOnceSettled`, `SealSawEverything` |
| | `DeterministicNeverDiverges` | `[]NeverDiverges`, of deterministic code |
| | `AttemptsPaid` | `[]AttemptsArePaid` |
| | `Refinement` | `ImplementsDurable` |
| `DriverProofs` | `TraceInvariance` | `[]TraceInv` |
| | `EndsWithOrderedRetries` | `[]FinishedWithOrderedRetries` |
| | `OneInterruptionCosts` | `[]OneInterruptionOneDuplicate` |
| | `OnlyInterruptionsEverShow` | `[]OnlyInterruptionsShow`, of the demo's kind of workflow |
| | `EveryWindowIsConsulted` | `[]NoWindowIsSkipped` |
| | `OnlyOneWindowRepeats` | `[]OnlyTheWindowAfterTheEffectRepeatsIt` |
| `ScanProofs` | `ParserAcceptsGrammar` | `[]ParseIsTheGrammar` |
| | `ParserLocatesMisfit` | `[]ErrorLocatesFirstMisfit` |
| | `DuplicateSearchIsRemoval` | `[]DuplicateIsRemovable` |
| | `RetryScanKeepsFirsts` | `[]RetriesKeepFirstAppearances` |
| `FileJournalProofs` | `TypeCorrect`, `StoreInvariance` | `[]TypeOK`, `[]StoreInv` |
| | `AcknowledgedIsKept` | `[]AcknowledgedStay` |
| | `NoLockStrays` | `[]NoStrayLock` |
| | `Refinement` | `ImplementsStore` |
| `MemoryJournalProofs` | `TypeCorrect`, `Invariance` | `[]TypeOK`, `[]IInv` |
| | `LeasesAreOwned` | `[]OwnersHaveLeases` |
| | `PoisonIsFinal` | `PoisonFreezesJournals` |
| | `Refinement` | `ImplementsStore` |
| `TimersProofs` | `TypeCorrect`, `Invariance` | `[]TypeOK`, `[]IInv` |
| | `RestartKeepsDeadline` | `[]SleepEndsAtDeadline` |
| | `EarlinessIsSkew` | `[]WakesEarlyOnlyBySkew` |

**Assumptions.** Of the engine: `MaxSeq` is a natural number, `MaxAttempt` a positive one,
`NoOwner` is not an engine, `MaxInterruptions` is a natural number; nothing is assumed of
`Code`, so the theorems hold of any workflow, but two. `DeterministicNeverDiverges` is about
`DeterministicCode`, which offers at most one command or outcome after any results; the
code of `engine_mixed`, `failpoints` and `demo` is of that kind. `OnlyInterruptionsEverShow`
is about `DemoWorkflow`: versions of one workflow, bodies that never fail, deterministic code
that succeeds within `MaxSeq` commands, and fewer interruptions than a step has attempts
(`Attempt` is a `u32`). TLC evaluates it on the instance of `demo`. Of the traces: nothing. Of the file: `Nobody` is
not a process, a frame has at least one part, the bounds on frames, faults and power
losses are natural numbers; records, their number and the processes are arbitrary.
Of the in-memory store: `NoThread` is not a
thread, `MaxEvents` and `MaxPanics` are natural numbers. Of the timer: the period and the
bounds on faults are natural numbers, and the deadline of the last possible reading can be
represented.

**The engine.** `HistoryLegal` is not inductive: whether the next append is admitted depends
on where the run stands. `IInv` says, for every `pc`, how the run relates to the state the
grammar is in, at the cursor while replaying and at the journal's end once live: in
workflow code a healthy run stands at `Ready(seq)`; inside `replay_step_outcome` at
`Scheduled` or at `Started` with the attempt before the run's; a pending event is one
the grammar admits next, at the command's own position; a replayed history has an
attempt left. An unhealthy run is related to nothing, and need not be, since
`ensure_healthy` and `finish` keep it from writing.

The argument has three layers. `EngineProofs` derives from `AdvanceError` what may
follow what, and that appending an admitted event keeps a journal legal (`AppendLegal`).
`StepPreserves` reduces every action to one obligation: the lease makes all other
engines idle, an idle run agrees with every journal, so an action preserves `IInv` if
the moved run is well typed and agrees with the new journal. Then there is one lemma per
group of actions and one step per action. Most of its content is in `CommandStep`
(the recorded event that matches a command has the command's position) and `ReplayStep`
(the attempt found in the record determines the next one, and the overflow branch
contradicts `Resumable`).

**The record.** None of `ObservedIsDurable`, `EffectsFollowAttempts`, `OutcomeWasPerformed`,
`RepliesAreDurable` and `RepeatsNeedInterruptions` is inductive: each is about results and
bodies of commands long past, while a step knows the journal's last event and a run. So
`RecordInv`, over `IInv`, ties the three together. Of the journal: the positions before the
one it stands at are settled, each once, the open command was opened once, and each command
on record is one that the code issues after the results before it. Of the effects: the
bodies that ran belong to settled steps, or to the open step's attempts up to the last
recorded one. Of the run: the results it has been given are those at the first positions,
as many as its position says; a record it is about to append is what its code asked for or
its body returned; what it is about to seal, it has seen to the end. `RepeatsArePaid` is
`RepeatsNeedInterruptions` with the repeat that a lost outcome is going to cost counted
beforehand, at the interruption that lost it. TLC checked `RecordInv` on the instances of
`engine_any` and `engine_mixed` (574 076 and 51 403 states) before it was proved.

The proof has few kinds of step: an event the grammar admits and the code asked for is
appended (`RecordGrows`), a body runs (`BodyRuns`), or neither, and then only a run moves.
`NoEffectOnceSettled` and `SealSawEverything` follow from the invariant before the step.
For `NeverDiverges`, a healthy replaying run of deterministic code stands before a recorded
command that the code issued after the same results; that can be no other than the one it
issues now.

`AttemptsPaid` is an invariant beside these: only a run that is in the last attempt on record
keeps it from having cost an interruption, and such a run ends by one or by an outcome.

**The traces.** The trace predicates speak of a sequence of effects, `RecordInv` of a set of
positions. `TraceInv` relates them by rank: the steps on record are at increasing positions
(`StepsInOrder`); each effect is that of the n-th of them, n being the number of steps that
have run up to it, and every step on record but an open one has run (`EffectsByRank`). So the
n-th step to take effect is the n-th on record. When the execution ended, all have, and the scan of ordered retries is then followed along the effects: after k
of them it has accepted as many records of the reference as they have positions. With at most one
interruption `RepeatsNeedInterruptions` leaves one effect too many, and by the order its
neighbour has the same position, which is what the search for one duplicate tries.

**The drivers.** Every step of `Demo` and `Failpoints` is one of `Engine`, or leaves its state
but for the interruption of a process that has no run, so `Engine`'s invariants hold under
them and each adds its own. `DemoInv` says what the process's run is: recovered by a binary
of its own version, with a fault only of the store, and never about to record a failure. It
needs `AttemptsPaid`, since a history is refused as soon as an attempt has no successor,
and `NeverDiverges`' argument, since a divergence would be an error shown. `WindowInv` says
that until the policy fires there is only the first run, live and armed, or an execution
with nothing left to write but its end, and that a window of the policy's can only be
the last event, with the run about to crash there. `CrashInv` counts: a crash after the side
effect loses one effect's outcome, and the next run will repeat it or has; elsewhere the effects,
and one more if an outcome is lost, are at most as many as their positions.

**The scans.** The parser and the predicates are folds and searches over a sequence, and an
induction over one needs a predicate as parameter. `FoldLemmas` is a module whose folded
operator is a constant, so that instantiating it does what the provers cannot do with a
theorem's parameter; its induction takes a set of naturals for the predicate. With them
`Folded` holds of every sequence of events: the fold stops at the first event that does
not fit the one before it, or has the last one's state. That this is `WellFormed`, which
only counts, is shown over the number of events taken: the commands opened and
settled and the attempts of the open step tell the state, and an event fits the state
exactly if it is well placed by the counts. For ordered retries the scan's value is
the number of first appearances so far, while these begin the reference. The trace
and parser lemmas hold of all traces and journals, those the runs generate among them.

**The refinement of the abstract execution.** `EngineRefines` maps a journal to the
invocation, the results, the open command and the outcome, and the effects to what the open
step's last body returned. An append is `DurableExecution`'s start, opening, answer or
end according to its kind, or nothing if it records an attempt; a body is a performance;
every other step of an engine, a kill or a replayed result is a stutter.
`RecordInv` supplies what the abstract guards ask: that the request is the code's after the
results on record, and that the answer is the last performance's.

**The file.** `AcknowledgedStay` is about the file alone and is not inductive: a power loss
keeps of the file what the disk agrees with, and a truncation what was parsed some system
calls ago. `StoreInv` adds that the frame of an event confirmed by an append that read the
file, and all before it, is the same on disk (`ConfirmedSynced`); that only the lock's holder
is in a call (`LeaseHoldsLock`, `CopiesLock`); and that what the call found is still so
(`CallFits`): what it decoded is what the file parses as, the tail after it is exactly the
parts of its frame written so far. Of an append that took the file for absent nothing of the
kind holds; of it `WritesBlind` only says that the fault it met leaves room for the rest of
its frame, within `Capacity`, so that `TypeOK` bounds the file although nothing was healed.

The lemmas beneath are about `GoodFrames` and `Parsed`: a file that holds the frames of `r`,
and no whole one after them, parses as `r` (`ParsedDetermined`), files that agree up to a
frame parse alike up to it (`ParsedAlike`), and hence a truncation and all writes but a
frame's last leave the events parsed alone, while the last adds one. A part that a blind
append writes may fall anywhere: `PartAnywhere` says that what the file parses as gains the
part's event if the part ends the file with a whole frame, and is otherwise left alone, so no
confirmed event moves. `GoodFrames` and `Kept` are maxima of sets; that these exist
(`HasMaximum`) comes from the library's well-foundedness of finite sets under inclusion,
where induction over the bound would need an operator as parameter. TLC checked `StoreInv`
on the instance of `file_store`. `Refinement` maps the write that ends the file with a whole
frame to the abstract addition, the sync after it to the confirmation, and the end of a read
to the answer of a load; healing and the other writes stutter. `MisledAnswer` takes out of
it only the answers that are wrong, not the calls: a blind append's start and writes, its
failure and its death are steps of the contract like all others, and so is everything after.

**The in-memory store.** `OwnersHaveLeases` is nearly inductive; it lacks who is inside a
critical section. `HeldMutex` says that a thread inside one holds its mutex, and that it is
not poisoned unless the thread is dropping a lease; `CallShape`, at which points of which
call a thread can be; `AppendRoom`, that a pushed event stays the last of its journal until
the call returns. `SameLeases` reduces every action that moves no lease to the moved thread.
`Refinement` maps every action to one step, or none, of the abstract store of each
execution: an event is added by the push and answered by the return, and what another
execution's thread does stutters.

**The timer.** What is left of a sleep is not a state of the deadline alone: `IInv` adds that
while something is left, `wall + left` is the deadline plus what the clock was set by during
this sleep, and that the record is as long as the process's position says, so that a
restart arms the timer from the very reading it was scheduled from.

**Only model-checked.** Liveness (`LeaseIsReleased`, `EventuallyTerminal`, `EventuallyFires`,
`CrashedRunsRecover`, `EventuallySucceeds`), which needs `ENABLED`. `Frames`, `Crc32` and
`RecordCodec` (`ParsesWhatWasWritten`, `ChecksumIsDivision`, `EventsReadBack`,
`UnreadableStops`), whose definitions are recursive or compute over bytes and JSON values:
that a frame reads back is `FileJournal`'s premise, and TLC's result.

## 5. Not modelled

* **Checksum collisions** beyond the damage `Frames` inflicts: a frame whose bytes are
  lost in several places at once can pass a 32-bit checksum.
* **The directory entry** of a new journal file is not synced (`file.rs:413`), so a power
  loss may lose the file. `FileLease`'s comment claims no power-loss durability; the model
  claims it of acknowledged events in a file that is still there.
* **Unsynced events shown to a reader.** A frame written whole whose `sync_all` failed is
  loaded by the next owner and can be lost by a later power loss. `ImplementsStore` of
  `FileJournal` is therefore about every step but the power losses; `AcknowledgedStay`
  includes them.
* **A misled answer under the engine.** `Engine` and its theorems assume `StoreContract`,
  which `FileJournal` keeps but for power losses and the answers of calls whose metadata
  call failed (`file.rs:356`). With such an answer `start` can append a second
  `ExecutionStarted` and recovery can find an execution without events; neither is an
  action of `Engine`.
* **A kernel that forgets** pages it could not write back after a failed `sync_all`.
* **`ExecutionId` generation** (`execution.rs:20`) and **`RandomBytes`**: opaque draws.
* **The text of names, payloads and errors**: the length and characters of identifiers,
  the demo's labels (`main.rs:48`), the formatting of `StepError`, printing and argument
  parsing. No state depends on them but through the values the model keeps apart.
* The bulk of the **examples**, the compile-fail tests and the build files: no state.

## 6. Plan

1. Done: the grammar, the engine, its invariant and first theorems; the abstract
   specification and the refinement by TLC; the trace predicates.
2. Done: both stores and the contract they implement, the codec and the frames of the
   file, the in-memory store's refinement as a theorem.
3. Done: timers against a clock that can be set, with their theorems; the crash driver
   over every window; the demo's processes.
4. Done: the proofs over `RecordInv`, the refinement of the abstract execution, and the file
   with its lock, for any processes, parts and faults.
5. Done: the proofs about the traces, the demo's processes, the crash driver, the parser
   and the trace predicates.
6. A run that puts `FileJournal`'s outcomes of a call under `Engine` directly, the misled
   ones included, in place of the contract both are checked against today.
