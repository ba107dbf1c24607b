-------------------------------- MODULE Demo --------------------------------
(***************************************************************************)
(* The demo binary (src/main.rs): processes launched over one journal      *)
(* directory with one seed, each of which runs the signup workflow and, if *)
(* the execution exists, recovers it instead.  Between the two the process *)
(* holds no lease.  Processes are killed, at any point, and store calls    *)
(* fail; nobody injects crashes, and the steps' bodies succeed.            *)
(***************************************************************************)
EXTENDS EngineTraces

VARIABLES
  binary,  \* the workflow definition each process is built from
  stage,   \* what main is doing
  exit     \* how the process last ended

main == <<binary, stage, exit>>

dvars == <<vars, main>>

DemoInit ==
  /\ Init
  /\ binary \in [Engines -> Definitions]
  /\ stage = [e \in Engines |-> "NotRunning"]
  /\ exit = [e \in Engines |-> "none"]

At(e, s) == stage' = [stage EXCEPT ![e] = s] /\ UNCHANGED <<binary, exit>>

Exit(e, status) ==
  /\ stage' = [stage EXCEPT ![e] = "NotRunning"]
  /\ exit' = [exit EXCEPT ![e] = status]
  /\ UNCHANGED binary

-----------------------------------------------------------------------------
(* Engine::run, and Engine::recover_and_run after ExistingExecution.       *)

Launch(e) ==
  /\ stage[e] = "NotRunning"
  /\ \E i \in Payloads : RunAcquire(e, binary[e], i)
  /\ At(e, "Run")

LaunchRefused(e) ==
  /\ stage[e] = "NotRunning"
  /\ owner # NoOwner
  /\ Exit(e, "owned")
  /\ UNCHANGED vars

RunFindsExisting(e) ==
  /\ StartExisting(e)
  /\ At(e, "Recover")

Idle(e) == stage[e] = "Recover" /\ run[e].pc = "Idle"

Retry(e) ==
  /\ Idle(e)
  /\ RecoverAcquire(e, binary[e])
  /\ UNCHANGED main

RetryRefused(e) ==
  /\ Idle(e)
  /\ owner # NoOwner
  /\ Exit(e, "owned")
  /\ UNCHANGED vars

\* Everything the call does short of returning.
Inside(e) ==
  /\ \/ StartAbsent(e) \/ RecoverRunning(e) \/ Command(e) \/ Resolve(e)
     \/ AppendThenCheckpoint(e) \/ AppendThenReturn(e) \/ AppendStart(e)
     \/ \E outcome \in Outcomes : Finish(e, outcome)
  /\ UNCHANGED main

\* The outcome on record, printed or turned into an error.
ReturnOutcome(e) ==
  /\ AppendTerminal(e) \/ RecoverTerminal(e)
  /\ Exit(e, IF journal'[Len(journal')].kind = "ExecutionCompleted" THEN "success" ELSE "failed")

ReturnFault(e) ==
  /\ FinishFaulted(e)
  /\ Exit(e, IF run[e].health = "Journal" THEN "journal" ELSE "error")

\* Every other engine error, the refusal of another version apart.
ReturnError(e) ==
  /\ RecoverRejected(e) \/ \E outcome \in Outcomes : FinishUnconsumed(e, outcome)
  /\ Exit(e, IF /\ run[e].pc = "Recovering"
                /\ RecoverError(binary[e]) = "VersionMismatch" THEN "version" ELSE "error")

-----------------------------------------------------------------------------
StoreFails(e) ==
  \/ CommandAppendFails(e) /\ UNCHANGED main
  \/ (LifecycleAppendFails(e) \/ LoadFails(e)) /\ Exit(e, "journal")

\* SIGKILL, which the engine cannot tell from a panic in a body.
KillProcess(e) ==
  \/ Kill(e) /\ Exit(e, "killed")
  \/ /\ Idle(e) /\ Interrupt
     /\ Exit(e, "killed")
     /\ UNCHANGED <<journal, owner, run, effects, replies>>

Go(e) ==
  RunFindsExisting(e) \/ Inside(e) \/ ReturnOutcome(e) \/ ReturnFault(e) \/ ReturnError(e)

DemoNext ==
  \E e \in Engines :
    \/ Launch(e) \/ LaunchRefused(e) \/ Retry(e) \/ RetryRefused(e)
    \/ Go(e) \/ StoreFails(e) \/ KillProcess(e)

DemoSpec == DemoInit /\ [][DemoNext]_dvars

\* A process that has the lease runs, and every build is launched again and
\* again.  Two processes can keep refusing each other the lease, also between
\* run and recover_and_run, so getting it is strongly fair.
DemoFairSpec ==
  DemoSpec /\ \A e \in Engines : WF_dvars(Go(e)) /\ SF_dvars(Launch(e)) /\ SF_dvars(Retry(e))

-----------------------------------------------------------------------------
(* Properties.                                                             *)

\* What main.rs is built of: versions of one workflow, whose bodies succeed
\* and whose code, a function of its results, then issues a few commands and
\* succeeds; and a step has more attempts than there are interruptions.
DemoWorkflow ==
  /\ \A x, y \in WorkflowNames : x = y
  /\ StepErrors = {}
  /\ MaxInterruptions < MaxAttempt
  /\ DeterministicCode
  /\ \A d \in Definitions, i \in Payloads, n \in Seqs : \A obs \in [1 .. n -> Results] :
       \A next \in Code(d, i, obs) :
         /\ next \in Outcomes => next.kind = "Ok"
         /\ n = MaxSeq => next \notin Commands

\* A process ends in success, is refused the lease or for its version, is
\* killed or meets a store error.  Kills, store errors and the lease changing
\* hands between run and recover_and_run never make another process see a
\* history it cannot continue, nor the workflow recorded as failed, although
\* the workflow turns every engine error into an error of its own.
OnlyInterruptionsShow == \A e \in Engines : exit[e] \notin {"failed", "error"}

\* The process and its run: a run on record is recovered by a binary of the
\* process's own definition, nothing fails but the store, and nobody is about
\* to record a failure.
ProcessOK(e) ==
  /\ stage[e] = "NotRunning" => run[e].pc = "Idle"
  /\ stage[e] = "Recover" => journal # <<>>
  /\ run[e].pc = "Recovering" => journal # <<>> /\ run[e].definition = binary[e]
  /\ run[e].health \in {"Healthy", "Journal"}
  /\ run[e].pc = "Appending" => run[e].pending.kind # "ExecutionFailed"

\* Inductive over the invariants of Engine.
DemoInv ==
  /\ binary \in [Engines -> Definitions]
  /\ stage \in [Engines -> {"NotRunning", "Run", "Recover"}]
  /\ exit \in [Engines -> {"none", "owned", "success", "failed", "version", "journal",
                          "killed", "error"}]
  /\ \A e \in Engines : ProcessOK(e)
  /\ \A i \in DOMAIN journal : journal[i].kind # "ExecutionFailed"
  /\ OnlyInterruptionsShow

\* Launched again and again the demo succeeds, whatever was killed before
\* (tests/kill9.rs).
EventuallySucceeds == <>(\E e \in Engines : exit[e] = "success")
=============================================================================
