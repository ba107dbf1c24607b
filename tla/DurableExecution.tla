-------------------------- MODULE DurableExecution --------------------------
(***************************************************************************)
(* What the engine promises of one execution, with no engines, leases,     *)
(* attempts, replay or crashes: the workflow's code runs once, from its    *)
(* invocation, one command at a time, and acts only on the results it has  *)
(* been given.  A step's body may be performed any number of times while   *)
(* the step is open, and never once it is resolved; the result kept is     *)
(* that of its last performance.  Engine implements this (EngineRefines).  *)
(***************************************************************************)
EXTENDS JournalEvents

CONSTANT Code(_, _, _)

VARIABLES
  invocation,  \* <<>> before the start, <<i>> after it
  results,     \* what the commands have returned, in order
  request,     \* <<>>, or <<cmd>> while a step or timer is open
  performed,   \* <<>>, or <<result>> of the open step's last performance
  outcome      \* <<>>, or the final outcome

vars == <<invocation, results, request, performed, outcome>>

Init ==
  /\ invocation = <<>> /\ results = <<>> /\ request = <<>>
  /\ performed = <<>> /\ outcome = <<>>

Start(i) ==
  /\ invocation = <<>>
  /\ invocation' = <<i>>
  /\ UNCHANGED <<results, request, performed, outcome>>

\* The code runs: no command is open and the execution has not ended.
Moves ==
  IF invocation # <<>> /\ request = <<>> /\ outcome = <<>>
    THEN Code(invocation[1].definition, invocation[1].input, results)
    ELSE {}

Open(cmd) ==
  /\ cmd \in Moves
  /\ cmd.kind \in {"RunStep", "Sleep"}
  /\ request' = <<cmd>>
  /\ UNCHANGED <<invocation, results, performed, outcome>>

Perform(result) ==
  /\ request # <<>> /\ request[1].kind = "RunStep"
  /\ result.kind \in {"StepCompleted", "StepFailed"}
  /\ performed' = <<result>>
  /\ UNCHANGED <<invocation, results, request, outcome>>

Resolve(result) ==
  /\ request # <<>>
  /\ IF request[1].kind = "RunStep" THEN performed = <<result>>
                                    ELSE result.kind = "TimerFired"
  /\ results' = Append(results, result)
  /\ request' = <<>> /\ performed' = <<>>
  /\ UNCHANGED <<invocation, outcome>>

Read(cmd, result) ==
  /\ cmd \in Moves
  /\ result.kind = RecordKind(cmd.kind)
  /\ results' = Append(results, result)
  /\ UNCHANGED <<invocation, request, performed, outcome>>

Ends == [kind : {"ExecutionCompleted"}, value : Payloads]
          \cup [kind : {"ExecutionFailed"}, value : WorkflowErrors]

Finish(end) ==
  /\ [kind |-> IF end.kind = "ExecutionCompleted" THEN "Ok" ELSE "Err",
      arg |-> end.value] \in Moves
  /\ outcome' = <<end>>
  /\ UNCHANGED <<invocation, results, request, performed>>

Next ==
  \/ \E i \in Invocations : Start(i)
  \/ \E cmd \in Commands : Open(cmd) \/ \E result \in Results : Read(cmd, result)
  \/ \E result \in Results : Perform(result) \/ Resolve(result)
  \/ \E end \in Ends : Finish(end)

Spec == Init /\ [][Next]_vars
=============================================================================
