----------------------------- MODULE WorkflowMC -----------------------------
(* Engine for TLC, over deterministic workflow code. *)
EXTENDS EngineTraces

CONSTANTS charge, notify, card, t1, heads, rejected, v1

Do(cmd) == {cmd}
Succeed(output) == {[kind |-> "Ok", arg |-> output]}
Reject == {[kind |-> "Err", arg |-> rejected]}

FailedAt(obs, k) == obs[k].kind = "StepFailed"

\* The demo workflow (main.rs): two steps; a failed step ends it, and the
\* output is the first step's result.
SignupCode(definition, input, obs) ==
  CASE Len(obs) = 0 -> Do(RunStep(charge))
    [] Len(obs) = 1 -> IF FailedAt(obs, 1) THEN Reject ELSE Do(RunStep(notify))
    [] OTHER -> IF FailedAt(obs, 2) THEN Reject ELSE Succeed(obs[1].value)

\* Code that depends on everything it may depend on: its version chooses the
\* first command, its input, a draw and a failure the next ones, and the
\* output is a result or the input.
MixedCode(definition, input, obs) ==
  CASE Len(obs) = 0 ->
         IF definition.version = v1 THEN Do(DrawRandom) ELSE Do(ReadNow)
    [] Len(obs) = 1 ->
         IF input = card THEN Do(RunStep(charge))
         ELSE IF obs[1].value = heads THEN Do(Sleep(t1)) ELSE Do(RunStep(notify))
    [] Len(obs) = 2 ->
         IF FailedAt(obs, 2) THEN Do(RunStep(notify))
         ELSE IF obs[2].kind = "StepCompleted" THEN Succeed(obs[2].value)
         ELSE Reject
    [] OTHER -> IF FailedAt(obs, 3) THEN Reject ELSE Succeed(input)

\* What the proof that replay never diverges asks of the code.
ASSUME CodeAssumption == DeterministicCode
=============================================================================
