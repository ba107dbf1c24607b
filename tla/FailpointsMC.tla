---------------------------- MODULE FailpointsMC ----------------------------
(* The crash-injection drivers' workflows, for TLC. *)
EXTENDS Failpoints

CONSTANTS trial, charge, create, deadline

Do(cmd) == {cmd}
Succeed(output) == {[kind |-> "Ok", arg |-> output]}

\* A step that fails ends the run with its error.
FailedLast(obs) == obs # <<>> /\ obs[Len(obs)].kind = "StepFailed"

\* examples/signup.rs: charge the card, create the account, whose result is
\* the output.
SignupSteps(obs) ==
  CASE Len(obs) = 0 -> Do(RunStep(charge))
    [] Len(obs) = 1 -> Do(RunStep(create))
    [] OTHER -> Succeed(obs[2].value)

\* tests/crash_recovery.rs, with the account after the charge.
TrialSteps(obs) == IF obs = <<>> THEN Do(Sleep(deadline)) ELSE SignupSteps(Tail(obs))

DriverCode(definition, input, obs) ==
  IF FailedLast(obs) THEN {[kind |-> "Err", arg |-> x] : x \in WorkflowErrors}
  ELSE IF definition.workflow = trial THEN TrialSteps(obs) ELSE SignupSteps(obs)
=============================================================================
