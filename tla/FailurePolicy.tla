--------------------------- MODULE FailurePolicy ---------------------------
(***************************************************************************)
(* What every broken subsystem means (gateway/failure.rs and               *)
(* gateway/posture.rs).                                                    *)
(*                                                                         *)
(* A stage that cannot do its job reports the subsystem that failed; the   *)
(* failure policy, a function from subsystems to modes, turns the report   *)
(* into what the gateway does about it.                                    *)
(***************************************************************************)
EXTENDS Integers

Subsystem ==
  { "Normalization", "PolicyMissing", "PolicyEngine", "PolicyPayload", "PolicyExtension",
    "RiskScoring", "DlpScanner", "ThreatIntel", "Approval", "Audit", "ControlPlane",
    "Internal" }

FailureMode == {"FailOpen", "DegradeSafely", "FailClosed"}

FailureAction ==
  [FailOpen |-> "Continue", DegradeSafely |-> "Escalate", FailClosed |-> "Deny"]

-----------------------------------------------------------------------------
(* The presets. *)

Default ==
  [s \in Subsystem |->
     IF s \in {"RiskScoring", "ThreatIntel"} THEN "DegradeSafely"
     ELSE IF s \in {"Audit", "ControlPlane"} THEN "FailOpen"
     ELSE "FailClosed"]

Strict == [s \in Subsystem |-> "FailClosed"]

Observe == [s \in Subsystem |-> IF s = "Approval" THEN "FailClosed" ELSE "FailOpen"]

EnforcementPosture == {"Development", "Enforcing", "Managed"}

MissingPolicyMode(posture) ==
  IF posture = "Development" THEN "FailOpen" ELSE "FailClosed"

ForPosture(posture) ==
  [Default EXCEPT !["PolicyMissing"] = MissingPolicyMode(posture)]

\* SQREEN_FAILURE_POLICY and SQREEN_ENFORCEMENT_POSTURE together: strict and
\* observe settle every row, anything else leaves a missing policy to the posture.
FromEnv(preset, posture) ==
  CASE preset = "strict" -> Strict
    [] preset = "observe" -> Observe
    [] OTHER -> ForPosture(posture)

-----------------------------------------------------------------------------
(* Ruling on failures. *)

Decide(policy, subsystem) == FailureAction[policy[subsystem]]

\* The most severe action over a batch of failures.
Severest(policy, failures) ==
  LET verdicts == {Decide(policy, s) : s \in failures}
  IN  IF "Deny" \in verdicts THEN "Deny"
      ELSE IF "Escalate" \in verdicts THEN "Escalate"
      ELSE "Continue"
=============================================================================
