---------------------------- MODULE PolicyStage ----------------------------
(***************************************************************************)
(* The policy stage (gateway/policy_stage.rs): the declarative policy,     *)
(* then the Wasm extension.                                                *)
(*                                                                         *)
(* The stage is a function of what its two layers answer.  An input says   *)
(*   verdict    what the declarative engine concluded: the enforced        *)
(*              verdict of evaluate_detailed_with_context, NoEngine when   *)
(*              none is loaded, Broken when it panics or its redaction is  *)
(*              not UTF-8;                                                 *)
(*   audit      whether the loaded policy runs in audit mode;              *)
(*   extension  what the Wasm extension answers when it is asked, Absent   *)
(*              when there is none, Error when it traps or panics.         *)
(***************************************************************************)
EXTENDS FailurePolicy

Verdict == {"NoEngine", "Broken", "Allow", "Block", "Confirm", "Unevaluable", "Redact"}
Extension == {"Absent", "Allow", "Block", "Rewrite", "Error"}
PolicyAnswer == [verdict : Verdict, audit : BOOLEAN, extension : Extension]

\* PolicyAssessment: the verdict, whether it ends the pipeline, the payload a
\* rewriting rule produced, and the subsystems that failed on the way.
Proceed ==
  [decision |-> "Allow", terminal |-> FALSE, payload |-> "original", failures |-> {}]

\* Mutant of AbsorbFailure: the failure is reported and its ruling left to others.
AbsorbFailureReportOnly(assessment, subsystem, failure) ==
  [assessment EXCEPT !.failures = @ \cup {subsystem}]

AbsorbFailure(assessment, subsystem, failure) ==
  LET action == Decide(failure, subsystem)
  IN  [ decision |-> IF action = "Deny" THEN "Deny"
                     ELSE IF action = "Escalate" THEN "RequireApproval"
                     ELSE assessment.decision,
        terminal |-> assessment.terminal \/ action = "Deny",
        payload  |-> IF action = "Continue" THEN assessment.payload ELSE "original",
        failures |-> assessment.failures \cup {subsystem} ]

ApplyExtension(assessment, extension, failure) ==
  CASE extension \in {"Absent", "Allow"} -> assessment
    [] extension = "Block" ->
         [assessment EXCEPT !.decision = "Deny", !.terminal = TRUE, !.payload = "original"]
    [] extension = "Rewrite" ->
         [assessment EXCEPT !.decision = "Allow", !.terminal = TRUE, !.payload = "extension"]
    [] extension = "Error" -> AbsorbFailure(assessment, "PolicyExtension", failure)

\* Mutant of Unconfigured: failing open forgets to report.
UnconfiguredSilently(extension, failure) ==
  IF failure["PolicyMissing"] = "FailOpen"
    THEN ApplyExtension(Proceed, extension, failure)
    ELSE AbsorbFailure(Proceed, "PolicyMissing", failure)

\* No declarative policy: only a posture that fails open goes on to the extension,
\* and it reports the failure all the same.
Unconfigured(extension, failure) ==
  IF failure["PolicyMissing"] = "FailOpen"
    THEN ApplyExtension([Proceed EXCEPT !.failures = {"PolicyMissing"}], extension, failure)
    ELSE AbsorbFailure(Proceed, "PolicyMissing", failure)

BlockedByPolicy == [Proceed EXCEPT !.decision = "Deny", !.terminal = TRUE]
ConfirmationRequired == [Proceed EXCEPT !.decision = "RequireApproval"]
Redacted == [Proceed EXCEPT !.terminal = TRUE, !.payload = "redacted"]

\* An audit-mode policy that would have objected: the stage records what
\* enforcement would have decided and goes on from an assessment that allows.
AuditOnly(in) == in.audit /\ in.verdict \in {"Block", "Confirm", "Unevaluable", "Redact"}

EvaluatePolicy(in, failure) ==
  CASE in.verdict = "NoEngine" -> Unconfigured(in.extension, failure)
    [] in.verdict = "Broken" -> AbsorbFailure(Proceed, "PolicyEngine", failure)
    [] in.verdict = "Allow" \/ AuditOnly(in) -> ApplyExtension(Proceed, in.extension, failure)
    [] in.verdict = "Block" /\ ~AuditOnly(in) -> BlockedByPolicy
    [] in.verdict = "Confirm" /\ ~AuditOnly(in) -> ConfirmationRequired
    [] in.verdict = "Unevaluable" /\ ~AuditOnly(in) ->
         AbsorbFailure(Proceed, "PolicyPayload", failure)
    [] in.verdict = "Redact" /\ ~AuditOnly(in) -> Redacted
=============================================================================
