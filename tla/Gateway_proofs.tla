--------------------------- MODULE Gateway_proofs ---------------------------
(***************************************************************************)
(* Proofs about Gateway for every set of evaluators, actions, answers of   *)
(* the policy layers, findings of the scanners and deployments.            *)
(*                                                                         *)
(* The operators of the stages come first: what EvaluatePolicy and         *)
(* AssessRisk promise the gateway about the decision they give and the     *)
(* failures they report.  The invariant has one part for what an           *)
(* evaluation carries from stage to stage and one for the shared vault of  *)
(* grants, each proved by cases on the actions.                            *)
(***************************************************************************)
EXTENDS Gateway, WellFoundedInduction, TLAPS

Payload == {"original", "extension", "redacted", "masked"}
Decision == {"Allow", "Deny", "RequireApproval"}

PolicyAssessment ==
  [decision : Decision, terminal : BOOLEAN, payload : Payload, failures : SUBSET Subsystem]

RiskAssessment ==
  [ requiresApproval : BOOLEAN, level : {"Low", "Medium", "High", "Critical"},
    payload : Payload, failures : SUBSET Subsystem ]

FailureModes == [Subsystem -> FailureMode]

-----------------------------------------------------------------------------
(* The policy stage. *)

\* What the stage owes the gateway: an assessment that allows has waived every
\* failure it reports by a mode that fails open, one that does not deny has met no
\* failure that must be closed, and a denial ends the pipeline.
Sound(p, failure) ==
  /\ p \in PolicyAssessment
  /\ p.decision = "Allow" => \A s \in p.failures : failure[s] = "FailOpen"
  /\ p.decision = "RequireApproval" =>
       ~p.terminal /\ \A s \in p.failures : failure[s] # "FailClosed"
  /\ p.decision = "Deny" => p.terminal

\* A ruling is one of three, one for each mode.
LEMMA DecideByMode ==
  ASSUME NEW failure \in FailureModes, NEW s \in Subsystem
  PROVE  /\ Decide(failure, s) \in {"Deny", "Escalate", "Continue"}
         /\ Decide(failure, s) = "Continue" <=> failure[s] = "FailOpen"
         /\ Decide(failure, s) = "Escalate" <=> failure[s] = "DegradeSafely"
         /\ Decide(failure, s) = "Deny" <=> failure[s] = "FailClosed"
BY DEF Decide, FailureAction, FailureModes, FailureMode

\* PolicyAssessment::absorb_failure on an assessment that allowed so far.
LEMMA AbsorbSound ==
  ASSUME NEW failure \in FailureModes, NEW s \in Subsystem, NEW p,
         Sound(p, failure), p.decision = "Allow", ~p.terminal
  PROVE  /\ Sound(AbsorbFailure(p, s, failure), failure)
         /\ AbsorbFailure(p, s, failure).failures = p.failures \cup {s}
<1> DEFINE q == AbsorbFailure(p, s, failure)
           action == Decide(failure, s)
<1>1. /\ q.failures = p.failures \cup {s}
      /\ q.terminal = (p.terminal \/ action = "Deny")
      /\ q.decision = IF action = "Deny" THEN "Deny"
                      ELSE IF action = "Escalate" THEN "RequireApproval" ELSE p.decision
      /\ q.payload = IF action = "Continue" THEN p.payload ELSE "original"
      /\ q = [decision |-> q.decision, terminal |-> q.terminal,
              payload |-> q.payload, failures |-> q.failures]
  BY DEF AbsorbFailure
<1>2. action \in {"Deny", "Escalate", "Continue"}
  BY DecideByMode
<1>3. q \in PolicyAssessment
  BY <1>1 DEF Sound, PolicyAssessment, Payload, Decision
<1>. QED  BY <1>1, <1>2, <1>3, DecideByMode DEF Sound

\* The extension is asked only by an assessment that allows so far.
LEMMA ExtensionSound ==
  ASSUME NEW failure \in FailureModes, NEW extension \in Extension, NEW p,
         Sound(p, failure), p.decision = "Allow", ~p.terminal
  PROVE  /\ Sound(ApplyExtension(p, extension, failure), failure)
         /\ p.failures \subseteq ApplyExtension(p, extension, failure).failures
<1> DEFINE q == ApplyExtension(p, extension, failure)
<1>1. CASE extension \in {"Absent", "Allow"}
  <2>1. q = p
    BY <1>1 DEF ApplyExtension
  <2>. QED  BY <2>1
<1>2. CASE extension = "Block"
  <2>1. q = [p EXCEPT !.decision = "Deny", !.terminal = TRUE, !.payload = "original"]
    BY <1>2 DEF ApplyExtension
  <2>. QED  BY <2>1 DEF Sound, PolicyAssessment, Payload, Decision
<1>3. CASE extension = "Rewrite"
  <2>1. q = [p EXCEPT !.decision = "Allow", !.terminal = TRUE, !.payload = "extension"]
    BY <1>3 DEF ApplyExtension
  <2>. QED  BY <2>1 DEF Sound, PolicyAssessment, Payload, Decision
<1>4. CASE extension = "Error"
  <2>1. q = AbsorbFailure(p, "PolicyExtension", failure)
    BY <1>4 DEF ApplyExtension
  <2>. QED  BY <2>1, AbsorbSound DEF Subsystem
<1>. QED  BY <1>1, <1>2, <1>3, <1>4 DEF Extension

\* PolicyAssessment::proceed allows and has nothing to report.
LEMMA ProceedSound ==
  ASSUME NEW failure
  PROVE  Sound(Proceed, failure) /\ Proceed.decision = "Allow" /\ ~Proceed.terminal
BY DEF Sound, Proceed, PolicyAssessment, Decision, Payload

\* PolicyStage::evaluate, for every answer of its layers and every failure policy: it
\* is sound, a missing policy is reported, and what an enforced confirm rule asks
\* for reaches the gateway.
LEMMA PolicyStageSound ==
  ASSUME NEW in \in PolicyAnswer, NEW failure \in FailureModes
  PROVE  /\ Sound(EvaluatePolicy(in, failure), failure)
         /\ in.verdict = "NoEngine" =>
              "PolicyMissing" \in EvaluatePolicy(in, failure).failures
         /\ in.verdict = "Confirm" /\ ~in.audit =>
              EvaluatePolicy(in, failure).decision = "RequireApproval"
<1> DEFINE p == EvaluatePolicy(in, failure)
<1>1. in.verdict \in Verdict /\ in.extension \in Extension /\ in.audit \in BOOLEAN
  BY DEF PolicyAnswer
<1>2. CASE in.verdict = "NoEngine"
  <2> DEFINE missing == [Proceed EXCEPT !.failures = {"PolicyMissing"}]
  <2>1. p = Unconfigured(in.extension, failure)
    BY <1>2 DEF EvaluatePolicy, AuditOnly
  <2>2. CASE failure["PolicyMissing"] = "FailOpen"
    <3>1. Sound(missing, failure) /\ missing.decision = "Allow" /\ ~missing.terminal
      BY <2>2 DEF Sound, Proceed, PolicyAssessment, Decision, Payload, Subsystem
    <3>2. "PolicyMissing" \in missing.failures
      BY DEF Proceed
    <3>3. p = ApplyExtension(missing, in.extension, failure)
      BY <2>1, <2>2 DEF Unconfigured
    <3>. HIDE DEF missing, p
    <3>4. Sound(p, failure) /\ "PolicyMissing" \in p.failures
      BY <1>1, <3>1, <3>2, <3>3, ExtensionSound
    <3>. QED  BY <1>2, <3>4 DEF p
  <2>3. CASE failure["PolicyMissing"] # "FailOpen"
    <3>1. p = AbsorbFailure(Proceed, "PolicyMissing", failure)
      BY <2>1, <2>3 DEF Unconfigured
    <3>2. "PolicyMissing" \in Subsystem
      BY DEF Subsystem
    <3>3. Sound(p, failure) /\ p.failures = Proceed.failures \cup {"PolicyMissing"}
      BY <3>1, <3>2, ProceedSound, AbsorbSound
    <3>. QED  BY <1>2, <3>3
  <2>. QED  BY <2>2, <2>3
<1>3. CASE in.verdict = "Broken"
  <2>1. p = AbsorbFailure(Proceed, "PolicyEngine", failure)
    BY <1>3 DEF EvaluatePolicy, AuditOnly
  <2>. QED  BY <1>3, <2>1, ProceedSound, AbsorbSound DEF Subsystem
<1>4. CASE in.verdict = "Allow" \/ AuditOnly(in)
  <2>1. p = ApplyExtension(Proceed, in.extension, failure)
    BY <1>4 DEF EvaluatePolicy, AuditOnly
  <2>2. Sound(p, failure)
    BY <1>1, <2>1, ProceedSound, ExtensionSound
  <2>. QED  BY <1>1, <1>4, <2>2 DEF AuditOnly
<1>5. CASE in.verdict = "Block" /\ ~AuditOnly(in)
  <2>1. p = BlockedByPolicy
    BY <1>5 DEF EvaluatePolicy
  <2>2. p = [decision |-> "Deny", terminal |-> TRUE, payload |-> "original", failures |-> {}]
    BY <2>1 DEF BlockedByPolicy, Proceed
  <2>. QED  BY <1>5, <2>2 DEF Sound, PolicyAssessment, Decision, Payload
<1>6. CASE in.verdict = "Confirm" /\ ~AuditOnly(in)
  <2>1. p = ConfirmationRequired
    BY <1>6 DEF EvaluatePolicy
  <2>. QED  BY <1>6, <2>1
            DEF ConfirmationRequired, Sound, Proceed, PolicyAssessment, Decision, Payload
<1>7. CASE in.verdict = "Unevaluable" /\ ~AuditOnly(in)
  <2>1. p = AbsorbFailure(Proceed, "PolicyPayload", failure)
    BY <1>7 DEF EvaluatePolicy
  <2>. QED  BY <1>7, <2>1, ProceedSound, AbsorbSound DEF Subsystem
<1>8. CASE in.verdict = "Redact" /\ ~AuditOnly(in)
  <2>1. p = Redacted
    BY <1>8 DEF EvaluatePolicy
  <2>2. p = [decision |-> "Allow", terminal |-> TRUE, payload |-> "redacted", failures |-> {}]
    BY <2>1 DEF Redacted, Proceed
  <2>. QED  BY <1>8, <2>2 DEF Sound, PolicyAssessment, Decision, Payload
<1>. QED  BY <1>1, <1>2, <1>3, <1>4, <1>5, <1>6, <1>7, <1>8 DEF Verdict

-----------------------------------------------------------------------------
(* The risk stage. *)

\* Severest is Continue only when every failure of the batch is waived, and Deny as
\* soon as one of them must be closed.
LEMMA SeverestByMode ==
  ASSUME NEW failure \in FailureModes, NEW failures \in SUBSET Subsystem
  PROVE  /\ Severest(failure, failures) # "Deny" =>
              \A s \in failures : failure[s] # "FailClosed"
         /\ Severest(failure, failures) \notin {"Deny", "Escalate"} =>
              \A s \in failures : failure[s] = "FailOpen"
BY DecideByMode DEF Severest

\* Any nonempty set of naturals with a bound has a greatest member.
LEMMA MaxOfBounded ==
  ASSUME NEW S \in SUBSET Nat, S # {}, NEW bound \in Nat, \A x \in S : x <= bound
  PROVE  Max(S) \in S /\ \A x \in S : x <= Max(S)
<1> DEFINE T == {n \in Nat : \E x \in S : n = bound - x}
<1>1. T \subseteq Nat /\ T # {}
  <2>1. PICK x \in S : TRUE
    OBVIOUS
  <2>2. bound - x \in T
    BY <2>1
  <2>. QED  BY <2>2
<1>2. PICK y \in T : \A z \in T : ~(<<z, y>> \in OpToRel(<, Nat))
  BY <1>1, NatLessThanWellFounded, WFMin
<1>3. \A z \in T : ~(z < y)
  BY <1>1, <1>2 DEF OpToRel
<1>4. PICK x \in S : y = bound - x
  OBVIOUS
<1>5. ASSUME NEW w \in S PROVE x >= w
  <2>1. bound - w \in T /\ x \in Nat /\ w \in Nat
    OBVIOUS
  <2>2. ~(bound - w < y)
    BY <1>3, <2>1
  <2>. QED  BY <1>4, <2>1, <2>2
<1>. QED  BY <1>4, <1>5 DEF Max

\* RiskStage::evaluate: an indicator match needs an approval, and so does a score at
\* the threshold that no masking remedies, whichever signal it comes from.
LEMMA RiskStageSound ==
  ASSUME NEW in \in RiskAnswer
  PROVE  /\ AssessRisk(in, Threshold) \in RiskAssessment
         /\ \/ in.ioc
            \/ ~in.content.masked /\ in.content.score >= Threshold
            \/ ~in.content.masked /\ \E s \in in.signals : Signal[s] >= Threshold
            => AssessRisk(in, Threshold).requiresApproval
<1> DEFINE risk == AssessRisk(in, Threshold)
           score == in.content.score
           values == Contributions(Factors(in)) \cup {0}
<1>1. /\ score \in Nat /\ in.signals \subseteq DOMAIN Signal
      /\ in.ioc \in BOOLEAN /\ in.content.masked \in BOOLEAN /\ Threshold \in Nat
  BY BoundsAssumption DEF RiskAnswer
<1>2. \A s \in in.signals : Signal[s] \in Nat /\ Signal[s] <= 80
  BY <1>1 DEF Signal
<1>3. \A f \in Factors(in) : f[2] \in Nat /\ f[2] <= 85
  BY <1>1, <1>2 DEF Factors, Lesser
<1>4. values \in SUBSET Nat /\ values # {} /\ \A x \in values : x <= 85
  BY <1>3 DEF Contributions
<1>5. \A s \in in.signals : Signal[s] \in values
  <2>. SUFFICES ASSUME NEW s \in in.signals PROVE Signal[s] \in Contributions(Factors(in))
    OBVIOUS
  <2> DEFINE f == <<s, Signal[s]>>
  <2>1. f \in Factors(in) /\ f[2] = Signal[s]
    BY DEF Factors
  <2>. HIDE DEF f
  <2>. QED  BY <2>1 DEF Contributions
<1>. HIDE DEF values
<1>6. Max(values) \in values /\ \A x \in values : x <= Max(values)
  BY <1>4, MaxOfBounded
<1>7. Explained(in) = Max(values) /\ Explained(in) \in Nat
  BY <1>4, <1>6 DEF Explained, Lesser, values
<1>8. /\ EffectiveScore(in) \in Nat
      /\ EffectiveScore(in) >= Explained(in)
      /\ EffectiveScore(in) >= score
  <2> DEFINE both == {Explained(in), score}
             bound == Explained(in) + score
  <2>1. both \in SUBSET Nat /\ both # {} /\ bound \in Nat /\ \A x \in both : x <= bound
    BY <1>1, <1>7
  <2>2. Explained(in) \in both /\ score \in both
    OBVIOUS
  <2>. HIDE DEF both, bound
  <2>3. Max(both) \in both /\ \A x \in both : x <= Max(both)
    BY <2>1, MaxOfBounded
  <2>4. EffectiveScore(in) = Max(both)
    BY DEF EffectiveScore, both
  <2>. QED  BY <2>1, <2>2, <2>3, <2>4
<1>9. /\ in.ioc => risk.requiresApproval
      /\ ~in.content.masked /\ EffectiveScore(in) >= Threshold => risk.requiresApproval
  BY DEF AssessRisk, GateScore, RemediableMaskedSecret
<1>10. risk \in RiskAssessment
  <2>1. risk.level \in {"Low", "Medium", "High", "Critical"}
    BY DEF AssessRisk, LevelFor
  <2>2. RiskFailures(in) \in SUBSET Subsystem
    BY DEF RiskFailures, Subsystem
  <2>3. risk.requiresApproval \in BOOLEAN
    BY DEF AssessRisk
  <2>4. risk.payload \in Payload
    BY DEF AssessRisk, Payload
  <2>. QED  BY <2>1, <2>2, <2>3, <2>4 DEF AssessRisk, RiskAssessment
<1>. QED
  <2>1. ASSUME NEW s \in in.signals, Signal[s] >= Threshold
        PROVE  EffectiveScore(in) >= Threshold
    BY <1>1, <1>2, <1>5, <1>6, <1>7, <1>8, <2>1
  <2>2. score >= Threshold => EffectiveScore(in) >= Threshold
    BY <1>1, <1>8
  <2>. QED  BY <1>9, <1>10, <2>1, <2>2

-----------------------------------------------------------------------------
(* The invariant of an evaluation. *)

Marker ==
  {"security_failure", "policy", "approval"}
    \X (Subsystem \cup Decision \cup Approvals \cup NoJudgment
         \cup {"Denied", "Approved", "Skipped"})

Judgment == {"none", "Denied"} \cup Approvals \cup NoJudgment

EvaluationRecord ==
  [ pc : {"inspected", "granted", "prompting", "answered", "settled"}, action : Action,
    saw : PolicyAnswer, scan : RiskAnswer, policy : PolicyAssessment, risk : RiskAssessment,
    trail : SUBSET Marker, auditFailed : BOOLEAN, recorded : Nat,
    grant : Nat, answer : Judgment, until : Nat,
    decision : {"none"} \cup Decision, payload : Payload ]

\* What the stages answered, which nothing after Inspect changes.
Inspected(x) ==
  /\ x.policy = EvaluatePolicy(x.saw, config.failure)
  /\ x.risk = AssessRisk(x.scan, Threshold)

Refused(x) == ControlPlaneRefuses(x) \/ x.policy.terminal \/ RiskFailure(x) = "Deny"

\* The evaluation asked for an approval: no stage refused it and both have reported.
AtApproval(x) == ~Refused(x) /\ StageMarkers(x) \subseteq x.trail

\* What the properties say of one settled evaluation.
Waived(x) ==
  x.decision = "Allow" =>
    \A s \in Reported(x) :
      \/ config.failure[s] = "FailOpen"
      \/ config.failure[s] = "DegradeSafely" /\ Cleared(x)

Asked(x) ==
  \/ x.saw.verdict = "Confirm" /\ ~x.saw.audit
  \/ /\ ~x.policy.terminal
     /\ \/ x.scan.ioc
        \/ ~x.scan.content.masked /\ x.scan.content.score >= Threshold
        \/ ~x.scan.content.masked /\ \E s \in x.scan.signals : Signal[s] >= Threshold

Explicit(x) == x.decision = "Allow" /\ Asked(x) => Cleared(x)

Audited(x) ==
  ~ControlPlaneRefuses(x) =>
    /\ Markers(Reported(x)) \subseteq x.trail
    /\ x.saw.verdict = "NoEngine" => Markers({"PolicyMissing"}) \subseteq x.trail
    /\ x.answer \in NoJudgment => Markers({"Approval"}) \subseteq x.trail

Logged(x) == config.failure["Audit"] = "FailClosed" /\ x.decision = "Allow" => ~x.auditFailed

Recorded(x) == x.recorded = IF Refused(x) THEN 0 ELSE 1

Outcome(x) == Waived(x) /\ Explicit(x) /\ Audited(x) /\ Logged(x) /\ Recorded(x)

\* Where an evaluation is, and what is true of it there.
Progress(x) ==
  /\ x.pc = "inspected" => x.recorded = 0 /\ x.answer = "none" /\ x.grant = NoToken
  /\ x.pc = "granted" =>
       AtApproval(x) /\ x.recorded = 0 /\ x.answer = "none" /\ x.grant # NoToken
  /\ x.pc = "prompting" => AtApproval(x) /\ x.recorded = 0 /\ x.answer = "none"
  /\ x.pc = "answered" => AtApproval(x) /\ x.recorded = 1 /\ x.answer # "none"
  /\ x.pc = "settled" => Outcome(x)

EvaluationOk(x) == x \in EvaluationRecord /\ Inspected(x) /\ Progress(x)

-----------------------------------------------------------------------------
(* How the steps of an evaluation change its record. *)

\* What no step after Inspect changes, but for the token ridden on and the answer.
SameCase(x, y) ==
  /\ y.action = x.action /\ y.saw = x.saw /\ y.scan = x.scan
  /\ y.policy = x.policy /\ y.risk = x.risk

SameApproval(x, y) == y.grant = x.grant /\ y.answer = x.answer

\* Emit adds to the trail, and remembers a record the sink refused.
LEMMA EmitFrame ==
  ASSUME NEW x \in EvaluationRecord, NEW m \in SUBSET Marker, NEW accepted \in BOOLEAN
  PROVE  LET y == Emit(x, m, accepted)
         IN  /\ y \in EvaluationRecord
             /\ y.trail = x.trail \cup m
             /\ SameCase(x, y) /\ SameApproval(x, y)
             /\ y.pc = x.pc /\ y.recorded = x.recorded
<1> DEFINE failed == x.auditFailed \/ ~accepted
           y == Emit(x, m, accepted)
<1>1. failed \in BOOLEAN /\ x.trail \cup m \in SUBSET Marker
  BY DEF EvaluationRecord
<1>2. y = [x EXCEPT !.trail = x.trail \cup m, !.auditFailed = failed]
  BY DEF Emit, EvaluationRecord
<1>. HIDE DEF failed, y
<1>3. /\ y \in EvaluationRecord
      /\ y.trail = x.trail \cup m
      /\ SameCase(x, y) /\ SameApproval(x, y)
      /\ y.pc = x.pc /\ y.recorded = x.recorded
  BY <1>1, <1>2 DEF EvaluationRecord, SameCase, SameApproval
<1>. QED  BY <1>3 DEF y

\* The session records once more.
LEMMA RecordFrame ==
  ASSUME NEW x \in EvaluationRecord
  PROVE  LET y == RecordInSession(x)
         IN  /\ y \in EvaluationRecord
             /\ y.recorded = x.recorded + 1
             /\ SameCase(x, y) /\ SameApproval(x, y)
             /\ y.pc = x.pc /\ y.trail = x.trail
BY DEF RecordInSession, EvaluationRecord, SameCase, SameApproval

\* Trace::finish settles with the decision it is given or with a denial, and never
\* with an allow when a mandatory audit trail is incomplete.
LEMMA FinishFrame ==
  ASSUME NEW x \in EvaluationRecord, NEW d \in Decision, NEW p \in Payload
  PROVE  LET y == Finish(x, d, p)
         IN  /\ y \in EvaluationRecord
             /\ y.pc = "settled" /\ (y.decision = "Allow" => d = "Allow") /\ Logged(y)
             /\ SameCase(x, y) /\ SameApproval(x, y)
             /\ y.trail = x.trail /\ y.recorded = x.recorded
<1> DEFINE refused == x.auditFailed /\ config.failure["Audit"] = "FailClosed"
           e == IF refused THEN "Deny" ELSE d
           y == Finish(x, d, p)
<1>1. e \in Decision /\ (e = "Allow" => d = "Allow" /\ ~refused)
  BY DEF Decision
<1>2. y = [x EXCEPT !.pc = "settled", !.decision = e, !.payload = p]
  BY DEF Finish
<1>. HIDE DEF e, y
<1>3. /\ y \in EvaluationRecord
      /\ y.pc = "settled" /\ y.decision = e /\ y.auditFailed = x.auditFailed
      /\ SameCase(x, y) /\ SameApproval(x, y)
      /\ y.trail = x.trail /\ y.recorded = x.recorded
  BY <1>1, <1>2 DEF EvaluationRecord, SameCase, SameApproval
<1>4. (y.decision = "Allow" => d = "Allow") /\ Logged(y)
  BY <1>1, <1>3 DEF Logged
<1>. QED  BY <1>3, <1>4 DEF y

\* An allow carries the payload of the risk stage, a denial the original one.
LEMMA FinishAllowFrame ==
  ASSUME NEW x \in EvaluationRecord
  PROVE  LET y == FinishAllow(x)
         IN  /\ y \in EvaluationRecord
             /\ y.pc = "settled" /\ Logged(y)
             /\ SameCase(x, y) /\ SameApproval(x, y)
             /\ y.trail = x.trail /\ y.recorded = x.recorded
<1> DEFINE z == Finish(x, "Allow", x.risk.payload)
           y == FinishAllow(x)
<1>1. x.risk.payload \in Payload /\ "Allow" \in Decision /\ "original" \in Payload
  BY DEF EvaluationRecord, RiskAssessment, Decision, Payload
<1>2. y = IF z.decision = "Allow" THEN z ELSE [z EXCEPT !.payload = "original"]
  BY DEF FinishAllow
<1>3. /\ z \in EvaluationRecord /\ z.pc = "settled" /\ Logged(z)
      /\ SameCase(x, z) /\ SameApproval(x, z)
      /\ z.trail = x.trail /\ z.recorded = x.recorded
  BY <1>1, FinishFrame
<1>. HIDE DEF z, y
<1>4. /\ y \in EvaluationRecord /\ y.pc = z.pc
      /\ y.decision = z.decision /\ y.auditFailed = z.auditFailed
      /\ SameCase(z, y) /\ SameApproval(z, y)
      /\ y.trail = z.trail /\ y.recorded = z.recorded
  BY <1>1, <1>2, <1>3 DEF EvaluationRecord, SameCase, SameApproval
<1>5. /\ y \in EvaluationRecord
      /\ y.pc = "settled" /\ Logged(y)
      /\ SameCase(x, y) /\ SameApproval(x, y)
      /\ y.trail = x.trail /\ y.recorded = x.recorded
  BY <1>3, <1>4 DEF SameCase, SameApproval, Logged
<1>. QED  BY <1>5 DEF y

\* What the two stages answered says how far the evaluation may go: one that no
\* stage refused has met no failure that must be closed, and one that needs no
\* approval has had every failure waived and asks for none.
LEMMA StageFacts ==
  ASSUME config \in Config, NEW x \in EvaluationRecord, Inspected(x)
  PROVE  /\ x.saw.verdict = "NoEngine" => "PolicyMissing" \in x.policy.failures
         /\ ~Refused(x) => \A s \in Reported(x) : config.failure[s] # "FailClosed"
         /\ ~Refused(x) /\ ~NeedsApproval(x) =>
              ~Asked(x) /\ \A s \in Reported(x) : config.failure[s] = "FailOpen"
         /\ x.policy.terminal /\ x.policy.decision = "Allow" =>
              ~Asked(x) /\ \A s \in Reported(x) : config.failure[s] = "FailOpen"
<1>1. config.failure \in FailureModes
  BY ConfigAssumption DEF FailureModes
<1>2. x.saw \in PolicyAnswer /\ x.scan \in RiskAnswer
  BY DEF EvaluationRecord
<1>3. /\ Sound(x.policy, config.failure)
      /\ x.saw.verdict = "NoEngine" => "PolicyMissing" \in x.policy.failures
      /\ x.saw.verdict = "Confirm" /\ ~x.saw.audit => x.policy.decision = "RequireApproval"
  BY <1>1, <1>2, PolicyStageSound DEF Inspected
<1>4. /\ x.risk.failures \in SUBSET Subsystem
      /\ ~x.policy.terminal /\ Asked(x) =>
           x.risk.requiresApproval \/ x.policy.decision = "RequireApproval"
  BY <1>2, <1>3, RiskStageSound DEF Inspected, RiskAssessment, Asked
<1>5. x.policy.decision \in Decision
  BY DEF EvaluationRecord, PolicyAssessment
<1>6. /\ RiskFailure(x) # "Deny" => \A s \in x.risk.failures : config.failure[s] # "FailClosed"
      /\ RiskFailure(x) \notin {"Deny", "Escalate"} =>
           \A s \in x.risk.failures : config.failure[s] = "FailOpen"
  BY <1>1, <1>4, SeverestByMode DEF RiskFailure
<1>7. ~Refused(x) => \A s \in Reported(x) : config.failure[s] # "FailClosed"
  <2>. SUFFICES ASSUME ~Refused(x), NEW s \in Reported(x) PROVE config.failure[s] # "FailClosed"
    OBVIOUS
  <2>1. ~x.policy.terminal /\ RiskFailure(x) # "Deny"
    BY DEF Refused
  <2>2. CASE s \in x.policy.failures
    BY <1>3, <1>5, <2>1, <2>2 DEF Sound, Decision
  <2>3. CASE s \in x.risk.failures
    BY <1>6, <2>1, <2>3
  <2>. QED  BY <2>1, <2>2, <2>3 DEF Reported
<1>8. ~Refused(x) /\ ~NeedsApproval(x) =>
        ~Asked(x) /\ \A s \in Reported(x) : config.failure[s] = "FailOpen"
  <2>. SUFFICES ASSUME ~Refused(x), ~NeedsApproval(x)
                PROVE  ~Asked(x) /\ \A s \in Reported(x) : config.failure[s] = "FailOpen"
    OBVIOUS
  <2>1. ~x.policy.terminal /\ RiskFailure(x) \notin {"Deny", "Escalate"}
    BY DEF Refused, NeedsApproval
  <2>2. x.policy.decision = "Allow" /\ ~x.risk.requiresApproval
    BY <1>3, <1>5, <2>1 DEF NeedsApproval, Sound, Decision
  <2>. QED  BY <1>3, <1>4, <1>6, <2>1, <2>2 DEF Sound, Reported
<1>9. x.policy.terminal /\ x.policy.decision = "Allow" =>
        ~Asked(x) /\ \A s \in Reported(x) : config.failure[s] = "FailOpen"
  BY <1>3 DEF Sound, Asked, Reported
<1>. QED  BY <1>3, <1>7, <1>8, <1>9

\* Every marker the gateway emits for failures is one.
LEMMA MarkersOfFailures ==
  /\ \A f \in SUBSET Subsystem : Markers(f) \in SUBSET Marker
  /\ \A x \in EvaluationRecord :
       /\ StageMarkers(x) \in SUBSET Marker
       /\ Markers(x.policy.failures) \in SUBSET Marker
       /\ Reported(x) \in SUBSET Subsystem
<1>1. \A f \in SUBSET Subsystem : Markers(f) \in SUBSET Marker
  BY DEF Markers, Marker
<1>2. ASSUME NEW x \in EvaluationRecord
      PROVE  x.policy.failures \in SUBSET Subsystem /\ x.risk.failures \in SUBSET Subsystem
  BY DEF EvaluationRecord, PolicyAssessment, RiskAssessment
<1>. QED  BY <1>1, <1>2 DEF StageMarkers, Reported

\* The markers of fewer failures are fewer.
LEMMA MarkersMonotone ==
  ASSUME NEW f, NEW g, f \subseteq g
  PROVE  Markers(f) \subseteq Markers(g)
BY DEF Markers

\* Judgments about an evaluation depend on what no later step changes.
LEMMA SameJudgment ==
  ASSUME NEW x, NEW y, SameCase(x, y)
  PROVE  /\ Inspected(x) => Inspected(y)
         /\ Refused(y) = Refused(x)
         /\ ControlPlaneRefuses(y) = ControlPlaneRefuses(x)
         /\ Reported(y) = Reported(x)
         /\ StageMarkers(y) = StageMarkers(x)
         /\ Asked(y) = Asked(x)
BY DEF SameCase, Inspected, Refused, ControlPlaneRefuses, Reported, StageMarkers, Asked,
       RiskFailure

\* A settled record satisfies the invariant when each part of its outcome does.
LEMMA SettledOk ==
  ASSUME NEW y \in EvaluationRecord, Inspected(y), y.pc = "settled", Outcome(y)
  PROVE  EvaluationOk(y)
BY DEF EvaluationOk, Progress

\* A gateway that requires an absent control plane denies before any stage.
LEMMA DetachedOk ==
  ASSUME config \in Config, NEW x, EvaluationOk(x), x.pc = "inspected",
         ControlPlaneRefuses(x), NEW accepted \in BOOLEAN
  PROVE  LET y == Finish(Emit(x, Markers({"ControlPlane"}), accepted), "Deny", "original")
         IN  EvaluationOk(y) /\ y.grant = x.grant
<1> DEFINE m == Markers({"ControlPlane"})
           z == Emit(x, m, accepted)
           y == Finish(z, "Deny", "original")
<1>1. x \in EvaluationRecord /\ Inspected(x) /\ x.recorded = 0
  BY DEF EvaluationOk, Progress
<1>2. {"ControlPlane"} \in SUBSET Subsystem
  BY DEF Subsystem
<1>3. m \in SUBSET Marker
  BY <1>2, MarkersOfFailures
<1>. HIDE DEF m
<1>4. /\ z \in EvaluationRecord /\ z.recorded = 0
      /\ SameCase(x, z) /\ SameApproval(x, z)
  BY <1>1, <1>3, EmitFrame
<1>. HIDE DEF z
<1>5. /\ y \in EvaluationRecord /\ y.recorded = 0 /\ y.pc = "settled"
      /\ (y.decision = "Allow" => "Deny" = "Allow") /\ Logged(y)
      /\ SameCase(z, y) /\ SameApproval(z, y)
  BY <1>4, FinishFrame DEF Decision, Payload
<1>. HIDE DEF y
<1>6. SameCase(x, y) /\ y.grant = x.grant
  BY <1>4, <1>5 DEF SameCase, SameApproval
<1>7. Inspected(y) /\ ControlPlaneRefuses(y) /\ Refused(y)
  BY <1>1, <1>6, SameJudgment DEF Refused
<1>8. Outcome(y)
  BY <1>5, <1>7 DEF Outcome, Waived, Explicit, Audited, Recorded
<1>9. EvaluationOk(y) /\ y.grant = x.grant
  BY <1>5, <1>6, <1>7, <1>8, SettledOk
<1>. QED  BY <1>9 DEF y, z, m

\* The outcome a policy stage that ends the pipeline settles: a denial, or an allow
\* with every failure waived.
LEMMA PolicySettlesOk ==
  ASSUME config \in Config, NEW x, EvaluationOk(x), x.pc = "inspected",
         x.policy.terminal, NEW accepted \in BOOLEAN
  PROVE  LET y == Finish(Emit(x, Markers(x.policy.failures) \cup {<<"policy", x.policy.decision>>},
                              accepted),
                         x.policy.decision, x.policy.payload)
         IN  EvaluationOk(y) /\ y.grant = x.grant
<1> DEFINE m == Markers(x.policy.failures) \cup {<<"policy", x.policy.decision>>}
           z == Emit(x, m, accepted)
           y == Finish(z, x.policy.decision, x.policy.payload)
<1>1. x \in EvaluationRecord /\ Inspected(x) /\ x.recorded = 0 /\ x.answer = "none"
  BY DEF EvaluationOk, Progress
<1>2. x.policy.decision \in Decision /\ x.policy.payload \in Payload
  BY <1>1 DEF EvaluationRecord, PolicyAssessment
<1>3. m \in SUBSET Marker
  <2>1. <<"policy", x.policy.decision>> \in Marker
    BY <1>2 DEF Marker
  <2>. QED  BY <1>1, <2>1, MarkersOfFailures
<1>4. Markers(x.policy.failures) \subseteq m
  OBVIOUS
<1>. HIDE DEF m
<1>5. /\ z \in EvaluationRecord /\ z.recorded = 0 /\ z.trail = x.trail \cup m
      /\ SameCase(x, z) /\ SameApproval(x, z)
  <2>1. /\ z \in EvaluationRecord /\ z.trail = x.trail \cup m /\ z.recorded = x.recorded
        /\ SameCase(x, z) /\ SameApproval(x, z)
    BY <1>1, <1>3, EmitFrame
  <2>. QED  BY <1>1, <2>1
<1>. HIDE DEF z
<1>6. /\ y \in EvaluationRecord /\ y.recorded = 0 /\ y.pc = "settled" /\ y.trail = z.trail
      /\ (y.decision = "Allow" => x.policy.decision = "Allow") /\ Logged(y)
      /\ SameCase(z, y) /\ SameApproval(z, y)
  BY <1>2, <1>5, FinishFrame
<1>. HIDE DEF y
<1>7. SameCase(x, y) /\ y.grant = x.grant /\ y.answer = "none"
  BY <1>1, <1>5, <1>6 DEF SameCase, SameApproval
<1>8. /\ Inspected(y) /\ Refused(y) /\ Reported(y) = Reported(x) /\ Asked(y) = Asked(x)
  BY <1>1, <1>7, SameJudgment DEF Refused
<1>9. Waived(y) /\ Explicit(y)
  BY <1>1, <1>6, <1>8, StageFacts DEF Waived, Explicit
<1>10. Audited(y)
  <2>1. Markers(Reported(y)) \subseteq y.trail
    BY <1>4, <1>5, <1>6, <1>8 DEF Reported
  <2>2. x.saw.verdict = "NoEngine" => {"PolicyMissing"} \subseteq Reported(y)
    BY <1>1, <1>8, StageFacts DEF Reported
  <2>. QED  BY <1>7, <2>1, <2>2, MarkersMonotone DEF Audited, NoJudgment, SameCase
<1>11. Recorded(y)
  BY <1>6, <1>8 DEF Recorded
<1>12. EvaluationOk(y) /\ y.grant = x.grant
  BY <1>6, <1>7, <1>8, <1>9, <1>10, <1>11, SettledOk DEF Outcome
<1>. QED  BY <1>12 DEF y, z, m

\* Past the policy stage everything both stages met is reported, whatever settles
\* the outcome afterwards.
LEMMA ReportedAtApproval ==
  ASSUME config \in Config, NEW x \in EvaluationRecord, Inspected(x), ~x.policy.terminal,
         StageMarkers(x) \subseteq x.trail,
         x.answer \in NoJudgment => Markers({"Approval"}) \subseteq x.trail
  PROVE  Audited(x)
<1>1. StageMarkers(x) = Markers(Reported(x))
  BY DEF StageMarkers, Reported
<1>2. x.saw.verdict = "NoEngine" => {"PolicyMissing"} \subseteq Reported(x)
  BY StageFacts DEF Reported
<1>. QED  BY <1>1, <1>2, MarkersMonotone DEF Audited

\* A failed scanner whose mode is closed denies, and both stages are on record.
LEMMA RiskDeniesOk ==
  ASSUME config \in Config, NEW x, EvaluationOk(x), x.pc = "inspected",
         ~x.policy.terminal, RiskFailure(x) = "Deny", NEW accepted \in BOOLEAN
  PROVE  LET y == Finish(Emit(x, StageMarkers(x) \cup Markers({"DlpScanner"}), accepted),
                         "Deny", "original")
         IN  EvaluationOk(y) /\ y.grant = x.grant
<1> DEFINE m == StageMarkers(x) \cup Markers({"DlpScanner"})
           z == Emit(x, m, accepted)
           y == Finish(z, "Deny", "original")
<1>1. x \in EvaluationRecord /\ Inspected(x) /\ x.recorded = 0 /\ x.answer = "none"
  BY DEF EvaluationOk, Progress
<1>2. m \in SUBSET Marker
  <2>1. {"DlpScanner"} \in SUBSET Subsystem
    BY DEF Subsystem
  <2>. QED  BY <1>1, <2>1, MarkersOfFailures
<1>3. StageMarkers(x) \subseteq m
  OBVIOUS
<1>. HIDE DEF m
<1>4. /\ z \in EvaluationRecord /\ z.recorded = 0 /\ z.trail = x.trail \cup m
      /\ SameCase(x, z) /\ SameApproval(x, z)
  BY <1>1, <1>2, EmitFrame
<1>. HIDE DEF z
<1>5. /\ y \in EvaluationRecord /\ y.recorded = 0 /\ y.pc = "settled" /\ y.trail = z.trail
      /\ y.decision # "Allow" /\ Logged(y)
      /\ SameCase(z, y) /\ SameApproval(z, y)
  BY <1>4, FinishFrame DEF Decision, Payload
<1>. HIDE DEF y
<1>6. SameCase(x, y) /\ y.grant = x.grant /\ y.answer = "none" /\ ~y.policy.terminal
  BY <1>1, <1>4, <1>5 DEF SameCase, SameApproval
<1>7. Inspected(y) /\ Refused(y) /\ StageMarkers(y) = StageMarkers(x)
  BY <1>1, <1>6, SameJudgment DEF Refused
<1>8. Audited(y)
  BY <1>3, <1>4, <1>5, <1>6, <1>7, ReportedAtApproval DEF NoJudgment
<1>9. Outcome(y)
  BY <1>5, <1>7, <1>8 DEF Outcome, Waived, Explicit, Recorded
<1>10. EvaluationOk(y) /\ y.grant = x.grant
  BY <1>5, <1>6, <1>7, <1>9, SettledOk
<1>. QED  BY <1>10 DEF y, z, m

\* An allow that records the action in the session: nobody has to be asked, or
\* somebody agreed.
LEMMA AllowOk ==
  ASSUME config \in Config, NEW x \in EvaluationRecord, Inspected(x), ~Refused(x),
         NeedsApproval(x) => Cleared(x), x.answer \notin NoJudgment,
         NEW m \in SUBSET Marker, StageMarkers(x) \subseteq x.trail \cup m,
         NEW accepted \in BOOLEAN,
         NEW r \in EvaluationRecord, SameCase(x, r), SameApproval(x, r), r.recorded = 1,
         r.trail = x.trail
  PROVE  LET y == FinishAllow(Emit(r, m, accepted))
         IN  EvaluationOk(y) /\ y.grant = x.grant
<1> DEFINE z == Emit(r, m, accepted)
           y == FinishAllow(z)
<1>1. /\ z \in EvaluationRecord /\ z.recorded = 1 /\ z.trail = x.trail \cup m
      /\ SameCase(r, z) /\ SameApproval(r, z)
  BY EmitFrame
<1>. HIDE DEF z
<1>2. /\ y \in EvaluationRecord /\ y.recorded = 1 /\ y.pc = "settled" /\ y.trail = z.trail
      /\ Logged(y) /\ SameCase(z, y) /\ SameApproval(z, y)
  BY <1>1, FinishAllowFrame
<1>. HIDE DEF y
<1>3. SameCase(x, y) /\ SameApproval(x, y) /\ ~x.policy.terminal
  BY <1>1, <1>2 DEF SameCase, SameApproval, Refused
<1>4. /\ Inspected(y) /\ ~Refused(y) /\ Reported(y) = Reported(x) /\ Asked(y) = Asked(x)
      /\ StageMarkers(y) = StageMarkers(x)
  BY <1>3, SameJudgment
<1>5. Cleared(y) = Cleared(x)
  BY <1>3 DEF Cleared, SameApproval
<1>6. Waived(y)
  <2>. SUFFICES ASSUME NEW s \in Reported(x)
                PROVE  \/ config.failure[s] = "FailOpen"
                       \/ config.failure[s] = "DegradeSafely" /\ Cleared(x)
    BY <1>4, <1>5 DEF Waived
  <2>1. config.failure[s] \in FailureMode
    <3>1. s \in Subsystem
      BY MarkersOfFailures
    <3>. QED  BY <3>1, ConfigAssumption
  <2>2. config.failure[s] # "FailClosed"
    BY StageFacts
  <2>3. ~NeedsApproval(x) => config.failure[s] = "FailOpen"
    BY StageFacts
  <2>. QED  BY <2>1, <2>2, <2>3 DEF FailureMode
<1>7. Explicit(y)
  BY <1>4, <1>5, StageFacts DEF Explicit
<1>8. Audited(y)
  <2>1. ~y.policy.terminal /\ y.answer \notin NoJudgment
    BY <1>3 DEF SameCase, SameApproval
  <2>. QED  BY <1>1, <1>2, <1>4, <2>1, ReportedAtApproval
<1>9. Outcome(y)
  BY <1>2, <1>4, <1>6, <1>7, <1>8 DEF Outcome, Recorded
<1>10. EvaluationOk(y) /\ y.grant = x.grant
  BY <1>2, <1>3, <1>4, <1>9, SettledOk DEF SameApproval
<1>. QED  BY <1>10 DEF y, z

\* Any other verdict at the approval stage, a denial or a deferral.
LEMMA HoldOk ==
  ASSUME config \in Config, NEW x \in EvaluationRecord, Inspected(x), ~Refused(x),
         NEW m \in SUBSET Marker, StageMarkers(x) \subseteq x.trail \cup m,
         x.answer \in NoJudgment => Markers({"Approval"}) \subseteq m,
         NEW accepted \in BOOLEAN, NEW d \in Decision, d # "Allow",
         NEW r \in EvaluationRecord, SameCase(x, r), SameApproval(x, r), r.recorded = 1,
         r.trail = x.trail
  PROVE  LET y == Finish(Emit(r, m, accepted), d, "original")
         IN  EvaluationOk(y) /\ y.grant = x.grant
<1> DEFINE z == Emit(r, m, accepted)
           y == Finish(z, d, "original")
<1>1. /\ z \in EvaluationRecord /\ z.recorded = 1 /\ z.trail = x.trail \cup m
      /\ SameCase(r, z) /\ SameApproval(r, z)
  BY EmitFrame
<1>. HIDE DEF z
<1>2. /\ y \in EvaluationRecord /\ y.recorded = 1 /\ y.pc = "settled" /\ y.trail = z.trail
      /\ y.decision # "Allow" /\ Logged(y) /\ SameCase(z, y) /\ SameApproval(z, y)
  BY <1>1, FinishFrame DEF Payload
<1>. HIDE DEF y
<1>3. SameCase(x, y) /\ SameApproval(x, y) /\ ~x.policy.terminal
  BY <1>1, <1>2 DEF SameCase, SameApproval, Refused
<1>4. Inspected(y) /\ ~Refused(y) /\ StageMarkers(y) = StageMarkers(x)
  BY <1>3, SameJudgment
<1>5. Audited(y)
  <2>1. ~y.policy.terminal /\ y.answer = x.answer
    BY <1>3 DEF SameCase, SameApproval
  <2>. QED  BY <1>1, <1>2, <1>4, <2>1, ReportedAtApproval
<1>6. Outcome(y)
  BY <1>2, <1>4, <1>5 DEF Outcome, Waived, Explicit, Recorded
<1>7. EvaluationOk(y) /\ y.grant = x.grant
  BY <1>2, <1>3, <1>4, <1>6, SettledOk DEF SameApproval
<1>. QED  BY <1>7 DEF y, z

-----------------------------------------------------------------------------
(* The invariant of the vaults. *)

Grant ==
  [ scope : {"ExactAction", "SessionTool"}, action : Action, expiresAt : Nat,
    maxUses : {1, Unlimited}, uses : Nat, consumed : BOOLEAN ]

IsStore(s) ==
  /\ s = [ byToken |-> s.byToken, exactIndex |-> s.exactIndex,
           sessionIndex |-> s.sessionIndex, history |-> s.history ]
  /\ \A t \in DOMAIN s.byToken : s.byToken[t] \in Grant

\* A vault holds grants that were minted, under their tokens and with their limits.
VaultOk(s) ==
  /\ IsStore(s)
  /\ \A t \in DOMAIN s.byToken :
       t \in DOMAIN minted /\ s.byToken[t].maxUses = minted[t].maxUses

TypeOK ==
  /\ config \in Config
  /\ now \in Nat
  /\ minted \in Seq(Grant)
  /\ grants = [e \in Evaluator |-> grants[e]]
  /\ \A e \in Evaluator : VaultOk(grants[e])
  /\ eval \in [Evaluator -> {Idle} \cup EvaluationRecord]

\* Only the shared vault ever holds a single-use grant.
SingleUseIsShared ==
  ~config.sharedGrants => \A t \in DOMAIN minted : minted[t].maxUses # 1

\* A token an evaluation rides on is minted, and in the shared vault a single-use
\* grant somebody rides on is spent.
Riding(e) ==
  LET t == eval[e].grant
  IN  eval[e] # Idle /\ t # NoToken =>
        /\ t \in DOMAIN minted
        /\ config.sharedGrants =>
             /\ t \in DOMAIN Store(e).byToken
             /\ minted[t].maxUses = 1 => Store(e).byToken[t].consumed

IndInv ==
  /\ TypeOK
  /\ \A e \in Evaluator : eval[e] # Idle => EvaluationOk(eval[e])
  /\ SingleUseIsShared
  /\ \A e \in Evaluator : Riding(e)
  /\ SingleUseAcrossEvaluations

-----------------------------------------------------------------------------
(* The steps of an evaluation. *)

Evaluations == \A e \in Evaluator : eval[e] # Idle => EvaluationOk(eval[e])

\* The evaluation of e becomes a well-formed one that rides on the token t.
Continues(e, t) == \E y : Become(e, y) /\ EvaluationOk(y) /\ y.grant = t

\* A task that is not idle is in the middle of a well-formed evaluation.
LEMMA UnderWay ==
  ASSUME Evaluations, NEW e \in Evaluator, eval[e].pc # "idle"
  PROVE  eval[e] # Idle /\ EvaluationOk(eval[e])
BY DEF Evaluations, Idle

\* Inspect starts from an empty trail with no token.
LEMMA InspectOk ==
  ASSUME config \in Config, NEW a \in Action, NEW p \in PolicyInput, NEW r \in RiskInput
  PROVE  EvaluationOk(Evaluation(a, p, r)) /\ Evaluation(a, p, r).grant = NoToken
<1> DEFINE x == Evaluation(a, p, r)
<1>1. p \in PolicyAnswer /\ r \in RiskAnswer /\ config.failure \in FailureModes
  BY InputAssumption, ConfigAssumption DEF FailureModes
<1>2. /\ EvaluatePolicy(p, config.failure) \in PolicyAssessment
      /\ AssessRisk(r, Threshold) \in RiskAssessment
  BY <1>1, PolicyStageSound, RiskStageSound DEF Sound
<1>3. x \in EvaluationRecord
  BY <1>1, <1>2 DEF Evaluation, EvaluationRecord, NoToken, Judgment, Payload
<1>. QED  BY <1>3 DEF Evaluation, EvaluationOk, Inspected, Progress, NoToken

\* The steps that settle an outcome before the approval stage.
LEMMA SettlesEarly ==
  ASSUME config \in Config, Evaluations, NEW e \in Evaluator, NEW accepted \in BOOLEAN,
         \/ RefuseDetached(e, accepted)
         \/ SettleByPolicy(e, accepted)
         \/ DenyByRisk(e, accepted)
         \/ AllowOnMerits(e, accepted)
  PROVE  eval[e] # Idle /\ Continues(e, eval[e].grant)
<1> DEFINE x == eval[e]
<1>1. x # Idle /\ EvaluationOk(x) /\ x.pc = "inspected"
  BY UnderWay DEF RefuseDetached, SettleByPolicy, DenyByRisk, AllowOnMerits, PastRisk, Ruling
<1>2. CASE RefuseDetached(e, accepted)
  BY <1>1, <1>2, DetachedOk DEF RefuseDetached, Continues
<1>3. CASE SettleByPolicy(e, accepted)
  BY <1>1, <1>3, PolicySettlesOk DEF SettleByPolicy, Continues
<1>4. CASE DenyByRisk(e, accepted)
  BY <1>1, <1>4, RiskDeniesOk DEF DenyByRisk, Continues
<1>5. CASE AllowOnMerits(e, accepted)
  <2> DEFINE r == RecordInSession(x)
             m == StageMarkers(x)
             y == FinishAllow(Emit(r, m, accepted))
  <2>1. x \in EvaluationRecord /\ Inspected(x) /\ x.recorded = 0 /\ x.answer = "none"
    BY <1>1 DEF EvaluationOk, Progress
  <2>2. ~Refused(x) /\ ~NeedsApproval(x)
    BY <1>5 DEF AllowOnMerits, PastRisk, Ruling, Refused
  <2>3. m \in SUBSET Marker /\ StageMarkers(x) \subseteq x.trail \cup m
    BY <2>1, MarkersOfFailures
  <2>4. /\ r \in EvaluationRecord /\ r.recorded = 1 /\ SameCase(x, r) /\ SameApproval(x, r)
        /\ r.trail = x.trail
    BY <2>1, RecordFrame
  <2>5. x.answer \notin NoJudgment
    BY <2>1 DEF NoJudgment
  <2>6. Become(e, y)
    BY <1>5 DEF AllowOnMerits
  <2>. HIDE DEF r, m
  <2>7. EvaluationOk(y) /\ y.grant = x.grant
    BY <2>1, <2>2, <2>3, <2>4, <2>5, AllowOk
  <2>. QED  BY <1>1, <2>6, <2>7 DEF Continues
<1>. QED  BY <1>2, <1>3, <1>4, <1>5

\* The step after a grant was spent.
LEMMA GrantedStep ==
  ASSUME config \in Config, Evaluations, NEW e \in Evaluator, NEW accepted \in BOOLEAN,
         AllowGranted(e, accepted)
  PROVE  eval[e] # Idle /\ Continues(e, eval[e].grant)
<1> DEFINE x == eval[e]
           r == RecordInSession(x)
           m == {<<"approval", "Approved">>}
           y == FinishAllow(Emit(r, m, accepted))
<1>1. x # Idle /\ EvaluationOk(x) /\ x.pc = "granted"
  BY UnderWay DEF AllowGranted
<1>2. /\ x \in EvaluationRecord /\ Inspected(x) /\ x.recorded = 0 /\ x.answer = "none"
      /\ ~Refused(x) /\ StageMarkers(x) \subseteq x.trail /\ x.grant # NoToken
  BY <1>1 DEF EvaluationOk, Progress, AtApproval
<1>3. m \in SUBSET Marker
  BY DEF Marker
<1>4. /\ r \in EvaluationRecord /\ r.recorded = 1 /\ SameCase(x, r) /\ SameApproval(x, r)
      /\ r.trail = x.trail
  BY <1>2, RecordFrame
<1>5. x.answer \notin NoJudgment /\ Cleared(x) /\ StageMarkers(x) \subseteq x.trail \cup m
  BY <1>2 DEF NoJudgment, Cleared
<1>6. Become(e, y)
  BY DEF AllowGranted
<1>. HIDE DEF r, m
<1>7. EvaluationOk(y) /\ y.grant = x.grant
  BY <1>2, <1>3, <1>4, <1>5, AllowOk
<1>. QED  BY <1>1, <1>6, <1>7 DEF Continues

\* Nobody can be asked: the action is recorded and handed back for approval.
LEMMA DeferStep ==
  ASSUME config \in Config, Evaluations, NEW e \in Evaluator, NEW accepted \in BOOLEAN,
         Defer(e, accepted)
  PROVE  eval[e] # Idle /\ Continues(e, eval[e].grant)
<1> DEFINE x == eval[e]
           r == RecordInSession(x)
           m == StageMarkers(x) \cup {<<"approval", "Skipped">>}
           y == Finish(Emit(r, m, accepted), "RequireApproval", "original")
<1>1. x # Idle /\ EvaluationOk(x) /\ x.pc = "inspected"
  BY UnderWay DEF Defer, AwaitsApproval, PastRisk, Ruling
<1>2. x \in EvaluationRecord /\ Inspected(x) /\ x.recorded = 0 /\ x.answer = "none"
  BY <1>1 DEF EvaluationOk, Progress
<1>3. ~Refused(x)
  BY DEF Defer, AwaitsApproval, PastRisk, Ruling, Refused
<1>4. m \in SUBSET Marker /\ StageMarkers(x) \subseteq x.trail \cup m
  <2>1. <<"approval", "Skipped">> \in Marker
    BY DEF Marker
  <2>. QED  BY <1>2, <2>1, MarkersOfFailures
<1>5. /\ r \in EvaluationRecord /\ r.recorded = 1 /\ SameCase(x, r) /\ SameApproval(x, r)
      /\ r.trail = x.trail
  BY <1>2, RecordFrame
<1>6. x.answer \notin NoJudgment
  BY <1>2 DEF NoJudgment
<1>7. Become(e, y) /\ "RequireApproval" \in Decision
  BY DEF Defer, Decision
<1>. HIDE DEF r, m
<1>8. EvaluationOk(y) /\ y.grant = x.grant
  BY <1>2, <1>3, <1>4, <1>5, <1>6, <1>7, HoldOk
<1>. QED  BY <1>1, <1>7, <1>8 DEF Continues

\* A prompt is opened with both stages on record, and nothing in the session yet.
LEMMA PromptStep ==
  ASSUME config \in Config, Evaluations, NEW e \in Evaluator, NEW accepted \in BOOLEAN,
         Prompt(e, accepted)
  PROVE  eval[e] # Idle /\ Continues(e, eval[e].grant)
<1> DEFINE x == eval[e]
           m == StageMarkers(x)
           z == Emit(x, m, accepted)
           y == [z EXCEPT !.pc = "prompting"]
<1>1. x # Idle /\ EvaluationOk(x) /\ x.pc = "inspected"
  BY UnderWay DEF Prompt, AwaitsApproval, PastRisk, Ruling
<1>2. x \in EvaluationRecord /\ Inspected(x) /\ x.recorded = 0 /\ x.answer = "none"
  BY <1>1 DEF EvaluationOk, Progress
<1>3. ~Refused(x)
  BY DEF Prompt, AwaitsApproval, PastRisk, Ruling, Refused
<1>4. m \in SUBSET Marker
  BY <1>2, MarkersOfFailures
<1>5. /\ z \in EvaluationRecord /\ z.trail = x.trail \cup m /\ z.recorded = 0
      /\ SameCase(x, z) /\ SameApproval(x, z)
  <2>. HIDE DEF x, m
  <2>1. /\ z \in EvaluationRecord /\ z.trail = x.trail \cup m /\ z.recorded = x.recorded
        /\ SameCase(x, z) /\ SameApproval(x, z)
    BY <1>2, <1>4, EmitFrame
  <2>. QED  BY <1>2, <2>1
<1>6. Become(e, y)
  BY DEF Prompt
<1>. HIDE DEF z
<1>7. /\ y \in EvaluationRecord /\ y.pc = "prompting" /\ y.trail = z.trail /\ y.recorded = 0
      /\ SameCase(x, y) /\ SameApproval(x, y)
  BY <1>5 DEF EvaluationRecord, SameCase, SameApproval
<1>. HIDE DEF y
<1>8. Inspected(y) /\ ~Refused(y) /\ StageMarkers(y) \subseteq y.trail
  BY <1>2, <1>3, <1>5, <1>7, SameJudgment
<1>9. EvaluationOk(y)
  BY <1>2, <1>7, <1>8 DEF EvaluationOk, Progress, AtApproval, SameApproval
<1>. QED  BY <1>1, <1>6, <1>7, <1>9 DEF Continues, SameApproval

\* The prompt resolves, whoever or whatever answers it, and the session records.
LEMMA ResolveStep ==
  ASSUME config \in Config, now \in Nat, Evaluations, NEW e \in Evaluator,
         NEW answer \in Judgment \ {"none"}, Resolve(e, answer)
  PROVE  eval[e] # Idle /\ Continues(e, eval[e].grant)
<1> DEFINE x == eval[e]
           r == RecordInSession(x)
           y == [r EXCEPT !.pc = "answered", !.answer = answer, !.until = now + TimedTtl]
<1>1. x # Idle /\ EvaluationOk(x) /\ x.pc = "prompting"
  BY UnderWay DEF Resolve
<1>2. x \in EvaluationRecord /\ Inspected(x) /\ x.recorded = 0 /\ AtApproval(x)
  BY <1>1 DEF EvaluationOk, Progress
<1>3. /\ r \in EvaluationRecord /\ r.trail = x.trail /\ r.recorded = 1
      /\ SameCase(x, r) /\ r.grant = x.grant
  BY <1>2, RecordFrame DEF SameApproval
<1>4. Become(e, y) /\ now + TimedTtl \in Nat
  BY BoundsAssumption DEF Resolve
<1>. HIDE DEF r
<1>5. /\ y \in EvaluationRecord /\ y.pc = "answered" /\ y.trail = x.trail /\ y.recorded = 1
      /\ SameCase(x, y) /\ y.grant = x.grant /\ y.answer = answer
  BY <1>3, <1>4 DEF EvaluationRecord, SameCase
<1>. HIDE DEF y
<1>6. Inspected(y) /\ AtApproval(y)
  BY <1>2, <1>5, SameJudgment DEF AtApproval
<1>7. EvaluationOk(y)
  BY <1>5, <1>6 DEF EvaluationOk, Progress
<1>. QED  BY <1>1, <1>4, <1>5, <1>7 DEF Continues

\* The answer becomes an outcome: only an approval becomes an allow, and a missing
\* answer is reported as the failure of the approver.
LEMMA JudgeStep ==
  ASSUME config \in Config, Evaluations, NEW e \in Evaluator, NEW accepted \in BOOLEAN,
         Judge(e, accepted)
  PROVE  eval[e] # Idle /\ Continues(e, eval[e].grant)
<1> DEFINE x == eval[e]
           unanswered == IF x.answer \in NoJudgment THEN Markers({"Approval"}) ELSE {}
           m == unanswered \cup {<<"approval", x.answer>>}
           d == AsDecision(x.answer)
           y == IF d = "Allow" THEN FinishAllow(Emit(x, m, accepted))
                ELSE Finish(Emit(x, m, accepted), d, "original")
<1>1. x # Idle /\ EvaluationOk(x) /\ x.pc = "answered"
  BY UnderWay DEF Judge
<1>2. /\ x \in EvaluationRecord /\ Inspected(x) /\ x.recorded = 1 /\ ~Refused(x)
      /\ StageMarkers(x) \subseteq x.trail /\ x.answer \in Judgment \ {"none"}
  BY <1>1 DEF EvaluationOk, Progress, AtApproval, EvaluationRecord
<1>3. m \in SUBSET Marker /\ (x.answer \in NoJudgment => Markers({"Approval"}) \subseteq m)
  <2>1. {"Approval"} \in SUBSET Subsystem
    BY DEF Subsystem
  <2>2. Markers({"Approval"}) \in SUBSET Marker
    BY <2>1, MarkersOfFailures
  <2>3. <<"approval", x.answer>> \in Marker
    BY <1>2 DEF Marker, Judgment
  <2>. QED  BY <2>2, <2>3
<1>4. Become(e, y)
  BY DEF Judge
<1>5. CASE x.answer \in Approvals
  <2>1. d = "Allow" /\ Cleared(x) /\ x.answer \notin NoJudgment
    BY <1>5 DEF AsDecision, Cleared, Approvals, NoJudgment
  <2>2. y = FinishAllow(Emit(x, m, accepted))
    BY <2>1
  <2>. HIDE DEF y, m
  <2>3. EvaluationOk(y) /\ y.grant = x.grant
    BY <1>2, <1>3, <2>1, <2>2, AllowOk DEF SameCase, SameApproval
  <2>. QED  BY <1>1, <1>4, <2>3 DEF Continues
<1>6. CASE x.answer \notin Approvals
  <2>1. d \in Decision /\ d # "Allow"
    BY <1>2, <1>6 DEF AsDecision, Judgment, Decision, NoJudgment, Approvals
  <2>2. y = Finish(Emit(x, m, accepted), d, "original")
    BY <2>1
  <2>. HIDE DEF y, m, d
  <2>3. EvaluationOk(y) /\ y.grant = x.grant
    BY <1>2, <1>3, <2>1, <2>2, HoldOk DEF SameCase, SameApproval
  <2>. QED  BY <1>1, <1>4, <2>3 DEF Continues
<1>. QED  BY <1>5, <1>6

-----------------------------------------------------------------------------
(* The vault under the operators of GrantStore. *)

\* Retiring a grant leaves everything but its mark.
Retires(s, r) ==
  /\ DOMAIN r.byToken = DOMAIN s.byToken
  /\ \A t \in DOMAIN s.byToken :
       \/ r.byToken[t] = s.byToken[t]
       \/ r.byToken[t] = [s.byToken[t] EXCEPT !.consumed = TRUE]

\* No grant of s is lost, gets another limit or is revived in r.
Keeps(s, r) ==
  \A t \in DOMAIN s.byToken :
    /\ t \in DOMAIN r.byToken
    /\ r.byToken[t].maxUses = s.byToken[t].maxUses
    /\ s.byToken[t].consumed => r.byToken[t].consumed

\* A retired vault keeps every grant.
LEMMA RetiringKeeps ==
  ASSUME NEW s, IsStore(s), NEW r, Retires(s, r)
  PROVE  Keeps(s, r)
<1>1. \A g \in Grant : /\ [g EXCEPT !.consumed = TRUE].consumed
                        /\ [g EXCEPT !.consumed = TRUE].maxUses = g.maxUses
  BY DEF Grant
<1>2. ASSUME NEW t \in DOMAIN s.byToken
      PROVE  /\ t \in DOMAIN r.byToken
             /\ r.byToken[t].maxUses = s.byToken[t].maxUses
             /\ s.byToken[t].consumed => r.byToken[t].consumed
  <2>1. s.byToken[t] \in Grant
    BY DEF IsStore
  <2>2. CASE r.byToken[t] = s.byToken[t]
    BY <2>2 DEF Retires
  <2>3. CASE r.byToken[t] = [s.byToken[t] EXCEPT !.consumed = TRUE]
    BY <1>1, <2>1, <2>3 DEF Retires
  <2>. QED  BY <2>2, <2>3 DEF Retires
<1>. QED  BY <1>2 DEF Keeps

\* The audit ring and the indexes are apart from the vault.
LEMMA RingAndIndexes ==
  ASSUME NEW s, IsStore(s), NEW e, NEW t
  PROVE  /\ IsStore(PushHistory(s, e)) /\ PushHistory(s, e).byToken = s.byToken
         /\ IsStore(PurgeIndexes(s, t)) /\ PurgeIndexes(s, t).byToken = s.byToken
<1>1. \A h : /\ IsStore([s EXCEPT !.history = h])
             /\ [s EXCEPT !.history = h].byToken = s.byToken
  BY DEF IsStore
<1>2. \A i : /\ IsStore([s EXCEPT !.exactIndex = i])
             /\ [s EXCEPT !.exactIndex = i].byToken = s.byToken
             /\ IsStore([s EXCEPT !.sessionIndex = i])
             /\ [s EXCEPT !.sessionIndex = i].byToken = s.byToken
  BY DEF IsStore
<1>3. PICK h : PushHistory(s, e) = [s EXCEPT !.history = h]
  BY DEF PushHistory
<1>4. \/ \E i : PurgeIndexes(s, t) = [s EXCEPT !.exactIndex = i]
      \/ \E i : PurgeIndexes(s, t) = [s EXCEPT !.sessionIndex = i]
  BY DEF PurgeIndexes
<1>. QED  BY <1>1, <1>2, <1>3, <1>4

\* Replacing one grant of the vault.
LEMMA PutOk ==
  ASSUME NEW s, IsStore(s), NEW t, NEW g \in Grant
  PROVE  LET r == [s EXCEPT !.byToken = Put(s.byToken, t, g)]
         IN  IsStore(r) /\ r.byToken = Put(s.byToken, t, g)
BY DEF IsStore, Put

\* take_use when it fails.
LEMMA RefuseRetires ==
  ASSUME NEW s, IsStore(s), NEW t, NEW at, NEW scope
  PROVE  IsStore(Refuse(s, t, at, scope)) /\ Retires(s, Refuse(s, t, at, scope))
<1>1. CASE ~FoundExpired(s, t, at, scope)
  BY <1>1 DEF Refuse, Retires
<1>2. CASE FoundExpired(s, t, at, scope)
  <2> DEFINE g == [s.byToken[t] EXCEPT !.consumed = TRUE]
             r == [s EXCEPT !.byToken = Put(s.byToken, t, g)]
  <2>1. t \in DOMAIN s.byToken
    BY <1>2 DEF FoundExpired, Presentable
  <2>2. g \in Grant
    BY <2>1 DEF IsStore, Grant
  <2>3. Refuse(s, t, at, scope) = PurgeIndexes(r, t)
    BY <1>2 DEF Refuse
  <2>4. IsStore(r) /\ r.byToken = Put(s.byToken, t, g)
    BY <2>2, PutOk
  <2>5. Put(s.byToken, t, g) = [x \in DOMAIN s.byToken |-> IF x = t THEN g ELSE s.byToken[x]]
    BY <2>1 DEF Put
  <2>. HIDE DEF r
  <2>6. IsStore(PurgeIndexes(r, t)) /\ PurgeIndexes(r, t).byToken = r.byToken
    BY <2>4, RingAndIndexes
  <2>7. PICK p : p = PurgeIndexes(r, t)
    OBVIOUS
  <2>8. p.byToken = [x \in DOMAIN s.byToken |-> IF x = t THEN g ELSE s.byToken[x]]
    BY <2>4, <2>5, <2>6, <2>7
  <2>9. Retires(s, p)
    BY <2>1, <2>8 DEF Retires
  <2>. QED  BY <2>3, <2>6, <2>7, <2>9
<1>. QED  BY <1>1, <1>2

\* A lookup that finds nothing usable retires grants and writes to the ring.
LEMMA MissRetires ==
  ASSUME NEW s, IsStore(s), NEW a, NEW at
  PROVE  /\ IsStore(AfterExactMiss(s, a, at)) /\ Retires(s, AfterExactMiss(s, a, at))
         /\ IsStore(AfterSessionMiss(s, a, at)) /\ Retires(s, AfterSessionMiss(s, a, at))
<1>1. Retires(s, s)
  BY DEF Retires
<1>2. \A t, scope :
        LET r == NoteReject(Refuse(s, t, at, scope), t) IN IsStore(r) /\ Retires(s, r)
  BY RefuseRetires, RingAndIndexes DEF NoteReject, Retires
<1>. QED  BY <1>1, <1>2 DEF AfterExactMiss, AfterSessionMiss

\* take_use when it succeeds: a single-use grant is then consumed.
LEMMA SpendKeeps ==
  ASSUME NEW s, IsStore(s), NEW t \in DOMAIN s.byToken, ~s.byToken[t].consumed
  PROVE  LET r == Spend(s, t)
         IN  /\ IsStore(r) /\ Keeps(s, r) /\ DOMAIN r.byToken = DOMAIN s.byToken
             /\ s.byToken[t].maxUses = 1 => r.byToken[t].consumed
<1> DEFINE h == s.byToken[t]
           uses == IF h.uses < UsesLimit THEN h.uses + 1 ELSE h.uses
           over == uses >= h.maxUses
           g == Used(h)
           n == [s EXCEPT !.byToken = Put(s.byToken, t, g)]
           r == Spend(s, t)
<1>1. h \in Grant
  BY DEF IsStore
<1>2. /\ uses \in Nat /\ over \in BOOLEAN
      /\ h.maxUses = 1 => over
      /\ g = [h EXCEPT !.uses = uses, !.consumed = over]
  <2>1. h.uses \in Nat
    BY <1>1 DEF Grant
  <2>. QED  BY <2>1, UsesLimitAssumption DEF Used
<1>. HIDE DEF uses, over
<1>3. g \in Grant /\ g.maxUses = h.maxUses /\ g.consumed = over
  BY <1>1, <1>2 DEF Grant
<1>4. r = IF g.consumed THEN PurgeIndexes(n, t) ELSE n
  BY DEF Spend
<1>5. IsStore(n) /\ n.byToken = Put(s.byToken, t, g)
  BY <1>3, PutOk
<1>. HIDE DEF n, g, r
<1>6. IsStore(r) /\ r.byToken = Put(s.byToken, t, g)
  BY <1>4, <1>5, RingAndIndexes
<1>7. /\ DOMAIN r.byToken = DOMAIN s.byToken
      /\ r.byToken[t] = g
      /\ \A x \in DOMAIN s.byToken : x # t => r.byToken[x] = s.byToken[x]
  BY <1>6 DEF Put
<1>8. Keeps(s, r)
  BY <1>3, <1>7 DEF Keeps
<1>9. s.byToken[t].maxUses = 1 => r.byToken[t].consumed
  BY <1>2, <1>3, <1>7
<1>. QED  BY <1>6, <1>7, <1>8, <1>9 DEF r

\* The insertions of issue_with_expiry under a new token.
LEMMA InsertKeeps ==
  ASSUME NEW s, IsStore(s), NEW t, t \notin DOMAIN s.byToken, NEW g \in Grant
  PROVE  LET r == Insert(s, t, g)
         IN  /\ IsStore(r) /\ Keeps(s, r) /\ DOMAIN r.byToken = DOMAIN s.byToken \cup {t}
             /\ r.byToken[t] = g
<1> DEFINE indexed == IF g.scope = "ExactAction"
                        THEN [s EXCEPT !.exactIndex = Put(@, Fingerprint(g.action), t)]
                        ELSE [s EXCEPT !.sessionIndex = Put(@, SessionScopeKey(g.action), t)]
           n == [indexed EXCEPT !.byToken = Put(indexed.byToken, t, g)]
           r == Insert(s, t, g)
<1>1. IsStore(indexed) /\ indexed.byToken = s.byToken
  BY DEF IsStore
<1>2. r = PushHistory(n, Entry("GrantIssued", t))
  BY DEF Insert
<1>. HIDE DEF indexed, r
<1>3. IsStore(n) /\ n.byToken = Put(s.byToken, t, g)
  BY <1>1, PutOk
<1>. HIDE DEF n
<1>4. IsStore(r) /\ r.byToken = Put(s.byToken, t, g)
  BY <1>2, <1>3, RingAndIndexes
<1>5. /\ DOMAIN r.byToken = DOMAIN s.byToken \cup {t} /\ r.byToken[t] = g
      /\ \A x \in DOMAIN s.byToken : r.byToken[x] = s.byToken[x]
  BY <1>4 DEF Put
<1>6. Keeps(s, r)
  BY <1>5 DEF Keeps
<1>. QED  BY <1>4, <1>5, <1>6 DEF r

-----------------------------------------------------------------------------
(* The steps of the gateway. *)

\* No step takes back a minted grant, nor changes one.
MintingGrows ==
  /\ minted' \in Seq(Grant)
  /\ \A t \in DOMAIN minted : t \in DOMAIN minted' /\ minted'[t] = minted[t]

\* What every step does to the vaults.
VaultsKept ==
  /\ config' = config
  /\ MintingGrows
  /\ SingleUseIsShared'
  /\ (grants = [e \in Evaluator |-> grants[e]])'
  /\ \A e \in Evaluator : VaultOk(grants[e])'
  /\ config.sharedGrants => \A e \in Evaluator : Keeps(Store(e), Store(e)')

\* The token each evaluation rides on after a step is one it rode on before, or none.
TokensKept ==
  \A e \in Evaluator :
    \/ eval'[e] = Idle
    \/ eval'[e].grant = NoToken
    \/ eval[e] # Idle /\ eval'[e].grant = eval[e].grant

\* Forgetting the ring leaves the vault.
LEMMA RingDropped ==
  ASSUME NEW s, IsStore(s)
  PROVE  IsStore([s EXCEPT !.history = << >>]) /\ [s EXCEPT !.history = << >>].byToken = s.byToken
BY DEF IsStore

\* The gateways of a deployment with a shared vault use one; the others each use
\* their own.
LEMMA OneVault ==
  ASSUME NEW e \in Evaluator
  PROVE  /\ StoreOf(e) \in Evaluator
         /\ config.sharedGrants => \A d \in Evaluator : StoreOf(d) = StoreOf(e)
BY DEF StoreOf

\* Writing the vault of one evaluation.
LEMMA SetStoreKept ==
  ASSUME IndInv, NEW e \in Evaluator, NEW r, IsStore(r), SetStore(e, r),
         config' = config, MintingGrows, SingleUseIsShared',
         \A t \in DOMAIN r.byToken : t \in DOMAIN minted' /\ r.byToken[t].maxUses = minted'[t].maxUses,
         config.sharedGrants => Keeps(Store(e), r)
  PROVE  VaultsKept
<1> DEFINE n == [r EXCEPT !.history = << >>]
<1>1. IsStore(n) /\ n.byToken = r.byToken
  BY RingDropped
<1>2. grants' = [grants EXCEPT ![StoreOf(e)] = n] /\ StoreOf(e) \in Evaluator
  BY OneVault DEF SetStore
<1>. HIDE DEF n
<1>3. (grants = [d \in Evaluator |-> grants[d]])'
  BY <1>2 DEF IndInv, TypeOK
<1>4. ASSUME NEW d \in Evaluator PROVE VaultOk(grants[d])'
  <2>1. CASE d = StoreOf(e)
    BY <1>1, <1>2, <2>1 DEF VaultOk, IndInv, TypeOK, IsStore
  <2>2. CASE d # StoreOf(e)
    <3>1. grants'[d] = grants[d]
      BY <1>2, <2>2 DEF IndInv, TypeOK
    <3>2. VaultOk(grants[d])
      BY DEF IndInv, TypeOK
    <3>. QED  BY <3>1, <3>2 DEF VaultOk, MintingGrows, IsStore
  <2>. QED  BY <2>1, <2>2
<1>5. ASSUME config.sharedGrants, NEW d \in Evaluator PROVE Keeps(Store(d), Store(d)')
  <2>1. StoreOf(d) = StoreOf(e) /\ StoreOf(d)' = StoreOf(d)
    BY <1>5, OneVault DEF StoreOf
  <2>2. Store(d) = Store(e) /\ Store(d)' = n
    BY <1>2, <2>1 DEF Store, IndInv, TypeOK
  <2>. QED  BY <1>1, <1>5, <2>2 DEF Keeps
<1>. QED  BY <1>3, <1>4, <1>5 DEF VaultsKept

\* A step that leaves the vaults alone.
LEMMA VaultsUnchanged ==
  ASSUME IndInv, UNCHANGED <<config, minted, grants>>
  PROVE  VaultsKept
BY DEF VaultsKept, MintingGrows, IndInv, TypeOK, SingleUseIsShared, VaultOk, IsStore, Store, StoreOf,
       Keeps

\* A token that was ridden on keeps its grant, and in the shared vault its mark.
LEMMA RidingKept ==
  ASSUME IndInv, VaultsKept, NEW e \in Evaluator,
         eval[e] # Idle, eval'[e].grant = eval[e].grant
  PROVE  Riding(e)'
<1> DEFINE t == eval[e].grant
<1>. SUFFICES ASSUME t # NoToken
              PROVE  /\ t \in DOMAIN minted'
                     /\ config.sharedGrants =>
                          /\ t \in DOMAIN Store(e)'.byToken
                          /\ minted'[t].maxUses = 1 => Store(e)'.byToken[t].consumed
  BY DEF Riding, VaultsKept
<1>1. /\ t \in DOMAIN minted
      /\ config.sharedGrants =>
           /\ t \in DOMAIN Store(e).byToken
           /\ minted[t].maxUses = 1 => Store(e).byToken[t].consumed
  BY DEF IndInv, Riding
<1>2. t \in DOMAIN minted' /\ minted'[t] = minted[t]
  BY <1>1 DEF VaultsKept, MintingGrows
<1>3. config.sharedGrants => Keeps(Store(e), Store(e)')
  BY DEF VaultsKept
<1>. QED  BY <1>1, <1>2, <1>3 DEF Keeps

\* A step by which no evaluation comes to ride on another token.
LEMMA KeptStep ==
  ASSUME IndInv, VaultsKept, TokensKept, now' \in Nat, Evaluations',
         (eval \in [Evaluator -> {Idle} \cup EvaluationRecord])'
  PROVE  IndInv'
<1>1. TypeOK'
  BY DEF TypeOK, VaultsKept, MintingGrows, IndInv
<1>2. ASSUME NEW e \in Evaluator PROVE Riding(e)'
  <2>1. CASE eval'[e] = Idle \/ eval'[e].grant = NoToken
    BY <2>1 DEF Riding
  <2>2. CASE eval[e] # Idle /\ eval'[e].grant = eval[e].grant
    BY <2>2, RidingKept
  <2>. QED  BY <2>1, <2>2 DEF TokensKept
<1>3. SingleUseAcrossEvaluations'
  <2>. SUFFICES ASSUME NEW e \in Evaluator, NEW f \in Evaluator, e # f,
                       eval'[e] # Idle, eval'[f] # Idle,
                       eval'[e].grant # NoToken, eval'[e].grant = eval'[f].grant
                PROVE  minted'[eval'[e].grant].maxUses # 1
    BY DEF SingleUseAcrossEvaluations
  <2>1. /\ eval[e] # Idle /\ eval'[e].grant = eval[e].grant
        /\ eval[f] # Idle /\ eval'[f].grant = eval[f].grant
    BY DEF TokensKept
  <2>2. minted[eval[e].grant].maxUses # 1
    BY <2>1 DEF IndInv, SingleUseAcrossEvaluations
  <2>3. eval[e].grant \in DOMAIN minted
    BY <2>1 DEF IndInv, Riding
  <2>. QED  BY <2>1, <2>2, <2>3 DEF VaultsKept, MintingGrows
<1>. QED  BY <1>1, <1>2, <1>3 DEF IndInv, Evaluations, VaultsKept

\* One evaluation becomes another record, and the others stay.
LEMMA BecomeOk ==
  ASSUME IndInv, config' = config, NEW e \in Evaluator, NEW y, Become(e, y),
         y = Idle \/ EvaluationOk(y)
  PROVE  /\ Evaluations'
         /\ (eval \in [Evaluator -> {Idle} \cup EvaluationRecord])'
         /\ eval'[e] = y
         /\ \A d \in Evaluator : d # e => eval'[d] = eval[d]
<1>1. eval' = [eval EXCEPT ![e] = y] /\ eval \in [Evaluator -> {Idle} \cup EvaluationRecord]
  BY DEF Become, IndInv, TypeOK
<1>2. y \in {Idle} \cup EvaluationRecord
  BY DEF EvaluationOk
<1>3. /\ eval'[e] = y /\ \A d \in Evaluator : d # e => eval'[d] = eval[d]
      /\ (eval \in [Evaluator -> {Idle} \cup EvaluationRecord])'
  BY <1>1, <1>2
<1>4. ASSUME NEW d \in Evaluator, eval'[d] # Idle PROVE EvaluationOk(eval[d])'
  <2>1. EvaluationOk(eval'[d])
    BY <1>3, <1>4 DEF IndInv
  <2>. QED  BY <2>1 DEF EvaluationOk, Inspected, Progress, AtApproval, Outcome, Refused, Waived,
            Explicit, Audited, Logged, Recorded, ControlPlaneRefuses, RiskFailure
<1>. QED  BY <1>3, <1>4 DEF Evaluations

\* The evaluation of e goes on with its token, the vaults having been kept.
LEMMA ContinueStep ==
  ASSUME IndInv, VaultsKept, now' \in Nat, NEW e \in Evaluator, eval[e] # Idle,
         Continues(e, eval[e].grant)
  PROVE  IndInv'
<1>1. PICK y : Become(e, y) /\ EvaluationOk(y) /\ y.grant = eval[e].grant
  BY DEF Continues
<1>2. config' = config
  BY DEF VaultsKept
<1>3. /\ Evaluations'
      /\ (eval \in [Evaluator -> {Idle} \cup EvaluationRecord])'
      /\ eval'[e] = y
      /\ \A d \in Evaluator : d # e => eval'[d] = eval[d]
  BY <1>1, <1>2, BecomeOk
<1>4. TokensKept
  BY <1>1, <1>3 DEF TokensKept
<1>. QED  BY <1>3, <1>4, KeptStep

\* The store of an evaluation is a vault of minted grants.
LEMMA StoreIsVault ==
  ASSUME IndInv, NEW e \in Evaluator
  PROVE  VaultOk(Store(e))
BY OneVault DEF IndInv, TypeOK, Store

\* Writing a store that retires grants of the one before.
LEMMA RetiringKept ==
  ASSUME IndInv, NEW e \in Evaluator, NEW r, IsStore(r), Retires(Store(e), r), SetStore(e, r),
         UNCHANGED <<config, minted>>
  PROVE  VaultsKept
<1>1. VaultOk(Store(e)) /\ Keeps(Store(e), r) /\ DOMAIN r.byToken = DOMAIN Store(e).byToken
  <2>1. VaultOk(Store(e)) /\ IsStore(Store(e))
    BY StoreIsVault DEF VaultOk
  <2>2. Keeps(Store(e), r)
    BY <2>1, RetiringKeeps
  <2>. QED  BY <2>1, <2>2 DEF Retires
<1>2. MintingGrows /\ SingleUseIsShared'
  BY DEF MintingGrows, IndInv, TypeOK, SingleUseIsShared
<1>3. \A t \in DOMAIN r.byToken : t \in DOMAIN minted' /\ r.byToken[t].maxUses = minted'[t].maxUses
  BY <1>1 DEF VaultOk, Keeps
<1>. QED  BY <1>1, <1>2, <1>3, SetStoreKept

\* Looking a grant up in vain leaves a store that at most retires grants.
LEMMA LookupRetires ==
  ASSUME IndInv, NEW e \in Evaluator
  PROVE  IsStore(AfterLookup(e)) /\ Retires(Store(e), AfterLookup(e))
<1>1. IsStore(Store(e))
  BY StoreIsVault DEF VaultOk
<1>2. Retires(Store(e), Store(e))
  BY DEF Retires
<1>. QED  BY <1>1, <1>2, MissRetires DEF AfterLookup

\* Retiring twice is retiring.
LEMMA RetiresTwice ==
  ASSUME NEW s, IsStore(s), NEW r, Retires(s, r), NEW q, Retires(r, q)
  PROVE  Retires(s, q)
<1>1. \A g \in Grant :
        [[g EXCEPT !.consumed = TRUE] EXCEPT !.consumed = TRUE] = [g EXCEPT !.consumed = TRUE]
  BY DEF Grant
<1>. QED  BY <1>1 DEF Retires, IsStore

\* The lookup that found no grant.
LEMMA NoGrantKept ==
  ASSUME IndInv, NEW e \in Evaluator, NoGrant(e), UNCHANGED <<config, minted>>
  PROVE  VaultsKept
<1> DEFINE s == AfterLookup(e)
           r == AfterSessionMiss(s, eval[e].action, now)
<1>1. IsStore(s) /\ Retires(Store(e), s) /\ IsStore(Store(e))
  BY LookupRetires, StoreIsVault DEF VaultOk
<1>2. SetStore(e, r)
  BY DEF NoGrant
<1>. HIDE DEF s
<1>3. IsStore(r) /\ Retires(s, r)
  BY <1>1, MissRetires
<1>. HIDE DEF r
<1>. QED  BY <1>1, <1>2, <1>3, RetiresTwice, RetiringKept

\* A token the lookup authorizes is of a grant in the store it leaves, not consumed.
LEMMA AuthorizingUsable ==
  ASSUME NEW e \in Evaluator, NEW t \in Authorizing(e)
  PROVE  t \in DOMAIN AfterLookup(e).byToken /\ ~AfterLookup(e).byToken[t].consumed
BY DEF Authorizing, AfterLookup, ExactHit, SessionHit, Usable, Presentable

\* The use of a grant: it is in the vault and unspent, so nobody rides on it yet when
\* it is for single use, and it is consumed when this step is done.
LEMMA ReuseGrantStep ==
  ASSUME IndInv, NEW e \in Evaluator, NEW accepted \in BOOLEAN, ReuseGrant(e, accepted)
  PROVE  IndInv'
<1> DEFINE x == eval[e]
           m == StageMarkers(x)
           z == Emit(x, m, accepted)
           s == AfterLookup(e)
<1>1. PICK t \in Authorizing(e) :
        /\ SetStore(e, Spend(s, t))
        /\ Become(e, [z EXCEPT !.pc = "granted", !.grant = t])
  BY DEF ReuseGrant
<1>2. x # Idle /\ EvaluationOk(x) /\ x.pc = "inspected" /\ config \in Config
  BY UnderWay DEF IndInv, TypeOK, Evaluations, ReuseGrant, AwaitsApproval, PastRisk, Ruling
<1> DEFINE y == [z EXCEPT !.pc = "granted", !.grant = t]
           r == Spend(s, t)
<1>3. t \in DOMAIN s.byToken /\ ~s.byToken[t].consumed
  BY AuthorizingUsable
<1>4. IsStore(s) /\ Retires(Store(e), s) /\ VaultOk(Store(e)) /\ IsStore(Store(e))
  BY LookupRetires, StoreIsVault DEF VaultOk
<1>. HIDE DEF s
<1>5. Keeps(Store(e), s) /\ t \in DOMAIN Store(e).byToken
  <2>1. Keeps(Store(e), s)
    BY <1>4, RetiringKeeps
  <2>. QED  BY <1>3, <1>4, <2>1 DEF Retires
<1>6. /\ IsStore(r) /\ Keeps(s, r) /\ DOMAIN r.byToken = DOMAIN s.byToken
      /\ s.byToken[t].maxUses = 1 => r.byToken[t].consumed
  BY <1>3, <1>4, SpendKeeps
<1>. HIDE DEF r
<1>7. VaultsKept
  <2>1. Keeps(Store(e), r) /\ DOMAIN r.byToken = DOMAIN Store(e).byToken
    BY <1>4, <1>5, <1>6 DEF Keeps, Retires
  <2>2. UNCHANGED <<config, minted>>
    BY DEF ReuseGrant
  <2>3. MintingGrows /\ SingleUseIsShared'
    BY <2>2 DEF MintingGrows, IndInv, TypeOK, SingleUseIsShared
  <2>4. \A u \in DOMAIN r.byToken : u \in DOMAIN minted' /\ r.byToken[u].maxUses = minted'[u].maxUses
    BY <1>4, <2>1, <2>2 DEF VaultOk, Keeps
  <2>5. SetStore(e, r)
    BY <1>1 DEF r
  <2>. QED  BY <1>6, <2>1, <2>2, <2>3, <2>4, <2>5, SetStoreKept
<1>8. /\ t \in DOMAIN minted /\ minted' = minted /\ config' = config /\ now' = now
      /\ minted[t].maxUses = s.byToken[t].maxUses /\ t \in Nat /\ t # NoToken
  <2>1. t \in DOMAIN minted /\ minted[t].maxUses = Store(e).byToken[t].maxUses
    BY <1>4, <1>5 DEF VaultOk
  <2>2. DOMAIN minted \subseteq Nat \ {0}
    BY DEF IndInv, TypeOK
  <2>. QED  BY <1>5, <2>1, <2>2 DEF Keeps, NoToken, ReuseGrant
<1>9. EvaluationOk(y) /\ y.grant = t
  <2>1. x \in EvaluationRecord /\ Inspected(x) /\ x.recorded = 0 /\ x.answer = "none"
    BY <1>2 DEF EvaluationOk, Progress
  <2>2. ~Refused(x)
    BY DEF ReuseGrant, AwaitsApproval, PastRisk, Ruling, Refused
  <2>3. m \in SUBSET Marker
    BY <2>1, MarkersOfFailures
  <2>4. /\ z \in EvaluationRecord /\ z.trail = x.trail \cup m /\ z.recorded = 0
        /\ SameCase(x, z) /\ SameApproval(x, z)
    BY <2>1, <2>3, EmitFrame
  <2>. HIDE DEF z
  <2>5. /\ y \in EvaluationRecord /\ y.pc = "granted" /\ y.trail = z.trail /\ y.recorded = 0
        /\ SameCase(x, y) /\ y.grant = t /\ y.answer = "none"
    BY <1>8, <2>1, <2>4 DEF EvaluationRecord, SameCase, SameApproval
  <2>. HIDE DEF y
  <2>6. Inspected(y) /\ ~Refused(y) /\ StageMarkers(y) \subseteq y.trail
    BY <2>1, <2>2, <2>4, <2>5, SameJudgment
  <2>. QED  BY <1>8, <2>5, <2>6 DEF EvaluationOk, Progress, AtApproval
<1>10. Become(e, y)
  BY <1>1
<1>. HIDE DEF y
<1>11. /\ Evaluations'
       /\ (eval \in [Evaluator -> {Idle} \cup EvaluationRecord])'
       /\ eval'[e] = y
       /\ \A d \in Evaluator : d # e => eval'[d] = eval[d]
  BY <1>8, <1>9, <1>10, BecomeOk
<1>12. TypeOK'
  BY <1>7, <1>8, <1>11 DEF TypeOK, VaultsKept, MintingGrows, IndInv
<1>13. ASSUME NEW d \in Evaluator, d # e PROVE Riding(d)'
  <2>1. CASE eval[d] = Idle
    BY <1>11, <1>13, <2>1 DEF Riding
  <2>2. CASE eval[d] # Idle
    BY <1>7, <1>11, <1>13, <2>2, RidingKept
  <2>. QED  BY <2>1, <2>2
<1>14. Riding(e)'
  <2>1. config.sharedGrants => Store(e)'.byToken = r.byToken
    <3>1. StoreOf(e)' = StoreOf(e) /\ StoreOf(e) \in Evaluator
      BY <1>8, OneVault DEF StoreOf
    <3>2. Store(e)' = [r EXCEPT !.history = << >>]
      BY <1>1, <3>1 DEF Store, SetStore, r, IndInv, TypeOK
    <3>. QED  BY <1>6, <3>2, RingDropped
  <2>. QED  BY <1>3, <1>6, <1>8, <1>9, <1>11, <2>1 DEF Riding
<1>15. ASSUME NEW d \in Evaluator, d # e, eval[d] # Idle, eval[d].grant = t
       PROVE  minted[t].maxUses # 1
  <2>. SUFFICES ASSUME minted[t].maxUses = 1 PROVE FALSE
    OBVIOUS
  <2>1. config.sharedGrants
    BY <1>8 DEF IndInv, SingleUseIsShared
  <2>2. Store(d) = Store(e)
    BY <2>1, OneVault DEF Store
  <2>3. Store(e).byToken[t].consumed
    BY <1>8, <1>15, <2>1, <2>2 DEF IndInv, Riding
  <2>. QED  BY <1>3, <1>5, <2>3 DEF Keeps
<1>16. SingleUseAcrossEvaluations'
  <2>. SUFFICES ASSUME NEW d \in Evaluator, NEW f \in Evaluator, d # f,
                       eval'[d] # Idle, eval'[f] # Idle,
                       eval'[d].grant # NoToken, eval'[d].grant = eval'[f].grant
                PROVE  minted[eval'[d].grant].maxUses # 1
    BY <1>8 DEF SingleUseAcrossEvaluations
  <2>1. CASE d # e /\ f # e
    BY <1>11, <2>1 DEF IndInv, SingleUseAcrossEvaluations
  <2>2. CASE d = e
    BY <1>9, <1>11, <1>15, <2>2
  <2>3. CASE f = e
    BY <1>9, <1>11, <1>15, <2>3
  <2>. QED  BY <2>1, <2>2, <2>3
<1>. QED  BY <1>7, <1>11, <1>12, <1>13, <1>14, <1>16 DEF IndInv, VaultsKept, Evaluations

\* A minted grant goes into the vault of its evaluation under a new token.
LEMMA MintedKept ==
  ASSUME IndInv, NEW e \in Evaluator, NEW g \in Grant, config' = config,
         g.maxUses = 1 => config.sharedGrants,
         minted' = Append(minted, g), SetStore(e, Insert(Store(e), Len(minted) + 1, g))
  PROVE  VaultsKept
<1> DEFINE t == Len(minted) + 1
           r == Insert(Store(e), t, g)
<1>1. minted \in Seq(Grant) /\ VaultOk(Store(e)) /\ IsStore(Store(e))
  BY StoreIsVault DEF IndInv, TypeOK, VaultOk
<1>2. /\ minted' \in Seq(Grant) /\ DOMAIN minted = 1 .. Len(minted)
      /\ DOMAIN minted' = 1 .. t /\ minted'[t] = g /\ t \notin DOMAIN minted
      /\ \A u \in DOMAIN minted : u \in DOMAIN minted' /\ minted'[u] = minted[u]
  BY <1>1
<1>3. t \notin DOMAIN Store(e).byToken /\ t \in DOMAIN minted'
  BY <1>1, <1>2 DEF VaultOk
<1>. HIDE DEF t
<1>4. /\ IsStore(r) /\ Keeps(Store(e), r) /\ DOMAIN r.byToken = DOMAIN Store(e).byToken \cup {t}
      /\ r.byToken[t] = g
  BY <1>1, <1>3, InsertKeeps
<1>5. SetStore(e, r)
  BY DEF t
<1>. HIDE DEF r
<1>6. \A u \in DOMAIN r.byToken : u \in DOMAIN minted' /\ r.byToken[u].maxUses = minted'[u].maxUses
  BY <1>1, <1>2, <1>3, <1>4 DEF VaultOk, Keeps
<1>7. MintingGrows
  BY <1>2 DEF MintingGrows
<1>8. SingleUseIsShared'
  <2>1. \A u \in DOMAIN minted' : u \in DOMAIN minted \/ u = t
    BY <1>1, <1>2 DEF t
  <2>. QED  BY <1>2, <2>1 DEF SingleUseIsShared, IndInv
<1>. QED  BY <1>4, <1>5, <1>6, <1>7, <1>8, SetStoreKept

\* A grant for a well-formed action.
LEMMA NewGrantTyped ==
  ASSUME NEW scope \in {"ExactAction", "SessionTool"}, NEW a \in Action, NEW expiresAt \in Nat,
         NEW maxUses \in {1, Unlimited}
  PROVE  NewGrant(scope, a, expiresAt, maxUses) \in Grant
         /\ NewGrant(scope, a, expiresAt, maxUses).maxUses = maxUses
BY DEF NewGrant, Grant

\* An embedder issues a single-use grant, which only a shared vault can receive.
LEMMA IssueOnceStep ==
  ASSUME IndInv, NEW a \in Action, IssueOnce(a)
  PROVE  IndInv'
<1> DEFINE g == NewGrant("ExactAction", a, now + OnceTtl, 1)
           e == CHOOSE any \in Evaluator : TRUE
<1>1. /\ config.sharedGrants /\ minted' = Append(minted, g)
      /\ SetStore(e, Insert(Store(e), Len(minted) + 1, g))
      /\ UNCHANGED <<config, now, eval>>
  BY DEF IssueOnce
<1>2. g \in Grant
  <2>1. now + OnceTtl \in Nat
    BY BoundsAssumption DEF IndInv, TypeOK
  <2>. QED  BY <2>1, NewGrantTyped
<1>3. CASE Evaluator = {}
  <2>1. Evaluations' /\ TokensKept /\ (eval \in [Evaluator -> {Idle} \cup EvaluationRecord])'
    BY <1>1, <1>3 DEF Evaluations, TokensKept, IndInv, TypeOK
  <2>2. (grants = [d \in Evaluator |-> grants[d]])'
    BY <1>1, <1>3 DEF SetStore, IndInv, TypeOK
  <2>3. MintingGrows /\ SingleUseIsShared' /\ now' \in Nat
    BY <1>1, <1>2 DEF MintingGrows, SingleUseIsShared, IndInv, TypeOK
  <2>4. VaultsKept
    BY <1>1, <1>3, <2>2, <2>3 DEF VaultsKept
  <2>. QED  BY <2>1, <2>3, <2>4, KeptStep
<1>4. CASE Evaluator # {}
  <2>1. e \in Evaluator
    BY <1>4
  <2>. HIDE DEF e, g
  <2>2. VaultsKept
    BY <1>1, <1>2, <2>1, MintedKept
  <2>3. Evaluations' /\ TokensKept /\ (eval \in [Evaluator -> {Idle} \cup EvaluationRecord])'
        /\ now' \in Nat
    <3>1. TokensKept /\ (eval \in [Evaluator -> {Idle} \cup EvaluationRecord])' /\ now' \in Nat
      BY <1>1 DEF TokensKept, IndInv, TypeOK
    <3>2. Evaluations'
      BY <1>1 DEF Evaluations, IndInv, EvaluationOk, Inspected, Progress, AtApproval, Outcome,
         Refused, Waived, Explicit, Audited, Logged, Recorded, ControlPlaneRefuses, RiskFailure
    <3>. QED  BY <3>1, <3>2
  <2>. QED  BY <2>2, <2>3, KeptStep
<1>. QED  BY <1>3, <1>4

\* The grants an approval leaves behind are never for single use.
LEMMA JudgeKept ==
  ASSUME IndInv, NEW e \in Evaluator, NEW accepted \in BOOLEAN, Judge(e, accepted)
  PROVE  VaultsKept
<1> DEFINE x == eval[e]
<1>1. x \in EvaluationRecord
  BY UnderWay DEF IndInv, Evaluations, Judge, EvaluationOk
<1>2. MintedFor(x) \subseteq {g \in Grant : g.maxUses = Unlimited}
  <2>1. now + SessionTtl \in Nat /\ x.until \in Nat /\ x.action \in Action
    BY <1>1, BoundsAssumption DEF IndInv, TypeOK, EvaluationRecord
  <2>2. /\ NewGrant("SessionTool", x.action, now + SessionTtl, Unlimited)
              \in {g \in Grant : g.maxUses = Unlimited}
        /\ NewGrant("ExactAction", x.action, x.until, Unlimited)
              \in {g \in Grant : g.maxUses = Unlimited}
    BY <2>1, NewGrantTyped
  <2>. QED  BY <2>2 DEF MintedFor
<1>3. UNCHANGED <<config, now>> /\ Mint(e, MintedFor(x))
  BY DEF Judge
<1>4. CASE MintedFor(x) = {}
  BY <1>3, <1>4, VaultsUnchanged DEF Mint
<1>5. CASE MintedFor(x) # {}
  <2>1. PICK g \in MintedFor(x) :
          /\ minted' = Append(minted, g)
          /\ SetStore(e, Insert(Store(e), Len(minted) + 1, g))
    BY <1>3, <1>5 DEF Mint
  <2>2. g \in Grant /\ g.maxUses # 1
    BY <1>2, UsesLimitAssumption DEF Unlimited
  <2>. QED  BY <1>3, <2>1, <2>2, MintedKept
<1>. QED  BY <1>4, <1>5

\* An action is presented: a task with a vault of its own starts from an empty one.
LEMMA InspectStep ==
  ASSUME IndInv, NEW e \in Evaluator, NEW a \in Action, NEW p \in PolicyInput, NEW r \in RiskInput,
         Inspect(e, a, p, r)
  PROVE  IndInv'
<1> DEFINE y == Evaluation(a, p, r)
<1>1. /\ FreshStore(e) /\ Become(e, y) /\ UNCHANGED <<config, now, minted>>
      /\ config \in Config
  BY DEF Inspect, IndInv, TypeOK
<1>2. VaultsKept
  <2>1. CASE config.sharedGrants
    BY <1>1, <2>1, VaultsUnchanged DEF FreshStore
  <2>2. CASE ~config.sharedGrants
    <3>1. SetStore(e, EmptyStore)
      BY <1>1, <2>2 DEF FreshStore
    <3>2. IsStore(EmptyStore) /\ DOMAIN EmptyStore.byToken = {}
      BY DEF EmptyStore, IsStore, NoEntries
    <3>3. MintingGrows /\ SingleUseIsShared'
      BY <1>1 DEF MintingGrows, IndInv, TypeOK, SingleUseIsShared
    <3>. QED  BY <1>1, <2>2, <3>1, <3>2, <3>3, SetStoreKept
  <2>. QED  BY <2>1, <2>2
<1>3. EvaluationOk(y) /\ y.grant = NoToken
  BY <1>1, InspectOk
<1>. HIDE DEF y
<1>4. /\ Evaluations'
      /\ (eval \in [Evaluator -> {Idle} \cup EvaluationRecord])'
      /\ eval'[e] = y
      /\ \A d \in Evaluator : d # e => eval'[d] = eval[d]
  BY <1>1, <1>3, BecomeOk
<1>5. TokensKept /\ now' \in Nat
  BY <1>1, <1>3, <1>4 DEF TokensKept, IndInv, TypeOK
<1>. QED  BY <1>2, <1>4, <1>5, KeptStep

\* The outcome is taken and the task is idle again.
LEMMA ReturnStep ==
  ASSUME IndInv, NEW e \in Evaluator, Return(e)
  PROVE  IndInv'
<1>1. Become(e, Idle) /\ UNCHANGED <<config, now, minted, grants>>
  BY DEF Return
<1>2. /\ Evaluations'
      /\ (eval \in [Evaluator -> {Idle} \cup EvaluationRecord])'
      /\ eval'[e] = Idle
      /\ \A d \in Evaluator : d # e => eval'[d] = eval[d]
  BY <1>1, BecomeOk
<1>3. TokensKept /\ now' \in Nat
  BY <1>1, <1>2 DEF TokensKept, IndInv, TypeOK
<1>. QED  BY <1>1, <1>2, <1>3, VaultsUnchanged, KeptStep

\* Every step of one evaluation.
LEMMA StepKeepsInvariant ==
  ASSUME IndInv, NEW e \in Evaluator, Step(e)
  PROVE  IndInv'
<1>1. config \in Config /\ Evaluations /\ now \in Nat
  BY DEF IndInv, TypeOK, Evaluations
<1>2. ASSUME NEW accepted \in BOOLEAN,
             \/ RefuseDetached(e, accepted)
             \/ SettleByPolicy(e, accepted)
             \/ DenyByRisk(e, accepted)
             \/ AllowOnMerits(e, accepted)
      PROVE  IndInv'
  <2>1. UNCHANGED <<config, now, minted, grants>>
    BY <1>2 DEF RefuseDetached, SettleByPolicy, DenyByRisk, AllowOnMerits
  <2>2. eval[e] # Idle /\ Continues(e, eval[e].grant)
    BY <1>1, <1>2, SettlesEarly
  <2>. QED  BY <1>1, <2>1, <2>2, VaultsUnchanged, ContinueStep
<1>3. ASSUME NEW accepted \in BOOLEAN, AllowGranted(e, accepted) PROVE IndInv'
  <2>1. UNCHANGED <<config, now, minted, grants>>
    BY <1>3 DEF AllowGranted
  <2>. QED  BY <1>1, <1>3, <2>1, GrantedStep, VaultsUnchanged, ContinueStep
<1>4. ASSUME NEW accepted \in BOOLEAN, Defer(e, accepted) \/ Prompt(e, accepted) PROVE IndInv'
  <2>1. UNCHANGED <<config, now, minted>> /\ NoGrant(e)
    BY <1>4 DEF Defer, Prompt
  <2>2. eval[e] # Idle /\ Continues(e, eval[e].grant)
    BY <1>1, <1>4, DeferStep, PromptStep
  <2>. QED  BY <1>1, <2>1, <2>2, NoGrantKept, ContinueStep
<1>5. ASSUME NEW accepted \in BOOLEAN, Judge(e, accepted) PROVE IndInv'
  <2>1. now' = now
    BY <1>5 DEF Judge
  <2>. QED  BY <1>1, <1>5, <2>1, JudgeStep, JudgeKept, ContinueStep
<1>6. ASSUME NEW answer \in Judgment \ {"none"}, Resolve(e, answer) PROVE IndInv'
  <2>1. UNCHANGED <<config, now, minted, grants>>
    BY <1>6 DEF Resolve
  <2>. QED  BY <1>1, <1>6, <2>1, ResolveStep, VaultsUnchanged, ContinueStep
<1>7. CASE Proceeds(e)
  <2>1. \A answer \in {"Denied", "TimedOut"} : answer \in Judgment \ {"none"}
    BY DEF Judgment, NoJudgment
  <2>. QED  BY <1>2, <1>3, <1>4, <1>5, <1>6, <1>7, <2>1, ReuseGrantStep DEF Proceeds, TimeOut
<1>8. CASE Answer(e)
  <2>1. \A answer \in Approvals \cup {"Denied", "Unavailable"} : answer \in Judgment \ {"none"}
    BY DEF Judgment, NoJudgment, Approvals
  <2>. QED  BY <1>6, <1>8, <2>1 DEF Answer
<1>. QED  BY <1>7, <1>8, InspectStep, ReturnStep DEF Step

\* The clock.
LEMMA TickStep == IndInv /\ Tick => IndInv'
<1>. SUFFICES ASSUME IndInv, Tick PROVE IndInv'
  OBVIOUS
<1>1. UNCHANGED <<config, minted, grants, eval>> /\ now' \in Nat
  BY DEF Tick, IndInv, TypeOK
<1>2. Evaluations'
  BY <1>1 DEF Evaluations, IndInv, EvaluationOk, Inspected, Progress, AtApproval, Outcome,
     Refused, Waived, Explicit, Audited, Logged, Recorded, ControlPlaneRefuses, RiskFailure
<1>3. TokensKept /\ (eval \in [Evaluator -> {Idle} \cup EvaluationRecord])'
  BY <1>1 DEF TokensKept, IndInv, TypeOK
<1>. QED  BY <1>1, <1>2, <1>3, VaultsUnchanged, KeptStep

\* The invariant is inductive, for every deployment and every interleaving.
LEMMA NextIndInv == IndInv /\ [Next]_vars => IndInv'
<1>. SUFFICES ASSUME IndInv, [Next]_vars PROVE IndInv'
  OBVIOUS
<1>1. CASE UNCHANGED vars
  <2>1. UNCHANGED <<config, minted, grants, eval>> /\ now' \in Nat
    BY <1>1 DEF vars, IndInv, TypeOK
  <2>2. Evaluations'
    BY <2>1 DEF Evaluations, IndInv, EvaluationOk, Inspected, Progress, AtApproval, Outcome,
       Refused, Waived, Explicit, Audited, Logged, Recorded, ControlPlaneRefuses, RiskFailure
  <2>3. TokensKept /\ (eval \in [Evaluator -> {Idle} \cup EvaluationRecord])'
    BY <2>1 DEF TokensKept, IndInv, TypeOK
  <2>. QED  BY <2>1, <2>2, <2>3, VaultsUnchanged, KeptStep
<1>. QED  BY <1>1, TickStep, IssueOnceStep, StepKeepsInvariant DEF Next

\* Every gateway starts idle, with an empty vault.
LEMMA InitIndInv == Init => IndInv
<1>. SUFFICES ASSUME Init PROVE IndInv
  OBVIOUS
<1>1. /\ config \in Config /\ now = 0 /\ minted = << >>
      /\ grants = [e \in Evaluator |-> EmptyStore] /\ eval = [e \in Evaluator |-> Idle]
  BY DEF Init
<1>2. IsStore(EmptyStore) /\ DOMAIN EmptyStore.byToken = {}
  BY DEF EmptyStore, IsStore, NoEntries
<1>3. \A e \in Evaluator : VaultOk(grants[e])
  BY <1>1, <1>2 DEF VaultOk
<1>4. \A e \in Evaluator : eval[e] = Idle
  BY <1>1
<1>. QED  BY <1>1, <1>3, <1>4 DEF IndInv, TypeOK, SingleUseIsShared, Riding, SingleUseAcrossEvaluations

-----------------------------------------------------------------------------
(* What follows. *)

\* Whatever the stages answer and however evaluations, approvers and the clock
\* interleave, every evaluation is where its record says and every vault is sound.
THEOREM GatewayInvariant == Spec => []IndInv
BY InitIndInv, NextIndInv, PTL DEF Spec

\* A settled evaluation is one whose outcome has every part the properties name.
LEMMA SettledOutcome ==
  ASSUME IndInv, NEW e \in Evaluator, eval[e].pc = "settled"
  PROVE  EvaluationOk(eval[e]) /\ Outcome(eval[e])
BY DEF IndInv, Idle, EvaluationOk, Progress

\* A control that broke never leads to an allow by default, for any failure policy.
THEOREM NeverAllowedByDefault == Spec => []NoAllowByDefault
<1>1. IndInv => NoAllowByDefault
  BY SettledOutcome DEF NoAllowByDefault, Settled, Outcome, Waived
<1>. QED  BY <1>1, GatewayInvariant, PTL

\* What policy or risk asks an approval for is allowed only when somebody approved,
\* for any threshold and any set of signals.
THEOREM ApprovalIsNeverImplied == Spec => []ApprovalIsExplicit
<1>1. IndInv => ApprovalIsExplicit
  BY SettledOutcome DEF ApprovalIsExplicit, Settled, Outcome, Explicit, Asked
<1>. QED  BY <1>1, GatewayInvariant, PTL

\* Every failure is on the audit trail when the outcome is settled.
THEOREM FailuresAlwaysAudited == Spec => []FailuresAreAudited
<1>1. IndInv => FailuresAreAudited
  BY SettledOutcome DEF FailuresAreAudited, Outcome, Audited
<1>. QED  BY <1>1, GatewayInvariant, PTL

\* With a mandatory audit trail no action is allowed off the record.
THEOREM NothingUnloggedIsAllowed == Spec => []UnloggedIsNotAllowed
<1>1. IndInv => UnloggedIsNotAllowed
  BY SettledOutcome DEF UnloggedIsNotAllowed, Settled, Outcome, Logged
<1>. QED  BY <1>1, GatewayInvariant, PTL

\* The session records an action once, and never while its prompt is open.
THEOREM AlwaysRecordedOnce == Spec => []RecordedOnce
<1>1. IndInv => RecordedOnce
  <2>. SUFFICES ASSUME IndInv, NEW e \in Evaluator, eval[e] # Idle
                PROVE  eval[e].recorded = IF eval[e].pc = "answered"
                                             \/ (eval[e].pc = "settled" /\ ~Refused(eval[e]))
                                          THEN 1 ELSE 0
    BY DEF RecordedOnce, Refused
  <2>1. EvaluationOk(eval[e])
    BY DEF IndInv
  <2>2. eval[e].pc \in {"inspected", "granted", "prompting", "answered", "settled"}
    BY <2>1 DEF EvaluationOk, EvaluationRecord
  <2>. QED  BY <2>1, <2>2 DEF EvaluationOk, Progress, Outcome, Recorded
<1>. QED  BY <1>1, GatewayInvariant, PTL

\* Two evaluations under way never ride on one single-use grant, for any number of
\* evaluations and grants.
THEOREM SingleUseAcross == Spec => []SingleUseAcrossEvaluations
<1>1. IndInv => SingleUseAcrossEvaluations
  BY DEF IndInv
<1>. QED  BY <1>1, GatewayInvariant, PTL
=============================================================================
