------------------------------ MODULE Gateway ------------------------------
(***************************************************************************)
(* AgentExecutionGateway::run (gateway/mod.rs): concurrent evaluations of  *)
(* agent actions through policy, risk and approval, with a grant store     *)
(* they may share.                                                         *)
(*                                                                         *)
(* Policy and risk run without awaiting anything and touch nothing that    *)
(* other evaluations change, so they are one step, Inspect.  What follows  *)
(* is one step per lock taken or future awaited: the grant lookup, the     *)
(* approver's prompt, and the step that settles the outcome.               *)
(*                                                                         *)
(* The audit ring of the store is the subject of ApprovalGrants; here its  *)
(* entries are left out and the grants and indexes kept.                   *)
(***************************************************************************)
EXTENDS GrantStore, PolicyStage, RiskStage

CONSTANTS
  Evaluator,    \* tasks that evaluate actions
  Action,       \* the actions they present
  PolicyInput,  \* what the policy layers may answer (see PolicyStage)
  RiskInput,    \* what the scanners may find (see RiskStage)
  Config,       \* deployments: one is picked and kept for the whole behaviour
  Threshold,    \* resolve_risk_threshold
  MaxGrants,    \* bound: grants minted in a behaviour
  MaxTime,      \* bound: the last instant the clock reaches
  OnceTtl,      \* DEFAULT_ONCE_TTL
  SessionTtl,   \* DEFAULT_SESSION_TTL
  TimedTtl      \* DEFAULT_TIMED_APPROVAL

ASSUME ConfigAssumption ==
  \A c \in Config :
    /\ c.failure \in [Subsystem -> FailureMode]
    /\ {c.requireControlPlane, c.attached, c.approver, c.sharedGrants} \subseteq BOOLEAN

ASSUME InputAssumption == PolicyInput \subseteq PolicyAnswer /\ RiskInput \subseteq RiskAnswer
ASSUME BoundsAssumption ==
  {Threshold, MaxGrants, MaxTime, OnceTtl, SessionTtl, TimedTtl} \subseteq Nat

VARIABLES
  config,  \* the deployment (GatewayBuilder)
  now,     \* the wall clock
  minted,  \* every grant minted so far; the grant with token t is minted[t]
  grants,  \* the ApprovalGrantStore of each gateway
  eval     \* what each task is in the middle of

vars == <<config, now, minted, grants, eval>>

Token == 1 .. MaxGrants
NoToken == 0

Idle == [pc |-> "idle"]

Init ==
  /\ config \in Config
  /\ now = 0
  /\ minted = << >>
  /\ grants = [e \in Evaluator |-> EmptyStore]
  /\ eval = [e \in Evaluator |-> Idle]

Become(e, x) == eval' = [eval EXCEPT ![e] = x]

\* Gateways built around one ApprovalGrantStore share it; a gateway built without
\* one owns a store that is dropped with it.
StoreOf(e) == IF config.sharedGrants THEN CHOOSE any \in Evaluator : TRUE ELSE e

Store(e) == grants[StoreOf(e)]

\* The audit ring of a store is left out of this model.
SetStore(e, store) == grants' = [grants EXCEPT ![StoreOf(e)] = [store EXCEPT !.history = << >>]]

-----------------------------------------------------------------------------
(* Settling an outcome. *)

Markers(failures) == {<<"security_failure", s>> : s \in failures}

\* What a step emits to the audit sink, and whether every record was accepted.
Emit(x, markers, accepted) ==
  [x EXCEPT !.trail = @ \cup markers, !.auditFailed = @ \/ ~accepted]

\* Mutant of Finish: the sink failure is noted and the verdict stands.
FinishIgnoringAudit(x, decision, payload) ==
  [x EXCEPT !.pc = "settled", !.decision = decision, !.payload = payload]

\* Trace::finish: one place turns a sink failure into a denial, when the mode of
\* the audit subsystem says so.
Finish(x, decision, payload) ==
  LET refused == x.auditFailed /\ config.failure["Audit"] = "FailClosed"
  IN  [x EXCEPT !.pc = "settled",
                !.decision = IF refused THEN "Deny" ELSE decision,
                !.payload = payload]

\* The payload of an allow; a denial carries none.
FinishAllow(x) ==
  LET y == Finish(x, "Allow", x.risk.payload)
  IN  IF y.decision = "Allow" THEN y ELSE [y EXCEPT !.payload = "original"]

\* RiskStage::record and BehaviorEngine::record.
RecordInSession(x) == [x EXCEPT !.recorded = @ + 1]

-----------------------------------------------------------------------------
(* Inspection. *)

Evaluation(a, p, r) ==
  [ pc |-> "inspected", action |-> a, saw |-> p, scan |-> r,
    policy |-> EvaluatePolicy(p, config.failure), risk |-> AssessRisk(r, Threshold),
    trail |-> {}, auditFailed |-> FALSE, recorded |-> 0,
    grant |-> NoToken, answer |-> "none", until |-> 0,
    decision |-> "none", payload |-> "original" ]

\* Every evaluation that does not share a store starts from an empty one.
FreshStore(e) ==
  IF config.sharedGrants THEN UNCHANGED grants ELSE SetStore(e, EmptyStore)

\* A payload the scanners could not parse is one the policy engine cannot read.
Consistent(p, r) ==
  r.content.degraded /\ r.content # Panicked => p.verdict \in {"NoEngine", "Broken", "Unevaluable"}

Inspect(e, a, p, r) ==
  /\ eval[e] = Idle
  /\ Consistent(p, r)
  /\ Become(e, Evaluation(a, p, r))
  /\ FreshStore(e)
  /\ UNCHANGED <<config, now, minted>>

ControlPlaneRefuses(x) == config.requireControlPlane /\ ~config.attached

RefuseDetached(e, accepted) ==
  /\ eval[e].pc = "inspected"
  /\ ControlPlaneRefuses(eval[e])
  /\ LET x == Emit(eval[e], Markers({"ControlPlane"}), accepted)
     IN  Become(e, Finish(x, "Deny", "original"))
  /\ UNCHANGED <<config, now, minted, grants>>

Ruling(e) == eval[e].pc = "inspected" /\ ~ControlPlaneRefuses(eval[e])

\* The policy stage ended the pipeline: its payload goes with its decision.
SettleByPolicy(e, accepted) ==
  /\ Ruling(e)
  /\ eval[e].policy.terminal
  /\ LET p == eval[e].policy
         x == Emit(eval[e], Markers(p.failures) \cup {<<"policy", p.decision>>}, accepted)
     IN  Become(e, Finish(x, p.decision, p.payload))
  /\ UNCHANGED <<config, now, minted, grants>>

RiskFailure(x) == Severest(config.failure, x.risk.failures)

\* What both stages report before the outcome is settled.
StageMarkers(x) == Markers(x.policy.failures \cup x.risk.failures)

DenyByRisk(e, accepted) ==
  /\ Ruling(e)
  /\ ~eval[e].policy.terminal
  /\ RiskFailure(eval[e]) = "Deny"
  /\ LET x == Emit(eval[e], StageMarkers(eval[e]) \cup Markers({"DlpScanner"}), accepted)
     IN  Become(e, Finish(x, "Deny", "original"))
  /\ UNCHANGED <<config, now, minted, grants>>

\* Mutant of NeedsApproval: a confirm rule asks nobody.
NeedsApprovalByRiskOnly(x) == x.risk.requiresApproval \/ RiskFailure(x) = "Escalate"

NeedsApproval(x) ==
  \/ x.risk.requiresApproval
  \/ RiskFailure(x) = "Escalate"
  \/ x.policy.decision = "RequireApproval"

PastRisk(e) ==
  /\ Ruling(e)
  /\ ~eval[e].policy.terminal
  /\ RiskFailure(eval[e]) # "Deny"

AllowOnMerits(e, accepted) ==
  /\ PastRisk(e)
  /\ ~NeedsApproval(eval[e])
  /\ LET x == Emit(RecordInSession(eval[e]), StageMarkers(eval[e]), accepted)
     IN  Become(e, FinishAllow(x))
  /\ UNCHANGED <<config, now, minted, grants>>

-----------------------------------------------------------------------------
(* Approval. *)

\* Tokens that authorize the action now, exact grants before session grants.
Authorizing(e) ==
  LET a == eval[e].action
      exact == ExactHit(Store(e), a, now)
  IN  IF exact # {} THEN exact
      ELSE SessionHit(AfterExactMiss(Store(e), a, now), a, now)

\* The store a lookup leaves behind when the exact index held nothing usable.
AfterLookup(e) ==
  IF ExactHit(Store(e), eval[e].action, now) # {} THEN Store(e)
  ELSE AfterExactMiss(Store(e), eval[e].action, now)

AwaitsApproval(e) == PastRisk(e) /\ NeedsApproval(eval[e])

ReuseGrant(e, accepted) ==
  /\ AwaitsApproval(e)
  /\ \E t \in Authorizing(e) :
       /\ SetStore(e, Spend(AfterLookup(e), t))
       /\ Become(e, [Emit(eval[e], StageMarkers(eval[e]), accepted)
                       EXCEPT !.pc = "granted", !.grant = t])
  /\ UNCHANGED <<config, now, minted>>

AllowGranted(e, accepted) ==
  /\ eval[e].pc = "granted"
  /\ LET x == Emit(RecordInSession(eval[e]), {<<"approval", "Approved">>}, accepted)
     IN  Become(e, FinishAllow(x))
  /\ UNCHANGED <<config, now, minted, grants>>

NoGrant(e) ==
  /\ Authorizing(e) = {}
  /\ SetStore(e, AfterSessionMiss(AfterLookup(e), eval[e].action, now))

Defer(e, accepted) ==
  /\ AwaitsApproval(e)
  /\ NoGrant(e)
  /\ ~config.approver
  /\ LET x == Emit(RecordInSession(eval[e]),
                   StageMarkers(eval[e]) \cup {<<"approval", "Skipped">>}, accepted)
     IN  Become(e, Finish(x, "RequireApproval", "original"))
  /\ UNCHANGED <<config, now, minted>>

\* Mutant of Prompt: the session records the action while its prompt is open.
PromptRecordingEarly(e, accepted) ==
  /\ AwaitsApproval(e)
  /\ NoGrant(e)
  /\ config.approver
  /\ Become(e, [Emit(RecordInSession(eval[e]), StageMarkers(eval[e]), accepted)
                  EXCEPT !.pc = "prompting"])
  /\ UNCHANGED <<config, now, minted>>

Prompt(e, accepted) ==
  /\ AwaitsApproval(e)
  /\ NoGrant(e)
  /\ config.approver
  /\ Become(e, [Emit(eval[e], StageMarkers(eval[e]), accepted) EXCEPT !.pc = "prompting"])
  /\ UNCHANGED <<config, now, minted>>

Approvals == {"ApproveOnce", "ApproveForSession", "ApproveUntil"}
NoJudgment == {"Unavailable", "TimedOut"}

\* The engine's answer; the session records the action only now.
Resolve(e, answer) ==
  /\ eval[e].pc = "prompting"
  /\ Become(e, [RecordInSession(eval[e]) EXCEPT !.pc = "answered", !.answer = answer,
                                                !.until = now + TimedTtl])
  /\ UNCHANGED <<config, now, minted, grants>>

\* Bound: room is left for the grant that an approval may mint.
RoomToMint ==
  Len(minted) + Cardinality({d \in Evaluator : eval[d].pc = "answered"}) < MaxGrants

\* The operator answers, or the prompt fails.
Answer(e) ==
  \E answer \in Approvals \cup {"Denied", "Unavailable"} :
    /\ answer \in Approvals \ {"ApproveOnce"} => RoomToMint
    /\ Resolve(e, answer)

\* Mutant of TimeOut: a prompt without a deadline.
NoTimeOut(e) == eval[e].pc = "prompting" /\ FALSE

\* Nobody answers: the terminal prompt's own deadline passes and it answers for
\* the operator, or the deadline of TimeoutApprovalEngine passes first.
TimeOut(e) ==
  \/ Resolve(e, "Denied")
  \/ Resolve(e, "TimedOut")

\* The brief offers session and timed approvals for session-safe actions only.
Eligible(x) == SessionApprovalSafe(x.action, x.risk.level)

\* mint_grants_for_verdict: the grants an approval leaves behind, at most one.
MintedFor(x) ==
  CASE x.answer = "ApproveForSession" /\ Eligible(x) /\ x.action.session # "" ->
         {NewGrant("SessionTool", x.action, now + SessionTtl, Unlimited)}
    [] x.answer = "ApproveUntil" /\ Eligible(x) ->
         {NewGrant("ExactAction", x.action, x.until, Unlimited)}
    [] OTHER -> {}

Mint(e, mint) ==
  IF mint = {} THEN UNCHANGED <<minted, grants>>
  ELSE \E g \in mint :
         /\ minted' = Append(minted, g)
         /\ SetStore(e, Insert(Store(e), Len(minted) + 1, g))

\* as_decision: nobody answering never becomes an allow.
AsDecision(answer) ==
  CASE answer \in Approvals -> "Allow"
    [] answer = "Denied" -> "Deny"
    [] answer \in NoJudgment ->
         IF config.failure["Approval"] = "FailClosed" THEN "Deny" ELSE "RequireApproval"

Judge(e, accepted) ==
  /\ eval[e].pc = "answered"
  /\ Mint(e, MintedFor(eval[e]))
  /\ LET answer == eval[e].answer
         unanswered == IF answer \in NoJudgment THEN Markers({"Approval"}) ELSE {}
         x == Emit(eval[e], unanswered \cup {<<"approval", answer>>}, accepted)
     IN  Become(e, IF AsDecision(answer) = "Allow" THEN FinishAllow(x)
                   ELSE Finish(x, AsDecision(answer), "original"))
  /\ UNCHANGED <<config, now>>

-----------------------------------------------------------------------------
(* Around the evaluations. *)

\* An embedder that holds the shared store issues a single-use grant.
IssueOnce(a) ==
  /\ config.sharedGrants
  /\ RoomToMint
  /\ LET g == NewGrant("ExactAction", a, now + OnceTtl, 1)
         e == CHOOSE any \in Evaluator : TRUE
     IN  /\ minted' = Append(minted, g)
         /\ SetStore(e, Insert(Store(e), Len(minted) + 1, g))
  /\ UNCHANGED <<config, now, eval>>

\* The caller takes the outcome and the task is free for another action.
Return(e) ==
  /\ eval[e].pc = "settled"
  /\ Become(e, Idle)
  /\ UNCHANGED <<config, now, minted, grants>>

Tick ==
  /\ now < MaxTime
  /\ now' = now + 1
  /\ UNCHANGED <<config, minted, grants, eval>>

\* The steps the gateway takes by itself once an action is presented.
Proceeds(e) ==
  \/ \E accepted \in BOOLEAN :
       \/ RefuseDetached(e, accepted)
       \/ SettleByPolicy(e, accepted)
       \/ DenyByRisk(e, accepted)
       \/ AllowOnMerits(e, accepted)
       \/ ReuseGrant(e, accepted)
       \/ AllowGranted(e, accepted)
       \/ Defer(e, accepted)
       \/ Prompt(e, accepted)
       \/ Judge(e, accepted)
  \/ TimeOut(e)

Step(e) ==
  \/ \E a \in Action, p \in PolicyInput, r \in RiskInput : Inspect(e, a, p, r)
  \/ Proceeds(e)
  \/ Answer(e)
  \/ Return(e)

Next ==
  \/ Tick
  \/ \E a \in Action : IssueOnce(a)
  \/ \E e \in Evaluator : Step(e)

Spec == Init /\ [][Next]_vars

\* The runtime polls every evaluation it spawned and the timer of its deadline;
\* nothing makes an approver answer, a caller present another action, or the
\* clock of the bounded model advance.
FairSpec == Spec /\ \A e \in Evaluator : WF_vars(Proceeds(e))

-----------------------------------------------------------------------------
(* What the gateway promises. *)

Settled(x, decision) == x.pc = "settled" /\ x.decision = decision

\* The failures that the stages which ran have reported.
Reported(x) == x.policy.failures \cup (IF x.policy.terminal THEN {} ELSE x.risk.failures)

Cleared(x) == x.answer \in Approvals \/ x.grant # NoToken

\* A control that broke never leads to an allow by default: not at all when its
\* mode is FAIL_CLOSED, only through an approver or a grant when it is
\* DEGRADE_SAFELY ("a degraded action can never end up allowed by default").
NoAllowByDefault ==
  \A e \in Evaluator :
    LET x == eval[e]
    IN  Settled(x, "Allow") =>
          \A s \in Reported(x) :
            \/ config.failure[s] = "FailOpen"
            \/ config.failure[s] = "DegradeSafely" /\ Cleared(x)

\* What the declarative policy and the scanners ask an approval for is allowed only
\* when somebody approved it: a confirm rule, an indicator match, a score at the
\* threshold that no masking remedies.
ApprovalIsExplicit ==
  \A e \in Evaluator :
    LET x == eval[e]
    IN  /\ Settled(x, "Allow")
        /\ \/ x.saw.verdict = "Confirm" /\ ~x.saw.audit
           \/ /\ ~x.policy.terminal
              /\ \/ x.scan.ioc
                 \/ ~x.scan.content.masked /\ x.scan.content.score >= Threshold
                 \/ ~x.scan.content.masked /\ \E s \in x.scan.signals : Signal[s] >= Threshold
        => Cleared(x)

\* Every failure of a control that ran has its own audit event by the time the
\* outcome is settled, whatever the outcome is and whichever path settles it; so
\* has an approver that gave no answer.
FailuresAreAudited ==
  \A e \in Evaluator :
    LET x == eval[e]
    IN  x.pc = "settled" /\ ~ControlPlaneRefuses(x) =>
          /\ Markers(Reported(x)) \subseteq x.trail
          /\ x.saw.verdict = "NoEngine" => Markers({"PolicyMissing"}) \subseteq x.trail
          /\ x.answer \in NoJudgment => Markers({"Approval"}) \subseteq x.trail

\* Where the audit trail is mandatory, an action any of whose records was refused
\* is not allowed, even after a grant was spent or an approver agreed.
UnloggedIsNotAllowed ==
  \A e \in Evaluator :
    config.failure["Audit"] = "FailClosed" /\ Settled(eval[e], "Allow") => ~eval[e].auditFailed

\* An action reaches the session history once, and not before its prompt resolves;
\* what a stage refused outright is not recorded.
RecordedOnce ==
  \A e \in Evaluator :
    LET x == eval[e]
        refused == ControlPlaneRefuses(x) \/ x.policy.terminal \/ RiskFailure(x) = "Deny"
    IN  x # Idle =>
          x.recorded = IF x.pc = "answered" \/ (x.pc = "settled" /\ ~refused) THEN 1 ELSE 0

\* Two evaluations under way never ride on the same single-use grant.
SingleUseAcrossEvaluations ==
  \A e, f \in Evaluator :
    /\ e # f
    /\ eval[e] # Idle /\ eval[f] # Idle
    /\ eval[e].grant # NoToken /\ eval[e].grant = eval[f].grant
    => minted[eval[e].grant].maxUses # 1

\* Every action presented gets an outcome, although its approver may never answer.
EveryActionIsDecided ==
  \A e \in Evaluator : eval[e].pc = "inspected" ~> eval[e].pc = "settled"

=============================================================================
