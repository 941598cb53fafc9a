----------------------------- MODULE RiskStage -----------------------------
(***************************************************************************)
(* The risk stage (gateway/risk_stage.rs) with the open-core scorer        *)
(* (scoring/basic.rs) it calls.                                            *)
(*                                                                         *)
(* The stage never decides: it answers whether the action needs an         *)
(* approval, which payload may leave, and which controls failed.  An input *)
(* holds                                                                   *)
(*   content  what the content scan returned (RiskAnalysis);               *)
(*   signals  what the scorer recognizes in the action itself;             *)
(*   ioc      whether a threat-intel indicator matches the payload.        *)
(* The exfiltration-chain check of the open-core session tracker answers   *)
(* no, so it takes no part here.                                           *)
(***************************************************************************)
EXTENDS FailurePolicy, FiniteSets, FiniteSetsExt

\* analyze_params and analyze_raw_params: a payload that is not JSON is scanned as
\* text, and what masking cannot produce is reported, never passed off as clean.
Clean(score) == [score |-> score, masked |-> FALSE, degraded |-> FALSE, maskingFailed |-> FALSE]
Masked(score) == [Clean(score) EXCEPT !.masked = TRUE]
MaskingFailed(score) == [Clean(score) EXCEPT !.maskingFailed = TRUE]
RawText(score, masked) == [Clean(score) EXCEPT !.degraded = TRUE, !.masked = masked]

\* scan when the scanner panics.
Panicked == [Clean(100) EXCEPT !.degraded = TRUE]

Signal ==
  [ SecretAccess |-> 80, PolicySensitiveOperation |-> 75, DestructiveAction |-> 70,
    UnknownTool |-> 40, PartlyKnownTool |-> 35 ]

RiskAnswer ==
  [ content : [score : Nat, masked : BOOLEAN, degraded : BOOLEAN, maskingFailed : BOOLEAN],
    signals : SUBSET DOMAIN Signal, ioc : BOOLEAN ]

Lesser(x, y) == IF x < y THEN x ELSE y

\* RiskScoreEngine::score: the factors that fired, each with its contribution.
Factors(in) ==
  {<<s, Signal[s]>> : s \in in.signals}
    \cup (IF in.content.score >= 50 THEN {<<"ContentSecret", Lesser(in.content.score, 85)>>}
          ELSE {})
    \cup (IF in.ioc THEN {<<"ThreatIntel", 85>>} ELSE {})

Contributions(factors) == {f[2] : f \in factors}

\* The coarse score is the strongest signal, not a sum.
Explained(in) == Lesser(Max(Contributions(Factors(in)) \cup {0}), 100)

LevelFor(score) ==
  CASE score >= 75 -> "Critical"
    [] score >= 50 /\ score < 75 -> "High"
    [] score >= 25 /\ score < 50 -> "Medium"
    [] OTHER -> "Low"

HasContentSecret(in) == in.content.score >= 50

\* DLP already masked the secret that raised the score: the gate leaves out its
\* contribution (saturating_sub).
RemediableMaskedSecret(in) == in.content.masked /\ HasContentSecret(in) /\ ~in.ioc

EffectiveScore(in) == Max({Explained(in), in.content.score})

GateScore(in) ==
  IF RemediableMaskedSecret(in)
    THEN Max({0, Explained(in) - Lesser(in.content.score, 85)})
    ELSE EffectiveScore(in)

RiskFailures(in) ==
  (IF in.content.degraded THEN {"RiskScoring"} ELSE {})
    \cup (IF in.content.maskingFailed THEN {"DlpScanner"} ELSE {})

\* RiskAssessment; level is the band of the explained score, which is what an
\* approver's brief and session eligibility are built from.
AssessRisk(in, threshold) ==
  [ requiresApproval |-> in.ioc \/ GateScore(in) >= threshold,
    level    |-> LevelFor(Explained(in)),
    payload  |-> IF in.content.masked THEN "masked" ELSE "original",
    failures |-> RiskFailures(in) ]
=============================================================================
