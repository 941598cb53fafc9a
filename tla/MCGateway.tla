----------------------------- MODULE MCGateway -----------------------------
(* Instances of Gateway for model checking. *)
EXTENDS Gateway, TLC

Plain ==
  [ tool |-> "read_file", args |-> "x", target |-> "fs", agent |-> "alice", bound |-> "",
    trust |-> "declared", device |-> "laptop", org |-> "org", session |-> "s1",
    env |-> "dev", traits |-> {}, resources |-> {}, category |-> "Read" ]
Other == [Plain EXCEPT !.args = "y"]
Deletes == [Plain EXCEPT !.tool = "delete_file", !.category = "Delete", !.traits = {"destructive"}]

MCTwoCalls == {Plain, Other}
MCActions == {Plain, Deletes}

Deployment(failure) ==
  [ failure |-> failure, requireControlPlane |-> FALSE, attached |-> FALSE,
    approver |-> TRUE, sharedGrants |-> TRUE ]

\* Not a preset: every row that may degrade does.
Cautious == [s \in Subsystem |-> "DegradeSafely"]

MCPresets ==
  {Deployment(f) : f \in {Default, Strict, Observe, ForPosture("Development"), Cautious}}
    \cup { [Deployment(Default) EXCEPT !.approver = FALSE],
           [Deployment(Default) EXCEPT !.requireControlPlane = TRUE],
           [Deployment(Default) EXCEPT !.sharedGrants = FALSE] }
MCDefault == {Deployment(Default)}

Ask(verdict, audit, extension) == [verdict |-> verdict, audit |-> audit, extension |-> extension]

\* Everything the two policy layers may answer: no mode without an engine, no
\* verdict to audit when the engine broke or allowed.
MCPolicyInputs ==
  { Ask(v, audit, x) :
      v \in Verdict, audit \in BOOLEAN, x \in Extension }
    \ { Ask(v, TRUE, x) : v \in {"NoEngine", "Broken", "Allow"}, x \in Extension }
MCFewPolicyInputs ==
  {Ask("Confirm", FALSE, "Absent"), Ask("Allow", FALSE, "Absent")}

Scan(content, signals, ioc) == [content |-> content, signals |-> signals, ioc |-> ioc]

MCRiskInputs ==
  { Scan(Clean(20), {}, FALSE), Scan(Clean(20), {"SecretAccess"}, FALSE),
    Scan(Clean(20), {}, TRUE), Scan(Masked(75), {}, FALSE),
    Scan(Masked(75), {"SecretAccess"}, TRUE), Scan(MaskingFailed(65), {}, FALSE),
    Scan(RawText(30, FALSE), {}, FALSE), Scan(RawText(75, TRUE), {"UnknownTool"}, FALSE),
    Scan(Panicked, {}, FALSE) }
MCFewRiskInputs == {Scan(Clean(20), {}, FALSE), Scan(RawText(75, TRUE), {}, FALSE)}

MCSymmetry == Permutations(Evaluator)
=============================================================================
