---------------------------- MODULE AgentActions ----------------------------
(* The life of one tool call in the formal adapter lifecycle: the wire value *)
(* an adapter decodes, the action it becomes, the identity the gateway fills *)
(* in, the classification the policy reads, the verdict, and what the        *)
(* provider is left to execute.                                              *)
(*                                                                           *)
(* The engines' verdict is an input here (Gateway and PolicyEngine model     *)
(* them); this module is about what they judge and what becomes of it.       *)
EXTENDS Taxonomy, TLC

CONSTANTS Wire,          \* the calls providers make
          Context,       \* the contexts adapters normalize with
          Resolver       \* the identity resolvers gateways use

Blank == "blank"         \* a present but blank one

\* Hooks answer a permission question; the other adapters forward a payload.
Hooks == {"cursor", "claude_code"}
Privileged == {"authenticated", "bound"}

VARIABLES wire,          \* the call as the provider made it
          context,       \* what the adapter knows of its surroundings
          resolver,      \* the gateway's identity resolver
          stage,         \* how far the call has come
          action,        \* the AgentAction
          outcome,       \* the gateway's verdict
          executed,      \* the payload the provider executes, or "nothing"
          granted        \* whether a device binding was resolved for the agent
vars == <<wire, context, resolver, stage, action, outcome, executed, granted>>

(***************************************************************************)
(* Identity (identity.rs).                                                 *)
(***************************************************************************)
AnonymousIdentity ==
  [ agent_id |-> None, agent_trust |-> "self_asserted", agent_bound_id |-> None,
    user_id |-> None, user_trust |-> "self_asserted", user_source |-> None,
    organization_id |-> None, workspace |-> None, agent_type |-> "unknown",
    tier |-> "Unknown", auth |-> "anonymous", labels |-> << >> ]

fill(slot, value) == IF slot = None THEN value ELSE slot

set_self_asserted_agent(i, id) ==
  IF i.agent_id # None THEN i
  ELSE [i EXCEPT !.agent_id = id, !.agent_trust = "self_asserted", !.agent_bound_id = None]

set_bound_agent(i, registered, label) ==
  [i EXCEPT !.agent_bound_id = registered, !.agent_trust = "bound",
            !.agent_id = IF label \in {None, Blank} THEN registered ELSE label]

\* Mutant of Demoted: a merged claim keeps the trust it came with.
Demoted_not(trust) == trust

Demoted(trust) == IF trust \in Privileged THEN "self_asserted" ELSE trust

merge_from(i, other) ==
  [ agent_id |-> fill(i.agent_id, other.agent_id),
    agent_trust |-> IF i.agent_id = None THEN Demoted(other.agent_trust) ELSE i.agent_trust,
    agent_bound_id |-> IF i.agent_id = None THEN None ELSE i.agent_bound_id,
    user_id |-> fill(i.user_id, other.user_id),
    user_trust |-> IF i.user_id = None THEN Demoted(other.user_trust) ELSE i.user_trust,
    user_source |-> IF i.user_id = None THEN other.user_source ELSE i.user_source,
    organization_id |-> fill(i.organization_id, other.organization_id),
    workspace |-> fill(i.workspace, other.workspace),
    agent_type |-> IF i.agent_type = "unknown" THEN other.agent_type ELSE i.agent_type,
    tier |-> IF i.tier = "Unknown" THEN other.tier ELSE i.tier,
    auth |-> IF i.auth = "anonymous" THEN other.auth ELSE i.auth,
    labels |-> i.labels @@ other.labels ]

(***************************************************************************)
(* The ambient context (adapters/mod.rs) and the resolver that backs it up *)
(* (gateway/identity.rs).  Both are read from the process environment.     *)
(***************************************************************************)
EmptyContext ==
  [ session |-> None, agent_id |-> None, user_id |-> None, organization_id |-> None,
    workspace |-> None, tier |-> "Unknown", labels |-> << >> ]

local_auth_context(c) == IF c.user_id = None THEN "anonymous" ELSE "local"

enrich(a, c) ==
  LET agent == IF c.agent_id = None THEN a.identity
               ELSE set_self_asserted_agent(a.identity, c.agent_id)
      i == [ agent EXCEPT
               !.user_id = fill(@, c.user_id),
               !.user_trust = IF a.identity.user_id = None /\ c.user_id # None
                                THEN "self_asserted" ELSE @,
               !.user_source = IF a.identity.user_id = None /\ c.user_id # None
                                 THEN "env" ELSE @,
               !.organization_id = fill(@, c.organization_id),
               !.workspace = fill(@, c.workspace),
               !.tier = IF @ = "Unknown" THEN c.tier ELSE @,
               !.auth = IF @ = "anonymous" THEN local_auth_context(c) ELSE @,
               !.labels = @ @@ c.labels ]
  IN  [a EXCEPT !.identity = i, !.session = fill(@, c.session),
                !.runtime = IF @ = "unknown" THEN a.source ELSE @]

refresh_security_classification(a) == [a EXCEPT !.security = classify_action(a, a.identity.tier)]

(***************************************************************************)
(* Arguments and the builder (action.rs).  A payload is an object, or the  *)
(* JSON text of one, or text that is not JSON.                             *)
(***************************************************************************)
from_name_and_arguments(args) ==
  IF args.encoding = "text" THEN NoArguments ELSE args.object

from_canonical_params(args) ==
  IF args.encoding = "object" THEN args.object ELSE NoArguments

new(tool, args) ==
  [ tool_name |-> tool, arguments |-> args, tool_type |-> "unknown", operation |-> "Invoke",
    target |-> NoResource, destination |-> "none", credentials |-> {},
    data |-> [categories |-> {}, sensitivity |-> 0],
    identity |-> AnonymousIdentity, session |-> None, trace |-> None, parent |-> None,
    runtime |-> "unknown", source |-> "unknown", provider |-> None,
    security |-> [action |-> "Unknown", resources |-> {}, risk |-> {}] ]

\* NormalizationContext::begin.
begin(c, tool, args, runtime) ==
  LET facts == classify(tool, args)
      labelled == IF c.agent_id \in {None, Blank} THEN AnonymousIdentity
                  ELSE set_self_asserted_agent(AnonymousIdentity, c.agent_id)
  IN  [ new(tool, args) EXCEPT
          !.tool_type = facts.tool_type, !.operation = facts.operation,
          !.target = facts.target, !.destination = facts.destination,
          !.credentials = facts.credentials, !.data = facts.data,
          !.identity = [ labelled EXCEPT
             !.user_id = c.user_id, !.organization_id = c.organization_id,
             !.workspace = c.workspace, !.tier = c.tier,
             !.auth = local_auth_context(c), !.labels = c.labels ],
          !.session = c.session, !.runtime = runtime, !.source = runtime ]

validate(a, size) ==
  /\ a.session # Blank /\ a.trace # Blank /\ a.parent # Blank
  /\ a.tool_name \notin {"", "overlong"}
  /\ size = "fits"

Rejected == new("", NoArguments)          \* no action; validation lets none be nameless
build(a, size) == IF validate(a, size) THEN refresh_security_classification(a) ELSE Rejected

(***************************************************************************)
(* The adapters.  Each decodes its wire into an action or rejects it.      *)
(***************************************************************************)
UNKNOWN_TOOL == "unknown_tool"

mcp_decode(c, w) ==
  IF w.tool = "" THEN Rejected
  ELSE build(begin(c, w.tool, from_canonical_params(w.args), "mcp_stdio"), w.size)

openai_decode(c, w) ==
  LET name == IF w.tool = None THEN UNKNOWN_TOOL ELSE w.tool
  IN  build([begin(c, name, from_name_and_arguments(w.args), "openai_http")
               EXCEPT !.provider = "openai"], w.size)

anthropic_decode(c, w) ==
  IF w.tool = None THEN Rejected
  ELSE build([begin(c, w.tool, from_name_and_arguments(w.args), "anthropic_http")
                EXCEPT !.provider = "anthropic"], w.size)

CursorTool ==
  [ beforeShellExecution |-> "run_terminal_cmd", beforeReadFile |-> "read_file",
    afterFileEdit |-> "edit_file" ]

\* shell_arguments and path_arguments copy only the fields they know.
hook_arguments(w) ==
  LET copied == DOMAIN w.args.object.fields
                  \cap (IF w.event = "beforeShellExecution" THEN {"command", "cwd"} ELSE {"path"})
  IN  [NoArguments EXCEPT !.fields = [k \in copied |-> w.args.object.fields[k]],
                          !.extra = IF w.event = "afterFileEdit" THEN w.args.object.extra ELSE {}]

cursor_decode(c, w) ==
  LET required == IF w.event = "beforeShellExecution" THEN "command" ELSE "path"
      From(tool, args) ==
        build([ begin(c, tool, args, "cursor_hook") EXCEPT
                  !.session = IF w.session # None THEN w.session ELSE @,
                  !.trace = w.trace,
                  !.identity.agent_type = "ide_assistant",
                  !.identity.workspace = IF w.workspace # None THEN w.workspace ELSE @ ], w.size)
  IN  CASE w.event \in DOMAIN CursorTool /\ required \in DOMAIN w.args.object.fields ->
             From(CursorTool[w.event], hook_arguments(w))
        [] w.event = "beforeMCPExecution" /\ w.tool # None ->
             From(w.tool, from_name_and_arguments(w.args))
        [] OTHER -> Rejected

canonical_tool_name(name) ==
  LET is == [ bash |-> "execute_bash", bashoutput |-> "execute_bash", read |-> "read_file",
              write |-> "write_file", edit |-> "edit_file", multiedit |-> "edit_file",
              notebookedit |-> "edit_file", glob |-> "glob_file_search", grep |-> "search_files",
              webfetch |-> "fetch", websearch |-> "web_search" ]
  IN  IF name \in DOMAIN is THEN is[name] ELSE name

claude_decode(c, w) ==
  IF w.event \notin {"PreToolUse", "PostToolUse"} \/ w.tool \in {None, ""} THEN Rejected
  ELSE build([ begin(c, canonical_tool_name(w.tool), from_name_and_arguments(w.args),
                     "claude_code_hook") EXCEPT
                 !.provider = "anthropic", !.identity.agent_type = "cli_agent",
                 !.session = IF w.session \notin {None, Blank} THEN w.session ELSE @,
                 !.identity.workspace = IF w.workspace # None THEN w.workspace ELSE @ ], w.size)

generic_decode(c, w) == build(begin(c, w.tool, from_name_and_arguments(w.args), "custom"), w.size)

\* ToolInvocation::to_agent_action: no context and no validation.
to_agent_action(w) ==
  refresh_security_classification(
    [new(w.tool, from_canonical_params(w.args)) EXCEPT !.source = "unknown"])

decode(c, w) ==
  CASE w.adapter = "mcp" -> mcp_decode(c, w)
    [] w.adapter = "openai" -> openai_decode(c, w)
    [] w.adapter = "anthropic" -> anthropic_decode(c, w)
    [] w.adapter = "cursor" -> cursor_decode(c, w)
    [] w.adapter = "claude_code" -> claude_decode(c, w)
    [] w.adapter = "generic" -> generic_decode(c, w)
    [] OTHER -> to_agent_action(w)

(***************************************************************************)
(* Enforcement.  An effect says whether the call may go on and, for the    *)
(* adapters that forward a payload, which payload.                         *)
(***************************************************************************)
Verdict == {"stopped", "allowed", "rewritten"}

hook_enforce(verdict) == IF verdict = "stopped" THEN "nothing" ELSE "original"

\* Mutant of forward_enforce: the wire's own arguments are forwarded.
forward_original(verdict) == IF verdict = "stopped" THEN "nothing" ELSE "original"

forward_enforce(verdict) ==
  CASE verdict = "stopped" -> "nothing"
    [] verdict = "rewritten" -> "rewritten"
    [] verdict = "allowed" -> "original"

enforce(adapter, verdict) ==
  IF adapter \in Hooks THEN hook_enforce(verdict) ELSE forward_enforce(verdict)

(***************************************************************************)
(* The lifecycle.                                                          *)
(***************************************************************************)
Init ==
  /\ wire \in Wire /\ context \in Context /\ resolver \in Resolver
  /\ stage = "intercepted" /\ action = Rejected
  /\ outcome = None /\ executed = "nothing" /\ granted = FALSE

Decode ==
  /\ stage = "intercepted"
  /\ IF decode(context, wire) = Rejected
       THEN stage' = "rejected" /\ UNCHANGED action
       ELSE stage' = "decoded" /\ action' = decode(context, wire)
  /\ UNCHANGED <<wire, context, resolver, outcome, executed, granted>>

\* A device binding names the agent; a second identity may be merged in.
Bind ==
  /\ stage = "decoded" /\ ~granted
  /\ granted' = TRUE
  /\ \E label \in {None, action.identity.agent_id} :
       action' = [action EXCEPT !.identity = set_bound_agent(@, "registered", label)]
  /\ UNCHANGED <<wire, context, resolver, stage, outcome, executed>>

Merge ==
  /\ stage = "decoded"
  /\ \E c \in Context, trust \in {"self_asserted", "bound"} :
       action' = [action EXCEPT !.identity = merge_from(@,
         [ AnonymousIdentity EXCEPT
             !.agent_id = c.agent_id, !.agent_trust = trust,
             !.agent_bound_id = IF trust = "bound" THEN "registered" ELSE None,
             !.user_id = c.user_id, !.user_trust = trust,
             !.organization_id = c.organization_id,
             !.workspace = c.workspace, !.tier = c.tier, !.labels = c.labels ])]
  /\ UNCHANGED <<wire, context, resolver, stage, outcome, executed, granted>>

\* Mutant of Evaluate: the classification computed at decoding is kept.
EvaluateUnrefreshed ==
  /\ stage = "decoded"
  /\ stage' = "evaluated"
  /\ action' = IF resolver.kind = "static" THEN enrich(action, resolver.context) ELSE action
  /\ outcome' \in Verdict
  /\ UNCHANGED <<wire, context, resolver, executed, granted>>

\* AgentExecutionGateway::prepare: enrichment that fails leaves the action as
\* it is, and the classification is recomputed either way.
Evaluate ==
  /\ stage = "decoded"
  /\ stage' = "evaluated"
  /\ LET known == IF resolver.kind = "static" THEN enrich(action, resolver.context) ELSE action
     IN  action' = refresh_security_classification(known)
  /\ outcome' \in Verdict
  /\ UNCHANGED <<wire, context, resolver, executed, granted>>

Enforce ==
  /\ stage = "evaluated"
  /\ stage' = "enforced"
  /\ executed' = enforce(wire.adapter, outcome)
  /\ UNCHANGED <<wire, context, resolver, action, outcome, granted>>

Done == stage \in {"rejected", "enforced"} /\ UNCHANGED vars

Next == Decode \/ Bind \/ Merge \/ Evaluate \/ Enforce \/ Done
Spec == Init /\ [][Next]_vars

(***************************************************************************)
(* Properties.                                                             *)
(***************************************************************************)
Judged == stage \in {"evaluated", "enforced"}

\* Trust is earned, never claimed: whatever the environment, the adapters and
\* merged identities say, an agent is trusted for privileges exactly when a
\* device binding was resolved for it, and only then has a bound id
\* (identity.rs: set_self_asserted_agent, set_bound_agent, merge_from).
TrustIsEarned ==
  /\ action.identity.agent_trust \in Privileged <=> granted
  /\ (action.identity.agent_bound_id # None) <=> granted
  /\ action.identity.user_trust \notin Privileged

\* The policy judges the action as it finally is: the classification it reads
\* is that of the enriched action, not the one computed when the adapter built
\* it (gateway/mod.rs: enrich, then refresh_security_classification).
PolicySeesTheFinalAction ==
  Judged => action.security = classify_action(action, action.identity.tier)

\* What the provider executes is what was judged, wherever the adapter hands
\* the payload back: a stopped call is not executed, a rewritten one is
\* executed as rewritten (adapters: enforce of mcp, openai, anthropic, generic;
\* the hooks at least refuse what was stopped).
ExecutesWhatWasJudged ==
  stage = "enforced" =>
    /\ outcome = "stopped" => executed = "nothing"
    /\ outcome = "rewritten" /\ wire.adapter \notin Hooks => executed = "rewritten"
=============================================================================
