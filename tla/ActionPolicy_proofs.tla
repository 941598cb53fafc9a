------------------------- MODULE ActionPolicy_proofs -------------------------
(***************************************************************************)
(* Proofs about what an action says and how a policy judges it: the action *)
(* model (AgentActions) and the declarative policy engine (PolicyEngine),  *)
(* two models over one taxonomy.                                           *)
(*                                                                         *)
(* Actions, for any calls, contexts and resolvers: trust is an invariant   *)
(* of identities.  Every operation on one keeps it, because an identity a  *)
(* device was resolved for has an agent id, and the operations that copy   *)
(* claims fill only empty slots.                                           *)
(*                                                                         *)
(* Policies, for any documents, calls and hash orders: the sort within a   *)
(* layer and the choice across layers always have a winner, so an answer   *)
(* is the severest effect of the decisive rules (the matches of highest    *)
(* priority of each layer).  What a policy's rules are is traced through   *)
(* composition and compilation, and an answer is compared with another by  *)
(* comparing their decisive rules.                                         *)
(***************************************************************************)
EXTENDS AgentActions, PolicyEngine, WellFoundedInduction, TLAPS

-----------------------------------------------------------------------------
(* The action model.                                                       *)

IdentityFields ==
  { "agent_id", "agent_trust", "agent_bound_id", "user_id", "user_trust", "user_source",
    "organization_id", "workspace", "agent_type", "tier", "auth", "labels" }

ActionFields ==
  { "tool_name", "arguments", "tool_type", "operation", "target", "destination", "credentials",
    "data", "identity", "session", "trace", "parent", "runtime", "source", "provider", "security" }

\* The trust an identity shows is the one that was earned for it; an identity that was
\* bound has an agent id, so that no claim can take its place.
Earned(i, bound) ==
  /\ DOMAIN i = IdentityFields
  /\ i.agent_trust \in Privileged <=> bound
  /\ (i.agent_bound_id # None) <=> bound
  /\ i.user_trust \notin Privileged
  /\ bound => i.agent_id # None

\* An action whose identity shows the given trust.
Shows(a, bound) == DOMAIN a = ActionFields /\ Earned(a.identity, bound)

IndInv ==
  /\ stage \in {"intercepted", "rejected", "decoded", "evaluated", "enforced"}
  /\ granted \in BOOLEAN
  /\ Shows(action, granted)
  /\ stage = "intercepted" => ~granted
  /\ PolicySeesTheFinalAction
  /\ ExecutesWhatWasJudged

-----------------------------------------------------------------------------
(* Identities. *)

\* Nobody is trusted to begin with.
LEMMA AnonymousEarned == Earned(AnonymousIdentity, FALSE)
  BY DEF Earned, AnonymousIdentity, IdentityFields, Privileged, None

\* A label of its own gives an agent no trust.
LEMMA LabelEarnsNothing ==
  ASSUME NEW i, NEW bound \in BOOLEAN, Earned(i, bound), NEW id
  PROVE  Earned(set_self_asserted_agent(i, id), bound)
  <1>1. CASE i.agent_id # None
    BY <1>1 DEF set_self_asserted_agent
  <1>2. CASE i.agent_id = None
    <2>1. ~bound
      BY <1>2 DEF Earned
    <2> QED
      BY <1>2, <2>1 DEF set_self_asserted_agent, Earned, IdentityFields, Privileged
  <1> QED
    BY <1>1, <1>2

\* A device binding is what earns it.
LEMMA BindingEarns ==
  ASSUME NEW i, NEW bound \in BOOLEAN, Earned(i, bound), NEW label
  PROVE  Earned(set_bound_agent(i, "registered", label), TRUE)
  BY DEF set_bound_agent, Earned, IdentityFields, Privileged, None

\* A merged identity brings no trust along, and takes none away.
LEMMA MergingEarnsNothing ==
  ASSUME NEW i, NEW bound \in BOOLEAN, Earned(i, bound), NEW other
  PROVE  Earned(merge_from(i, other), bound)
  <1> DEFINE m == merge_from(i, other)
  <1>1. DOMAIN m = IdentityFields
    BY DEF merge_from, IdentityFields
  <1>2. \A trust : Demoted(trust) \notin Privileged
    BY DEF Demoted, Privileged
  <1>3. m.user_trust \notin Privileged
    <2>1. m.user_trust = IF i.user_id = None THEN Demoted(other.user_trust) ELSE i.user_trust
      BY DEF merge_from
    <2> QED
      BY <1>2, <2>1 DEF Earned
  <1>4. /\ m.agent_trust = IF i.agent_id = None THEN Demoted(other.agent_trust) ELSE i.agent_trust
        /\ m.agent_bound_id = IF i.agent_id = None THEN None ELSE i.agent_bound_id
        /\ m.agent_id = IF i.agent_id = None THEN other.agent_id ELSE i.agent_id
    BY DEF merge_from, fill
  <1> HIDE DEF m
  <1>5. Earned(m, bound)
    <2>1. CASE i.agent_id = None
      BY <1>1, <1>2, <1>3, <1>4, <2>1 DEF Earned
    <2>2. CASE i.agent_id # None
      BY <1>1, <1>3, <1>4, <2>2 DEF Earned
    <2> QED
      BY <2>1, <2>2
  <1> QED
    BY <1>5 DEF m

\* Filling in the surroundings earns nothing.
LEMMA EnrichingEarnsNothing ==
  ASSUME NEW a, NEW bound \in BOOLEAN, Shows(a, bound), NEW k
  PROVE  Shows(enrich(a, k), bound)
  <1> DEFINE agent == IF k.agent_id = None THEN a.identity
                      ELSE set_self_asserted_agent(a.identity, k.agent_id)
  <1>1. Earned(agent, bound)
    BY LabelEarnsNothing DEF Shows
  <1>2. enrich(a, k).identity =
          [ agent EXCEPT
              !.user_id = fill(@, k.user_id),
              !.user_trust = IF a.identity.user_id = None /\ k.user_id # None
                               THEN "self_asserted" ELSE @,
              !.user_source = IF a.identity.user_id = None /\ k.user_id # None
                                THEN "env" ELSE @,
              !.organization_id = fill(@, k.organization_id),
              !.workspace = fill(@, k.workspace),
              !.tier = IF @ = "Unknown" THEN k.tier ELSE @,
              !.auth = IF @ = "anonymous" THEN local_auth_context(k) ELSE @,
              !.labels = @ @@ k.labels ]
    BY DEF enrich, Shows, ActionFields
  <1>3. DOMAIN enrich(a, k) = ActionFields
    BY DEF enrich, Shows
  <1> HIDE DEF agent
  <1>4. Earned(enrich(a, k).identity, bound)
    BY <1>1, <1>2 DEF Earned, IdentityFields, Privileged
  <1> QED
    BY <1>3, <1>4 DEF Shows

-----------------------------------------------------------------------------
(* Actions. *)

\* A field other than the identity may be set to anything.
LEMMA FieldEarnsNothing ==
  ASSUME NEW a, NEW bound \in BOOLEAN, Shows(a, bound),
         NEW slot \in ActionFields \ {"identity"}, NEW value
  PROVE  Shows([a EXCEPT ![slot] = value], bound)
  BY DEF Shows, ActionFields

\* Classifying an action again earns nothing.
LEMMA ClassifyingEarnsNothing ==
  ASSUME NEW a, NEW bound \in BOOLEAN, Shows(a, bound)
  PROVE  Shows(refresh_security_classification(a), bound)
  <1> DEFINE security == classify_action(a, a.identity.tier)
  <1>1. refresh_security_classification(a) = [a EXCEPT !.security = security]
    BY DEF refresh_security_classification
  <1> HIDE DEF security
  <1> QED
    BY <1>1 DEF Shows, ActionFields

\* The classification does not look at the one before it.
LEMMA ClassificationIsOfTheAction ==
  ASSUME NEW a, DOMAIN a = ActionFields
  PROVE  LET b == refresh_security_classification(a)
         IN  b.security = classify_action(b, b.identity.tier)
  <1>1. PICK security : security = classify_action(a, a.identity.tier)
    OBVIOUS
  <1>2. PICK b : b = [a EXCEPT !.security = security]
    OBVIOUS
  <1>3. b = refresh_security_classification(a)
    BY <1>1, <1>2 DEF refresh_security_classification
  <1>4. /\ b.security = security /\ b.identity = a.identity
        /\ b.tool_name = a.tool_name /\ b.arguments = a.arguments
        /\ b.tool_type = a.tool_type /\ b.operation = a.operation /\ b.target = a.target
        /\ b.destination = a.destination /\ b.credentials = a.credentials /\ b.data = a.data
    BY <1>2 DEF ActionFields
  <1>5. \A inferred : merge_structural(b, inferred) = merge_structural(a, inferred)
    BY <1>4 DEF merge_structural
  <1>6. classify_action(b, b.identity.tier) = classify_action(a, a.identity.tier)
    BY <1>4, <1>5 DEF classify_action
  <1> QED
    BY <1>1, <1>3, <1>4, <1>6

\* A new action has nobody's identity.
LEMMA NewEarnsNothing ==
  ASSUME NEW tool, NEW args PROVE Shows(new(tool, args), FALSE)
  <1>1. DOMAIN new(tool, args) = ActionFields /\ new(tool, args).identity = AnonymousIdentity
    BY DEF new, ActionFields
  <1> QED
    BY <1>1, AnonymousEarned DEF Shows

\* An adapter copies claims of the context, and no trust.
LEMMA BeginEarnsNothing ==
  ASSUME NEW k, NEW tool, NEW args, NEW runtime PROVE Shows(begin(k, tool, args, runtime), FALSE)
  <1> DEFINE labelled == IF k.agent_id \in {None, Blank} THEN AnonymousIdentity
                         ELSE set_self_asserted_agent(AnonymousIdentity, k.agent_id)
             a == begin(k, tool, args, runtime)
  <1>1. Earned(labelled, FALSE)
    BY AnonymousEarned, LabelEarnsNothing
  <1>2. DOMAIN new(tool, args) = ActionFields
    BY DEF new, ActionFields
  <1>3. a.identity = [ labelled EXCEPT
             !.user_id = k.user_id, !.organization_id = k.organization_id,
             !.workspace = k.workspace, !.tier = k.tier,
             !.auth = local_auth_context(k), !.labels = k.labels ]
    BY <1>2 DEF begin, ActionFields
  <1>4. DOMAIN a = ActionFields
    BY <1>2 DEF begin
  <1> HIDE DEF labelled, a
  <1>5. Earned(a.identity, FALSE)
    BY <1>1, <1>3 DEF Earned, IdentityFields
  <1>6. Shows(a, FALSE)
    BY <1>4, <1>5 DEF Shows
  <1> QED
    BY <1>6 DEF a

\* Neither does the builder, whether it accepts the action or not.
LEMMA BuildEarnsNothing ==
  ASSUME NEW a, Shows(a, FALSE), NEW size PROVE Shows(build(a, size), FALSE)
  BY ClassifyingEarnsNothing, NewEarnsNothing DEF build, Rejected

\* Nor what an adapter then sets: members of the action, and of the identity the ones
\* that name no agent and no user.
LEMMA IdentityFieldEarnsNothing ==
  ASSUME NEW a, NEW bound \in BOOLEAN, Shows(a, bound), NEW value,
         NEW slot \in {"agent_type", "workspace"}
  PROVE  Shows([a EXCEPT !.identity[slot] = value], bound)
  <1>1. PICK i : i = [a.identity EXCEPT ![slot] = value]
    OBVIOUS
  <1>2. Earned(i, bound)
    BY <1>1 DEF Shows, Earned, IdentityFields
  <1>3. [a EXCEPT !.identity[slot] = value] = [a EXCEPT !.identity = i]
    BY <1>1
  <1> QED
    BY <1>2, <1>3 DEF Shows, ActionFields

-----------------------------------------------------------------------------
(* The adapters. *)

\* An MCP call earns nothing.
LEMMA McpEarnsNothing ==
  ASSUME NEW k, NEW w PROVE Shows(mcp_decode(k, w), FALSE)
  BY BeginEarnsNothing, BuildEarnsNothing, NewEarnsNothing DEF mcp_decode, Rejected

\* An OpenAI call earns nothing.
LEMMA OpenAiEarnsNothing ==
  ASSUME NEW k, NEW w PROVE Shows(openai_decode(k, w), FALSE)
  <1>1. PICK a : a = begin(k, IF w.tool = None THEN UNKNOWN_TOOL ELSE w.tool,
                           from_name_and_arguments(w.args), "openai_http")
    OBVIOUS
  <1>2. openai_decode(k, w) = build([a EXCEPT !.provider = "openai"], w.size)
    BY <1>1 DEF openai_decode
  <1>3. Shows([a EXCEPT !["provider"] = "openai"], FALSE)
    BY <1>1, BeginEarnsNothing, FieldEarnsNothing DEF ActionFields
  <1> QED
    BY <1>2, <1>3, BuildEarnsNothing

\* An Anthropic call earns nothing.
LEMMA AnthropicEarnsNothing ==
  ASSUME NEW k, NEW w PROVE Shows(anthropic_decode(k, w), FALSE)
  <1>1. PICK a : a = begin(k, w.tool, from_name_and_arguments(w.args), "anthropic_http")
    OBVIOUS
  <1>2. anthropic_decode(k, w)
          = IF w.tool = None THEN Rejected ELSE build([a EXCEPT !.provider = "anthropic"], w.size)
    BY <1>1 DEF anthropic_decode
  <1>3. Shows([a EXCEPT !["provider"] = "anthropic"], FALSE)
    BY <1>1, BeginEarnsNothing, FieldEarnsNothing DEF ActionFields
  <1> QED
    BY <1>2, <1>3, BuildEarnsNothing, NewEarnsNothing DEF Rejected

\* What a hook says of its surroundings earns nothing.
LEMMA SurroundingsEarnNothing ==
  ASSUME NEW a, Shows(a, FALSE), NEW session, NEW type, NEW workspace,
         NEW slot \in ActionFields \ {"identity"}, NEW value
  PROVE  Shows([a EXCEPT !.session = session, ![slot] = value,
                         !.identity.agent_type = type, !.identity.workspace = workspace], FALSE)
  <1>1. PICK b : b = [a EXCEPT !["session"] = session]
    OBVIOUS
  <1>2. PICK c : c = [b EXCEPT ![slot] = value]
    OBVIOUS
  <1>3. PICK d : d = [c EXCEPT !.identity["agent_type"] = type]
    OBVIOUS
  <1>4. Shows(b, FALSE)
    BY <1>1, FieldEarnsNothing DEF ActionFields
  <1>5. Shows(c, FALSE)
    BY <1>2, <1>4, FieldEarnsNothing
  <1>6. Shows(d, FALSE)
    BY <1>3, <1>5, IdentityFieldEarnsNothing
  <1>7. Shows([d EXCEPT !.identity["workspace"] = workspace], FALSE)
    BY <1>6, IdentityFieldEarnsNothing
  <1> QED
    BY <1>1, <1>2, <1>3, <1>7

\* A Cursor hook earns nothing.
LEMMA CursorEarnsNothing ==
  ASSUME NEW k, NEW w PROVE Shows(cursor_decode(k, w), FALSE)
  <1> DEFINE From(tool, args) ==
        build([ begin(k, tool, args, "cursor_hook") EXCEPT
                  !.session = IF w.session # None THEN w.session ELSE @,
                  !.trace = w.trace,
                  !.identity.agent_type = "ide_assistant",
                  !.identity.workspace = IF w.workspace # None THEN w.workspace ELSE @ ], w.size)
  <1>1. ASSUME NEW tool, NEW args PROVE Shows(From(tool, args), FALSE)
    <2>1. PICK a : a = begin(k, tool, args, "cursor_hook")
      OBVIOUS
    <2>2. PICK session, workspace :
            /\ session = IF w.session # None THEN w.session ELSE a.session
            /\ workspace = IF w.workspace # None THEN w.workspace ELSE a.identity.workspace
      OBVIOUS
    <2>3. PICK b : b = [a EXCEPT !.session = session, !["trace"] = w.trace,
                                 !.identity.agent_type = "ide_assistant",
                                 !.identity.workspace = workspace]
      OBVIOUS
    <2>4. Shows(b, FALSE)
      BY <2>1, <2>3, BeginEarnsNothing, SurroundingsEarnNothing DEF ActionFields
    <2>5. From(tool, args) = build(b, w.size)
      <3>1. DOMAIN a = ActionFields /\ DOMAIN a.identity = IdentityFields
        BY <2>1, BeginEarnsNothing DEF Shows, Earned
      <3> QED
        BY <2>1, <2>2, <2>3, <3>1 DEF ActionFields, IdentityFields
    <2> QED
      BY <2>4, <2>5, BuildEarnsNothing
  <1>2. \/ cursor_decode(k, w) = From(CursorTool[w.event], hook_arguments(w))
        \/ cursor_decode(k, w) = From(w.tool, from_name_and_arguments(w.args))
        \/ cursor_decode(k, w) = Rejected
    <2> DEFINE first == From(CursorTool[w.event], hook_arguments(w))
               second == From(w.tool, from_name_and_arguments(w.args))
               P == /\ w.event \in DOMAIN CursorTool
                    /\ (IF w.event = "beforeShellExecution" THEN "command" ELSE "path")
                         \in DOMAIN w.args.object.fields
               Q == w.event = "beforeMCPExecution" /\ w.tool # None
    <2>1. cursor_decode(k, w) = CASE P -> first [] Q -> second [] OTHER -> Rejected
      BY ZenonT(60) DEF cursor_decode
    <2> HIDE DEF first, second, P, Q
    <2>2. cursor_decode(k, w) \in {first, second, Rejected}
      BY <2>1, ZenonT(60)
    <2> QED
      BY <2>2 DEF first, second
  <1> QED
    BY <1>1, <1>2, NewEarnsNothing DEF Rejected

\* A Claude Code hook earns nothing.
LEMMA ClaudeEarnsNothing ==
  ASSUME NEW k, NEW w PROVE Shows(claude_decode(k, w), FALSE)
  <1>1. PICK a : a = begin(k, canonical_tool_name(w.tool), from_name_and_arguments(w.args),
                           "claude_code_hook")
    OBVIOUS
  <1>2. PICK session, workspace :
          /\ session = IF w.session \notin {None, Blank} THEN w.session ELSE a.session
          /\ workspace = IF w.workspace # None THEN w.workspace ELSE a.identity.workspace
    OBVIOUS
  <1>3. PICK b : b = [a EXCEPT !.session = session, !["provider"] = "anthropic",
                               !.identity.agent_type = "cli_agent",
                               !.identity.workspace = workspace]
    OBVIOUS
  <1>4. Shows(b, FALSE)
    BY <1>1, <1>3, BeginEarnsNothing, SurroundingsEarnNothing DEF ActionFields
  <1>5. DOMAIN a = ActionFields /\ DOMAIN a.identity = IdentityFields
    BY <1>1, BeginEarnsNothing DEF Shows, Earned
  <1>6. b = [a EXCEPT
               !.provider = "anthropic", !.identity.agent_type = "cli_agent",
               !.session = IF w.session \notin {None, Blank} THEN w.session ELSE @,
               !.identity.workspace = IF w.workspace # None THEN w.workspace ELSE @]
    BY <1>2, <1>3, <1>5 DEF ActionFields, IdentityFields
  <1>7. claude_decode(k, w) = Rejected \/ claude_decode(k, w) = build(b, w.size)
    BY <1>1, <1>6 DEF claude_decode
  <1> QED
    BY <1>4, <1>7, BuildEarnsNothing, NewEarnsNothing DEF Rejected

\* The legacy invocation, without a context, earns nothing.
LEMMA LegacyEarnsNothing ==
  ASSUME NEW w PROVE Shows(to_agent_action(w), FALSE)
  <1>1. Shows([new(w.tool, from_canonical_params(w.args)) EXCEPT !["source"] = "unknown"], FALSE)
    BY NewEarnsNothing, FieldEarnsNothing DEF ActionFields
  <1> QED
    BY <1>1, ClassifyingEarnsNothing DEF to_agent_action

\* Whatever the provider sends, a decoded action is nobody's.
LEMMA DecodingEarnsNothing ==
  ASSUME NEW k, NEW w PROVE Shows(decode(k, w), FALSE)
  <1>1. Shows(generic_decode(k, w), FALSE)
    BY BeginEarnsNothing, BuildEarnsNothing DEF generic_decode
  <1>2. \/ decode(k, w) = mcp_decode(k, w)
        \/ decode(k, w) = openai_decode(k, w)
        \/ decode(k, w) = anthropic_decode(k, w)
        \/ decode(k, w) = cursor_decode(k, w)
        \/ decode(k, w) = claude_decode(k, w)
        \/ decode(k, w) = generic_decode(k, w)
        \/ decode(k, w) = to_agent_action(w)
    BY ZenonT(60) DEF decode
  <1> QED
    BY <1>1, <1>2, McpEarnsNothing, OpenAiEarnsNothing, AnthropicEarnsNothing,
       CursorEarnsNothing, ClaudeEarnsNothing, LegacyEarnsNothing

-----------------------------------------------------------------------------
(* Enforcement. *)

\* An adapter executes nothing that was stopped, and a payload it forwards is the one
\* that was judged.
LEMMA EnforcingIsSound ==
  ASSUME NEW adapter, NEW verdict
  PROVE  /\ verdict = "stopped" => enforce(adapter, verdict) = "nothing"
         /\ verdict = "rewritten" /\ adapter \notin Hooks => enforce(adapter, verdict) = "rewritten"
  <1>1. verdict = "stopped" => forward_enforce(verdict) = "nothing"
    BY DEF forward_enforce
  <1>2. verdict = "rewritten" => forward_enforce(verdict) = "rewritten"
    BY DEF forward_enforce
  <1>3. verdict = "stopped" => hook_enforce(verdict) = "nothing"
    BY DEF hook_enforce
  <1> QED
    BY <1>1, <1>2, <1>3 DEF enforce

-----------------------------------------------------------------------------
(* The lifecycle. *)

\* It holds before the call is decoded.
LEMMA InitInvariant == Init => IndInv
  BY NewEarnsNothing DEF Init, IndInv, Rejected, PolicySeesTheFinalAction, Judged,
     ExecutesWhatWasJudged

\* Decoding yields nobody's action, or none.
LEMMA DecodeKeepsInvariant == IndInv /\ Decode => IndInv'
  <1> SUFFICES ASSUME IndInv, Decode PROVE IndInv'
    OBVIOUS
  <1>1. PICK decoded : decoded = decode(context, wire)
    OBVIOUS
  <1>2. Shows(decoded, FALSE) /\ ~granted
    BY <1>1, DecodingEarnsNothing DEF IndInv, Decode
  <1>3. /\ stage' \in {"rejected", "decoded"}
        /\ action' \in {action, decoded}
        /\ granted' = granted
    BY <1>1 DEF Decode
  <1>4. Shows(action', granted')
    <2>1. granted = FALSE
      BY <1>2 DEF IndInv
    <2> QED
      BY <1>2, <1>3, <2>1 DEF IndInv
  <1> QED
    BY <1>2, <1>3, <1>4 DEF IndInv, PolicySeesTheFinalAction, Judged, ExecutesWhatWasJudged

\* A device binding is what grants trust.
LEMMA BindKeepsInvariant == IndInv /\ Bind => IndInv'
  <1> SUFFICES ASSUME IndInv, Bind PROVE IndInv'
    OBVIOUS
  <1>1. PICK label : action' = [action EXCEPT !.identity = set_bound_agent(@, "registered", label)]
    BY DEF Bind
  <1>2. PICK i : i = set_bound_agent(action.identity, "registered", label)
    OBVIOUS
  <1>3. Earned(i, TRUE)
    BY <1>2, BindingEarns DEF IndInv, Shows
  <1>4. Shows(action', TRUE)
    BY <1>1, <1>2, <1>3 DEF IndInv, Shows, ActionFields
  <1> QED
    BY <1>4 DEF Bind, IndInv, PolicySeesTheFinalAction, Judged, ExecutesWhatWasJudged

\* A merged identity brings claims.
LEMMA MergeKeepsInvariant == IndInv /\ Merge => IndInv'
  <1> SUFFICES ASSUME IndInv, Merge PROVE IndInv'
    OBVIOUS
  <1>1. PICK other : action' = [action EXCEPT !.identity = merge_from(@, other)]
    BY DEF Merge
  <1>2. PICK i : i = merge_from(action.identity, other)
    OBVIOUS
  <1>3. Earned(i, granted)
    BY <1>2, MergingEarnsNothing DEF IndInv, Shows
  <1>4. Shows(action', granted)
    BY <1>1, <1>2, <1>3 DEF IndInv, Shows, ActionFields
  <1> QED
    BY <1>4 DEF Merge, IndInv, PolicySeesTheFinalAction, Judged, ExecutesWhatWasJudged

\* The action is classified as the resolver leaves it.
LEMMA EvaluateKeepsInvariant == IndInv /\ Evaluate => IndInv'
  <1> SUFFICES ASSUME IndInv, Evaluate PROVE IndInv'
    OBVIOUS
  <1>1. PICK known :
          known = IF resolver.kind = "static" THEN enrich(action, resolver.context) ELSE action
    OBVIOUS
  <1>2. Shows(known, granted)
    BY <1>1, EnrichingEarnsNothing DEF IndInv
  <1>3. action' = refresh_security_classification(known)
    BY <1>1 DEF Evaluate
  <1>4. Shows(action', granted)
    BY <1>2, <1>3, ClassifyingEarnsNothing DEF IndInv
  <1>5. PICK final : final = refresh_security_classification(known)
    OBVIOUS
  <1>6. final.security = classify_action(final, final.identity.tier)
    BY <1>2, <1>5, ClassificationIsOfTheAction DEF Shows
  <1>7. action' = final
    BY <1>3, <1>5
  <1>8. PolicySeesTheFinalAction'
    BY <1>6, <1>7 DEF PolicySeesTheFinalAction
  <1> QED
    BY <1>4, <1>8 DEF Evaluate, IndInv, ExecutesWhatWasJudged

\* The verdict decides what the provider is left to execute.
LEMMA EnforceKeepsInvariant == IndInv /\ Enforce => IndInv'
  <1> SUFFICES ASSUME IndInv, Enforce PROVE IndInv'
    OBVIOUS
  <1>1. executed' = enforce(wire.adapter, outcome)
    BY DEF Enforce
  <1>2. ExecutesWhatWasJudged'
    BY <1>1, EnforcingIsSound DEF ExecutesWhatWasJudged, Enforce
  <1>3. PolicySeesTheFinalAction'
    BY DEF Enforce, IndInv, PolicySeesTheFinalAction, Judged
  <1> QED
    BY <1>2, <1>3 DEF Enforce, IndInv

\* The inductive invariant: what an action shows is what was earned for it, at every stage
\* of its life, whatever the provider, the environment and the resolver say.
THEOREM AgentInvariant == Spec => []IndInv
  <1>1. Init => IndInv
    BY InitInvariant
  <1>2. IndInv /\ [Next]_vars => IndInv'
    <2> SUFFICES ASSUME IndInv, [Next]_vars PROVE IndInv'
      OBVIOUS
    <2>1. CASE Decode \/ Bind \/ Merge \/ Evaluate \/ Enforce
      BY <2>1, DecodeKeepsInvariant, BindKeepsInvariant, MergeKeepsInvariant,
         EvaluateKeepsInvariant, EnforceKeepsInvariant
    <2>2. CASE Done \/ UNCHANGED vars
      BY <2>2 DEF Done, vars, IndInv, PolicySeesTheFinalAction, Judged, ExecutesWhatWasJudged
    <2> QED
      BY <2>1, <2>2 DEF Next
  <1> QED
    BY <1>1, <1>2, PTL DEF Spec

\* Trust is earned, never claimed: an agent is trusted for privileges exactly when a
\* device binding was resolved for it, whatever calls, contexts and resolvers there are
\* (identity.rs: set_self_asserted_agent, set_bound_agent, merge_from).
THEOREM TrustIsNeverClaimed == Spec => []TrustIsEarned
  <1>1. IndInv => TrustIsEarned
    BY DEF IndInv, Shows, Earned, TrustIsEarned
  <1> QED
    BY <1>1, AgentInvariant, PTL

\* The policy reads the classification of the action as it finally is
\* (gateway/mod.rs: enrich, then refresh_security_classification).
THEOREM FinalActionIsJudged == Spec => []PolicySeesTheFinalAction
  <1>1. IndInv => PolicySeesTheFinalAction
    BY DEF IndInv
  <1> QED
    BY <1>1, AgentInvariant, PTL

\* Nothing stopped is executed, and a forwarded payload is the one that was judged
\* (adapters: enforce).
THEOREM JudgedIsExecuted == Spec => []ExecutesWhatWasJudged
  <1>1. IndInv => ExecutesWhatWasJudged
    BY DEF IndInv
  <1> QED
    BY <1>1, AgentInvariant, PTL

-----------------------------------------------------------------------------
(* The policy engine: selection.                                           *)

\* Every nonempty set of natural numbers has a least one: the induction principle of
\* what follows.
LEMMA LeastNumber ==
  ASSUME NEW T \in SUBSET Nat, T # {}
  PROVE  \E m \in T : \A k \in T : m <= k
<1>1. PICK m \in T : \A k \in T : ~(<<k, m>> \in OpToRel(<, Nat))
  BY NatLessThanWellFounded, WFMin
<1>2. \A k \in T : ~(k < m)
  BY <1>1 DEF OpToRel
<1> QED
  BY <1>2

\* The types of compiled rules.
IsCompiled(r) ==
  /\ r.priority \in Int /\ r.effect \in DOMAIN Severity /\ r.layer \in DOMAIN Rank

AreCompiled(rules) ==
  /\ Len(rules) \in Nat /\ DOMAIN rules = 1 .. Len(rules)
  /\ \A i \in DOMAIN rules : IsCompiled(rules[i])

\* The severities and the ranks are natural numbers.
LEMMA Scales ==
  /\ \A effect \in DOMAIN Severity : Severity[effect] \in 0 .. 3
  /\ \A layer \in DOMAIN Rank : Rank[layer] \in 0 .. 2
  /\ \A layer, other \in DOMAIN Rank : Rank[layer] = Rank[other] => layer = other
BY DEF Severity, Rank

\* Of the matched rules of a layer one precedes all the others, so that the winner of a
\* layer is one of them: no lower a priority than any, and none of its priority severer.
LEMMA WinnerOfLayer ==
  ASSUME NEW rules, AreCompiled(rules), NEW matched \in SUBSET DOMAIN rules, matched # {}
  PROVE  LET w == winner_within_layer(rules, matched)
         IN  /\ w \in matched
             /\ \A j \in matched :
                  \/ rules[w].priority > rules[j].priority
                  \/ /\ rules[w].priority = rules[j].priority
                     /\ Severity[rules[w].effect] >= Severity[rules[j].effect]
<1> DEFINE First(i, S) == i \in S /\ \A j \in S \ {i} : Precedes(rules, i, j)
           n == Len(rules)
           Bad == {k \in 0 .. n : \E S \in SUBSET (1 .. k) : S # {} /\ ~ \E i : First(i, S)}
<1>1. /\ n \in Nat /\ DOMAIN rules = 1 .. n
      /\ \A i \in 1 .. n : rules[i].priority \in Int /\ Severity[rules[i].effect] \in Int
  BY Scales DEF AreCompiled, IsCompiled
<1>. HIDE DEF n
<1>2. \A i, j \in 1 .. n : i # j => Precedes(rules, i, j) \/ Precedes(rules, j, i)
  BY <1>1 DEF Precedes
<1>3. \A i, j, k \in 1 .. n : Precedes(rules, i, j) /\ Precedes(rules, j, k) => Precedes(rules, i, k)
  BY <1>1 DEF Precedes
<1>4. Bad = {}
  <2>1. SUFFICES ASSUME Bad # {} PROVE FALSE
    OBVIOUS
  <2>2. PICK k \in Bad : \A m \in Bad : k <= m
    <3>1. Bad \in SUBSET Nat
      BY <1>1
    <3>. HIDE DEF Bad
    <3> QED
      BY <2>1, <3>1, LeastNumber
  <2>3. PICK S \in SUBSET (1 .. k) : S # {} /\ ~ \E i : First(i, S)
    OBVIOUS
  <2>4. k \in 1 .. n /\ k - 1 \in 0 .. n /\ k - 1 \notin Bad
    <3>1. k \in 0 .. n /\ k # 0
      BY <1>1, <2>3
    <3>2. k - 1 \in 0 .. n /\ ~(k <= k - 1)
      BY <1>1, <3>1
    <3>. HIDE DEF Bad
    <3> QED
      BY <1>1, <2>2, <3>1, <3>2
  <2>5. S \ {k} \in SUBSET (1 .. k - 1)
    BY <2>4
  <2>6. \A i \in S : i \in 1 .. n
    BY <1>1, <2>4
  <2>7. CASE k \notin S
    BY <2>3, <2>4, <2>5, <2>7
  <2>8. CASE S = {k}
    BY <2>3, <2>8
  <2>9. CASE k \in S /\ S # {k}
    <3>1. PICK i : First(i, S \ {k})
      <4>1. S \ {k} # {}
        BY <2>9
      <4>2. \A R \in SUBSET (1 .. k - 1) : R # {} => \E i : First(i, R)
        BY <2>4
      <4> QED
        BY <2>5, <4>1, <4>2
    <3>2. CASE Precedes(rules, i, k)
      BY <2>3, <3>1, <3>2
    <3>3. CASE Precedes(rules, k, i)
      <4>1. \A j \in S \ {k} : Precedes(rules, k, j)
        BY <1>3, <2>6, <2>9, <3>1, <3>3
      <4> QED
        BY <2>3, <2>9, <4>1
    <3> QED
      BY <1>2, <2>6, <2>9, <3>1, <3>2, <3>3
  <2> QED
    BY <2>3, <2>7, <2>8, <2>9
<1>5. PICK i : First(i, matched)
  <2>1. n \in 0 .. n /\ matched \in SUBSET (1 .. n)
    BY <1>1
  <2> QED
    BY <1>4, <2>1
<1> DEFINE w == winner_within_layer(rules, matched)
<1>6. First(w, matched)
  BY <1>5 DEF winner_within_layer
<1>. HIDE DEF w
<1>7. \A j \in matched : j \in 1 .. n
  BY <1>1
<1>8. ASSUME NEW j \in matched
      PROVE  \/ rules[w].priority > rules[j].priority
             \/ /\ rules[w].priority = rules[j].priority
                /\ Severity[rules[w].effect] >= Severity[rules[j].effect]
  BY <1>1, <1>6, <1>7 DEF Precedes
<1> QED
  BY <1>6, <1>8 DEF w

\* Of the winners of different layers one is stronger than all the others, so that the
\* winner across layers is one of them, and none is severer.
LEMMA WinnerAcross ==
  ASSUME NEW rules, AreCompiled(rules), NEW winners \in SUBSET DOMAIN rules, winners # {},
         \A i, j \in winners : rules[i].layer = rules[j].layer => i = j
  PROVE  LET best == select_cross_layer_winner(rules, winners)
         IN  /\ best \in winners
             /\ \A j \in winners : Severity[rules[best].effect] >= Severity[rules[j].effect]
<1> DEFINE Weight(i) == 3 * Severity[rules[i].effect] + Rank[rules[i].layer]
           T == {12 - Weight(i) : i \in winners}
<1>1. \A i \in winners : /\ Severity[rules[i].effect] \in 0 .. 3
                         /\ Rank[rules[i].layer] \in 0 .. 2
  BY Scales DEF AreCompiled, IsCompiled
<1>2. \A i \in winners : 12 - Weight(i) \in Nat
  BY <1>1
<1>3. T \in SUBSET Nat /\ T # {}
  BY <1>2
<1>4. PICK t \in T : \A k \in T : t <= k
  BY <1>3, LeastNumber
<1>5. PICK i \in winners : t = 12 - Weight(i)
  OBVIOUS
<1>6. ASSUME NEW j \in winners \ {i} PROVE Stronger(rules[i], rules[j])
  <2>1. 12 - Weight(i) <= 12 - Weight(j)
    BY <1>4, <1>5
  <2>2. Rank[rules[i].layer] # Rank[rules[j].layer]
    BY <1>6, Scales DEF AreCompiled, IsCompiled
  <2> QED
    BY <1>1, <2>1, <2>2 DEF Stronger
<1> DEFINE best == select_cross_layer_winner(rules, winners)
<1>7. best \in winners /\ \A j \in winners \ {best} : Stronger(rules[best], rules[j])
  BY <1>5, <1>6 DEF select_cross_layer_winner
<1>. HIDE DEF best
<1>8. \A j \in winners : Severity[rules[best].effect] >= Severity[rules[j].effect]
  BY <1>1, <1>7 DEF Stronger
<1> QED
  BY <1>7, <1>8 DEF best

-----------------------------------------------------------------------------
(* The policy engine: what an answer is.                                   *)

\* The rules of a layer that match, those of them with the highest priority, and what
\* these come to over the layers: the words of VerdictIsStrongest.
MatchedOf(R, ctx, layer) == {r \in R : r.layer = layer /\ matches(r, ctx)}
Top(S) == {r \in S : \A q \in S : q.priority <= r.priority}
Decisive(R, ctx) == UNION {Top(MatchedOf(R, ctx, layer)) : layer \in DOMAIN Rank}

\* a is the severest effect of the rules of D.
Severest(D, a) ==
  /\ a \in 0 .. 3
  /\ a = 0 \/ \E r \in D : a = Severity[r.effect]
  /\ \A r \in D : Severity[r.effect] <= a

\* An effect and its verdict are as strict as each other.
LEMMA StrictAsSevere ==
  ASSUME NEW r, r.effect \in DOMAIN Severity
  PROVE  /\ Strictness(verdict_for_rule(r)) = Severity[r.effect]
         /\ verdict_for_rule(r) \in {"Allow", "Redact", "Confirm", "Block"}
<1>1. r.effect \in {"deny", "require_approval", "redact", "allow"}
  BY DEF Severity
<1>2. CASE r.effect = "deny"
  BY <1>2 DEF verdict_for_rule, Strictness, Severity
<1>3. CASE r.effect = "require_approval"
  BY <1>3 DEF verdict_for_rule, Strictness, Severity
<1>4. CASE r.effect = "redact"
  BY <1>4 DEF verdict_for_rule, Strictness, Severity
<1>5. CASE r.effect = "allow"
  BY <1>5 DEF verdict_for_rule, Strictness, Severity
<1> QED
  BY <1>1, <1>2, <1>3, <1>4, <1>5

\* The rules that match, by their places, and the winner of a layer that has any: a
\* decisive rule, and as severe as every other decisive one of its layer.
Places(rules, ctx) == {i \in DOMAIN rules : matches(rules[i], ctx)}
PlacesIn(rules, ctx, layer) == {i \in Places(rules, ctx) : rules[i].layer = layer}

LEMMA WinnerIsDecisive ==
  ASSUME NEW rules, AreCompiled(rules), NEW ctx, NEW layer \in DOMAIN Rank,
         PlacesIn(rules, ctx, layer) # {}
  PROVE  LET w == winner_within_layer(rules, PlacesIn(rules, ctx, layer))
             top == Top(MatchedOf(ToSet(rules), ctx, layer))
         IN  /\ w \in PlacesIn(rules, ctx, layer)
             /\ rules[w] \in top
             /\ \A r \in top : Severity[r.effect] <= Severity[rules[w].effect]
<1> DEFINE In == PlacesIn(rules, ctx, layer)
           w == winner_within_layer(rules, In)
           S == MatchedOf(ToSet(rules), ctx, layer)
<1>1. In \in SUBSET DOMAIN rules
  BY DEF PlacesIn, Places
<1>2. /\ w \in In
      /\ \A j \in In :
           \/ rules[w].priority > rules[j].priority
           \/ /\ rules[w].priority = rules[j].priority
              /\ Severity[rules[w].effect] >= Severity[rules[j].effect]
  BY <1>1, WinnerOfLayer
<1>3. S = {rules[j] : j \in In}
  BY DEF MatchedOf, ToSet, PlacesIn, Places
<1>. HIDE DEF In, w, S
<1>4. \A j \in In : rules[j].priority \in Int /\ Severity[rules[j].effect] \in 0 .. 3
  BY <1>1, Scales DEF AreCompiled, IsCompiled
<1>5. rules[w] \in Top(S)
  BY <1>2, <1>3, <1>4 DEF Top
<1>6. ASSUME NEW r \in Top(S) PROVE Severity[r.effect] <= Severity[rules[w].effect]
  <2>1. PICK j \in In : r = rules[j]
    BY <1>3, <1>6 DEF Top
  <2>2. rules[w].priority <= r.priority
    BY <1>5, <1>6 DEF Top
  <2> QED
    BY <1>2, <1>4, <2>1, <2>2
<1> QED
  BY <1>2, <1>5, <1>6 DEF In, w, S

\* evaluate answers with the severest of the decisive rules, and allows what none matches.
LEMMA AnswerIsSeverest ==
  ASSUME NEW p, AreCompiled(p.rules), NEW c, policy_payload_readable(c)
  PROVE  /\ Severest(Decisive(ToSet(p.rules), build_with_context(c)), Answer(p, c))
         /\ evaluate(p, c).verdict \in {"Allow", "Redact", "Confirm", "Block"}
<1> DEFINE ctx == build_with_context(c)
           rules == p.rules
           matched == Places(rules, ctx)
           winners == LayerWinners(rules, matched)
           best == select_cross_layer_winner(rules, winners)
           D == Decisive(ToSet(rules), ctx)
<1>. HIDE DEF ctx
<1>1. \A layer : PlacesIn(rules, ctx, layer) = {i \in matched : rules[i].layer = layer}
  BY DEF PlacesIn
<1>2. CASE matched = {}
  <2>1. evaluate(p, c).verdict = "Allow"
    BY <1>2 DEF evaluate, Ruling, Nothing, Places, ctx
  <2>2. D = {}
    BY <1>2 DEF Decisive, Top, MatchedOf, ToSet, Places
  <2> QED
    BY <2>1, <2>2 DEF Answer, Strictness, Severest, ctx
<1>3. CASE matched # {}
  <2> DEFINE W(layer) == winner_within_layer(rules, PlacesIn(rules, ctx, layer))
             Layers == {layer \in DOMAIN Rank : PlacesIn(rules, ctx, layer) # {}}
  <2>1. winners = {W(layer) : layer \in Layers}
    BY <1>1 DEF LayerWinners
  <2>2. ASSUME NEW layer \in Layers
        PROVE  /\ W(layer) \in DOMAIN rules /\ rules[W(layer)].layer = layer
               /\ rules[W(layer)] \in Top(MatchedOf(ToSet(rules), ctx, layer))
               /\ \A r \in Top(MatchedOf(ToSet(rules), ctx, layer)) :
                    Severity[r.effect] <= Severity[rules[W(layer)].effect]
    <3>1. /\ W(layer) \in PlacesIn(rules, ctx, layer)
          /\ rules[W(layer)] \in Top(MatchedOf(ToSet(rules), ctx, layer))
          /\ \A r \in Top(MatchedOf(ToSet(rules), ctx, layer)) :
               Severity[r.effect] <= Severity[rules[W(layer)].effect]
      BY <2>2, WinnerIsDecisive
    <3>2. W(layer) \in DOMAIN rules /\ rules[W(layer)].layer = layer
      BY <3>1 DEF PlacesIn, Places
    <3> QED
      BY <3>1, <3>2
  <2>. HIDE DEF W
  <2>3. winners \in SUBSET DOMAIN rules
    BY <2>1, <2>2
  <2>4. winners # {}
    <3>1. PICK i \in matched : TRUE
      BY <1>3
    <3>2. rules[i].layer \in Layers
      BY <3>1 DEF PlacesIn, Places, AreCompiled, IsCompiled
    <3> QED
      BY <2>1, <3>2
  <2>5. \A i, j \in winners : rules[i].layer = rules[j].layer => i = j
    BY <2>1, <2>2
  <2>6. best \in winners /\ \A j \in winners : Severity[rules[best].effect] >= Severity[rules[j].effect]
    <3>. HIDE DEF winners
    <3> QED
      BY <2>3, <2>4, <2>5, WinnerAcross
  <2>7. evaluate(p, c).verdict = verdict_for_rule(rules[best])
    BY <1>3 DEF evaluate, Ruling, Places, ctx
  <2>. HIDE DEF best, winners
  <2>8. /\ Answer(p, c) = Severity[rules[best].effect]
        /\ evaluate(p, c).verdict \in {"Allow", "Redact", "Confirm", "Block"}
        /\ Severity[rules[best].effect] \in 0 .. 3
    BY <2>3, <2>6, <2>7, StrictAsSevere, Scales DEF Answer, AreCompiled, IsCompiled
  <2>9. rules[best] \in D
    BY <2>1, <2>2, <2>6 DEF Decisive
  <2>10. ASSUME NEW r \in D PROVE Severity[r.effect] <= Severity[rules[best].effect]
    <3>1. PICK layer \in DOMAIN Rank : r \in Top(MatchedOf(ToSet(rules), ctx, layer))
      BY <2>10 DEF Decisive
    <3>2. PICK i \in DOMAIN rules : r = rules[i] /\ r.layer = layer /\ matches(r, ctx)
      BY <3>1 DEF Top, MatchedOf, ToSet
    <3>3. layer \in Layers
      BY <3>2 DEF PlacesIn, Places
    <3>4. /\ Severity[r.effect] <= Severity[rules[W(layer)].effect]
          /\ W(layer) \in winners /\ W(layer) \in DOMAIN rules
      BY <2>1, <2>2, <3>1, <3>3
    <3>5. /\ Severity[rules[W(layer)].effect] \in 0 .. 3
          /\ Severity[r.effect] \in 0 .. 3
      BY <3>2, <3>4, Scales DEF AreCompiled, IsCompiled
    <3> QED
      BY <2>6, <2>8, <3>4, <3>5
  <2> QED
    BY <2>8, <2>9, <2>10 DEF Severest, ctx
<1> QED
  BY <1>2, <1>3

\* A layer with matches has decisive rules.
LEMMA TopExists ==
  ASSUME NEW rules, AreCompiled(rules), NEW ctx, NEW layer \in DOMAIN Rank,
         MatchedOf(ToSet(rules), ctx, layer) # {}
  PROVE  Top(MatchedOf(ToSet(rules), ctx, layer)) # {}
<1>1. PlacesIn(rules, ctx, layer) # {}
  BY DEF MatchedOf, ToSet, PlacesIn, Places
<1> QED
  BY <1>1, WinnerIsDecisive

-----------------------------------------------------------------------------
(* The policy engine: sequences of rules.                                  *)

\* Induction over the natural numbers, for a set of them.
LEMMA SetInduction ==
  ASSUME NEW T, 0 \in T, \A n \in Nat : n \in T => n + 1 \in T
  PROVE  \A n \in Nat : n \in T
<1> SUFFICES ASSUME Nat \ T # {} PROVE FALSE
  OBVIOUS
<1>1. PICK m \in Nat \ T : \A k \in Nat \ T : m <= k
  BY LeastNumber
<1>2. m - 1 \in Nat /\ ~(m <= m - 1)
  BY <1>1
<1>3. m - 1 \in T
  BY <1>1, <1>2
<1> QED
  BY <1>1, <1>2, <1>3

\* What two sequences and one more element have in them.
LEMMA ConcatSet ==
  ASSUME NEW S, NEW s \in Seq(S), NEW t \in Seq(S)
  PROVE  s \o t \in Seq(S) /\ ToSet(s \o t) = ToSet(s) \cup ToSet(t)
<1>1. s \o t \in Seq(S)
  OBVIOUS
<1>2. ASSUME NEW x \in ToSet(s \o t) PROVE x \in ToSet(s) \cup ToSet(t)
  <2>1. PICK i \in 1 .. Len(s) + Len(t) : x = (s \o t)[i]
    BY <1>2 DEF ToSet
  <2>2. CASE i <= Len(s)
    BY <2>1, <2>2 DEF ToSet
  <2>3. CASE i > Len(s)
    <3>1. x = t[i - Len(s)] /\ i - Len(s) \in DOMAIN t
      BY <2>1, <2>3
    <3> QED
      BY <3>1 DEF ToSet
  <2> QED
    BY <2>1, <2>2, <2>3
<1>3. ASSUME NEW x \in ToSet(s) PROVE x \in ToSet(s \o t)
  <2>1. PICK i \in DOMAIN s : x = s[i]
    BY <1>3 DEF ToSet
  <2>2. x = (s \o t)[i] /\ i \in DOMAIN (s \o t)
    BY <2>1
  <2> QED
    BY <2>2 DEF ToSet
<1>4. ASSUME NEW x \in ToSet(t) PROVE x \in ToSet(s \o t)
  <2>1. PICK i \in DOMAIN t : x = t[i]
    BY <1>4 DEF ToSet
  <2>2. x = (s \o t)[Len(s) + i] /\ Len(s) + i \in DOMAIN (s \o t)
    BY <2>1
  <2> QED
    BY <2>2 DEF ToSet
<1> QED
  BY <1>1, <1>2, <1>3, <1>4

LEMMA AppendSet ==
  ASSUME NEW S, NEW s \in Seq(S), NEW x \in S
  PROVE  Append(s, x) \in Seq(S) /\ ToSet(Append(s, x)) = ToSet(s) \cup {x}
<1>1. Append(s, x) \in Seq(S) /\ DOMAIN Append(s, x) = DOMAIN s \cup {Len(s) + 1}
  OBVIOUS
<1>2. \A i \in DOMAIN s : Append(s, x)[i] = s[i]
  OBVIOUS
<1>3. Append(s, x)[Len(s) + 1] = x
  OBVIOUS
<1> QED
  BY <1>1, <1>2, <1>3 DEF ToSet

\* A recursive function on the first natural numbers exists: the one of Kept.
KeptBody(s, keep, f, n) ==
  [i \in 0 .. n |-> IF i = 0 THEN << >> ELSE IF i \in keep THEN Append(f[i - 1], s[i]) ELSE f[i - 1]]

LEMMA KeptRecursion ==
  ASSUME NEW s, NEW keep
  PROVE  \A n \in Nat : \E f : f = KeptBody(s, keep, f, n)
<1> DEFINE Exists(n) == \E f : f = KeptBody(s, keep, f, n)
           T == {n \in Nat : Exists(n)}
<1>1. Exists(0)
  <2> DEFINE g == [i \in 0 .. 0 |-> << >>]
  <2>1. g = KeptBody(s, keep, g, 0)
    BY DEF KeptBody
  <2> QED
    BY <2>1
<1>2. ASSUME NEW n \in Nat, NEW f, f = KeptBody(s, keep, f, n) PROVE Exists(n + 1)
  <2> DEFINE Step(i) == IF i \in keep THEN Append(f[i - 1], s[i]) ELSE f[i - 1]
             g == [i \in 0 .. n + 1 |-> IF i \in 0 .. n THEN f[i] ELSE Step(i)]
  <2>1. \A i \in 0 .. n : f[i] = IF i = 0 THEN << >> ELSE Step(i)
    BY <1>2 DEF KeptBody
  <2>2. \A i \in 0 .. n + 1 : i # 0 => g[i - 1] = f[i - 1]
    OBVIOUS
  <2>3. \A i \in 0 .. n + 1 :
          g[i] = IF i = 0 THEN << >> ELSE IF i \in keep THEN Append(g[i - 1], s[i]) ELSE g[i - 1]
    BY <2>1, <2>2
  <2>4. g = KeptBody(s, keep, g, n + 1)
    BY <2>3 DEF KeptBody
  <2>. HIDE DEF g
  <2> QED
    BY <2>4
<1>3. \A n \in Nat : Exists(n) => Exists(n + 1)
  BY <1>2
<1>. HIDE DEF Exists
<1>4. 0 \in T /\ \A n \in Nat : n \in T => n + 1 \in T
  BY <1>1, <1>3
<1>5. \A n \in Nat : n \in T
  <2>. HIDE DEF T
  <2> QED
    BY <1>4, SetInduction
<1> QED
  BY <1>5 DEF Exists

\* Kept retains elements of s, those at the positions it is given.
LEMMA KeptSet ==
  ASSUME NEW S, NEW s \in Seq(S), NEW keep
  PROVE  Kept(s, keep) \in Seq(S) /\ ToSet(Kept(s, keep)) = {s[i] : i \in DOMAIN s \cap keep}
<1>1. PICK n \in Nat : n = Len(s) /\ DOMAIN s = 1 .. n /\ \A i \in 1 .. n : s[i] \in S
  OBVIOUS
<1> DEFINE f == CHOOSE f : f = KeptBody(s, keep, f, n)
<1>2. f = KeptBody(s, keep, f, n)
  BY KeptRecursion
<1>3. Kept(s, keep) = f[n]
  BY <1>1 DEF Kept, KeptBody
<1>4. \A i \in 0 .. n : f[i] = IF i = 0 THEN << >> ELSE
                               IF i \in keep THEN Append(f[i - 1], s[i]) ELSE f[i - 1]
  BY <1>2 DEF KeptBody
<1>. HIDE DEF f
<1> DEFINE T == {m \in Nat : m <= n => /\ f[m] \in Seq(S)
                                       /\ ToSet(f[m]) = {s[i] : i \in (1 .. m) \cap keep}}
<1>5. 0 \in T
  <2>1. f[0] = << >>
    BY <1>1, <1>4
  <2>2. ToSet(<< >>) = {} /\ {s[i] : i \in (1 .. 0) \cap keep} = {}
    BY DEF ToSet
  <2>3. f[0] \in Seq(S) /\ ToSet(f[0]) = {s[i] : i \in (1 .. 0) \cap keep}
    BY <2>1, <2>2
  <2> QED
    BY <2>3
<1>6. ASSUME NEW m \in Nat, m \in T PROVE m + 1 \in T
  <2>1. SUFFICES ASSUME m + 1 <= n
                 PROVE  /\ f[m + 1] \in Seq(S)
                        /\ ToSet(f[m + 1]) = {s[i] : i \in (1 .. m + 1) \cap keep}
    OBVIOUS
  <2>2. f[m] \in Seq(S) /\ ToSet(f[m]) = {s[i] : i \in (1 .. m) \cap keep}
    BY <1>1, <1>6, <2>1
  <2>3. m + 1 \in 0 .. n /\ m + 1 # 0 /\ m + 1 \in 1 .. n /\ m + 1 - 1 = m
    BY <1>1, <2>1
  <2>4. f[m + 1] = IF m + 1 \in keep THEN Append(f[m], s[m + 1]) ELSE f[m]
    BY <1>4, <2>3
  <2>5. 1 .. m + 1 = (1 .. m) \cup {m + 1}
    OBVIOUS
  <2>6. s[m + 1] \in S
    BY <1>1, <2>3
  <2>7. CASE m + 1 \in keep
    <3>1. f[m + 1] = Append(f[m], s[m + 1])
      BY <2>4, <2>7
    <3>2. f[m + 1] \in Seq(S) /\ ToSet(f[m + 1]) = ToSet(f[m]) \cup {s[m + 1]}
      BY <2>2, <2>6, <3>1, AppendSet
    <3> QED
      BY <2>2, <2>5, <2>7, <3>2
  <2>8. CASE m + 1 \notin keep
    BY <2>2, <2>4, <2>5, <2>8
  <2> QED
    BY <2>7, <2>8
<1>. HIDE DEF T
<1>7. \A m \in Nat : m \in T
  BY <1>5, <1>6, SetInduction
<1>8. n \in T
  BY <1>1, <1>7
<1> QED
  BY <1>1, <1>3, <1>8 DEF T

\* A recursive function on the first positive numbers exists: the one of FlattenSeq.
FlattenBody(seqs, f, n) == [i \in 1 .. n |-> IF i = 1 THEN seqs[i] ELSE f[i - 1] \o seqs[i]]

LEMMA FlattenRecursion ==
  ASSUME NEW seqs
  PROVE  \A n \in Nat : \E f : f = FlattenBody(seqs, f, n)
<1> DEFINE Exists(n) == \E f : f = FlattenBody(seqs, f, n)
           T == {n \in Nat : Exists(n)}
<1>1. Exists(0)
  <2>1. << >> = FlattenBody(seqs, << >>, 0)
    BY DEF FlattenBody
  <2> QED
    BY <2>1
<1>2. ASSUME NEW n \in Nat, NEW f, f = FlattenBody(seqs, f, n) PROVE Exists(n + 1)
  <2> DEFINE Step(i) == IF i = 1 THEN seqs[i] ELSE f[i - 1] \o seqs[i]
             g == [i \in 1 .. n + 1 |-> IF i \in 1 .. n THEN f[i] ELSE Step(i)]
  <2>1. \A i \in 1 .. n : f[i] = Step(i)
    BY <1>2 DEF FlattenBody
  <2>2. \A i \in 1 .. n + 1 : i # 1 => g[i - 1] = f[i - 1]
    OBVIOUS
  <2>3. \A i \in 1 .. n + 1 : g[i] = IF i = 1 THEN seqs[i] ELSE g[i - 1] \o seqs[i]
    BY <2>1, <2>2
  <2>4. g = FlattenBody(seqs, g, n + 1)
    BY <2>3 DEF FlattenBody
  <2>. HIDE DEF g
  <2> QED
    BY <2>4
<1>3. \A n \in Nat : Exists(n) => Exists(n + 1)
  BY <1>2
<1>. HIDE DEF Exists
<1>4. 0 \in T /\ \A n \in Nat : n \in T => n + 1 \in T
  BY <1>1, <1>3
<1>5. \A n \in Nat : n \in T
  <2>. HIDE DEF T
  <2> QED
    BY <1>4, SetInduction
<1> QED
  BY <1>5 DEF Exists

\* What the first n of a sequence of sequences have in them, and a function that gathers
\* it place by place.
Gathered(seqs, n) == UNION {ToSet(seqs[i]) : i \in 1 .. n}
Gathers(f, S, seqs, n) ==
  \A m \in Nat : m \in 1 .. n => f[m] \in Seq(S) /\ ToSet(f[m]) = Gathered(seqs, m)

\* What the recursive function of FlattenSeq has in it, place by place.
LEMMA FlattenPlaces ==
  ASSUME NEW S, NEW seqs, NEW n \in Nat, \A i \in 1 .. n : seqs[i] \in Seq(S),
         NEW f, f = FlattenBody(seqs, f, n)
  PROVE  Gathers(f, S, seqs, n)
<1> DEFINE Flat(m) == f[m] \in Seq(S) /\ ToSet(f[m]) = Gathered(seqs, m)
           T == {m \in Nat : m \in 1 .. n => Flat(m)}
<1>1. \A i \in 1 .. n : f[i] = IF i = 1 THEN seqs[i] ELSE f[i - 1] \o seqs[i]
  BY DEF FlattenBody
<1>2. ASSUME NEW m \in Nat, m + 1 \in 1 .. n, m \in 1 .. n => Flat(m) PROVE Flat(m + 1)
  <2>1. seqs[m + 1] \in Seq(S) /\ m + 1 - 1 = m
    BY <1>2
  <2>2. CASE m = 0
    BY <1>1, <1>2, <2>1, <2>2 DEF Gathered
  <2>3. CASE m # 0
    <3>1. m \in 1 .. n /\ m + 1 # 1
      BY <1>2, <2>3
    <3>2. f[m + 1] = f[m] \o seqs[m + 1]
      <4>1. m + 1 \in 1 .. n /\ f[m + 1] = IF m + 1 = 1 THEN seqs[m + 1] ELSE f[m + 1 - 1] \o seqs[m + 1]
        BY <1>1, <1>2
      <4> QED
        BY <2>1, <3>1, <4>1
    <3>3. f[m + 1] \in Seq(S) /\ ToSet(f[m + 1]) = ToSet(f[m]) \cup ToSet(seqs[m + 1])
      BY <1>2, <2>1, <3>1, <3>2, ConcatSet
    <3>4. 1 .. m + 1 = (1 .. m) \cup {m + 1}
      OBVIOUS
    <3> QED
      BY <1>2, <3>1, <3>3, <3>4 DEF Gathered
  <2> QED
    BY <2>2, <2>3
<1>. HIDE DEF Flat
<1>3. 0 \in T /\ \A m \in Nat : m \in T => m + 1 \in T
  BY <1>2
<1>4. \A m \in Nat : m \in T
  <2>. HIDE DEF T
  <2> QED
    BY <1>3, SetInduction
<1> QED
  BY <1>4 DEF Flat, Gathers

\* FlattenSeq has in it what its parts have.
LEMMA FlattenSeqSet ==
  ASSUME NEW S, NEW seqs \in Seq(Seq(S))
  PROVE  FlattenSeq(seqs) \in Seq(S) /\ ToSet(FlattenSeq(seqs)) = UNION {ToSet(seqs[i]) : i \in DOMAIN seqs}
<1>1. PICK n \in Nat : /\ n = Len(seqs) /\ DOMAIN seqs = 1 .. n
                       /\ \A i \in 1 .. n : seqs[i] \in Seq(S)
  OBVIOUS
<1>2. CASE n = 0
  <2>1. FlattenSeq(seqs) = seqs /\ DOMAIN seqs = {} /\ seqs = << >>
    BY <1>1, <1>2 DEF FlattenSeq
  <2>2. ToSet(seqs) = {} /\ seqs \in Seq(S)
    BY <2>1 DEF ToSet
  <2> QED
    BY <2>1, <2>2
<1>3. CASE n # 0
  <2>1. PICK f : f = FlattenBody(seqs, f, n) /\ FlattenSeq(seqs) = f[n]
    <3> DEFINE g == CHOOSE f : f = FlattenBody(seqs, f, n)
    <3>1. g = FlattenBody(seqs, g, n)
      BY FlattenRecursion
    <3>2. FlattenSeq(seqs) = g[n]
      BY <1>1, <1>3 DEF FlattenSeq, FlattenBody
    <3>. HIDE DEF g
    <3> QED
      BY <3>1, <3>2
  <2>2. n \in 1 .. n
    BY <1>3
  <2>3. Gathers(f, S, seqs, n)
    BY <1>1, <2>1, FlattenPlaces
  <2>4. f[n] \in Seq(S) /\ ToSet(f[n]) = Gathered(seqs, n)
    BY <2>2, <2>3 DEF Gathers
  <2> QED
    BY <1>1, <2>1, <2>4 DEF Gathered
<1> QED
  BY <1>2, <1>3


-----------------------------------------------------------------------------
(* The policy engine: what a policy is compiled into.                      *)

\* A sequence, of whatever it has in it.
IsList(s) == s \in Seq(ToSet(s))

\* Its places are the numbers up to its length.
LEMMA ListPlaces ==
  ASSUME NEW s, IsList(s)
  PROVE  /\ Len(s) \in Nat /\ DOMAIN s = 1 .. Len(s)
         /\ \A i \in DOMAIN s : s[i] \in ToSet(s)
         /\ \A x \in ToSet(s) : \E i \in DOMAIN s : x = s[i]
BY DEF IsList, ToSet

\* A sequence over any set is one of what it has in it.
LEMMA SequenceIsList ==
  ASSUME NEW S, NEW s \in Seq(S)
  PROVE  IsList(s)
<1>1. \A i \in DOMAIN s : s[i] \in ToSet(s)
  BY DEF ToSet
<1> QED
  BY <1>1 DEF IsList

\* A function on the first n numbers is a sequence.
LEMMA FunctionIsList ==
  ASSUME NEW n \in Nat, NEW f, DOMAIN f = 1 .. n, f = [i \in 1 .. n |-> f[i]]
  PROVE  IsList(f)
<1>1. \A i \in 1 .. n : f[i] \in ToSet(f)
  BY DEF ToSet
<1> QED
  BY <1>1 DEF IsList

\* What two sequences have in them when they are joined.
LEMMA ConcatList ==
  ASSUME NEW s, NEW t, IsList(s), IsList(t)
  PROVE  IsList(s \o t) /\ ToSet(s \o t) = ToSet(s) \cup ToSet(t)
<1> DEFINE S == ToSet(s) \cup ToSet(t)
<1>1. s \in Seq(S) /\ t \in Seq(S)
  BY DEF IsList
<1>2. s \o t \in Seq(S) /\ ToSet(s \o t) = S
  BY <1>1, ConcatSet
<1> QED
  BY <1>2 DEF IsList

\* What a sequence has in it with one more element.
LEMMA AppendList ==
  ASSUME NEW s, NEW x, IsList(s)
  PROVE  IsList(Append(s, x)) /\ ToSet(Append(s, x)) = ToSet(s) \cup {x}
<1> DEFINE S == ToSet(s) \cup {x}
<1>1. s \in Seq(S) /\ x \in S
  BY DEF IsList
<1>2. Append(s, x) \in Seq(S) /\ ToSet(Append(s, x)) = S
  BY <1>1, AppendSet
<1> QED
  BY <1>2 DEF IsList

\* The patterns a hash order yields are those of the set it has in it.
LEMMA IteratedList ==
  ASSUME NEW order, IsList(order), NEW patterns
  PROVE  /\ IsList(Iterated(patterns, order))
         /\ ToSet(Iterated(patterns, order)) = patterns \cap ToSet(order)
<1> DEFINE S == ToSet(order)
           keep == {i \in DOMAIN order : order[i] \in patterns}
<1>1. order \in Seq(S)
  BY DEF IsList
<1>2. /\ Kept(order, keep) \in Seq(S)
      /\ ToSet(Kept(order, keep)) = {order[i] : i \in DOMAIN order \cap keep}
  BY <1>1, KeptSet
<1>3. {order[i] : i \in DOMAIN order \cap keep} = patterns \cap S
  BY DEF ToSet
<1>4. IsList(Kept(order, keep))
  BY <1>2, SequenceIsList
<1> QED
  BY <1>2, <1>3, <1>4 DEF Iterated

\* Unnamed leaves the entries that have no namesake.
LEMMA UnnamedList ==
  ASSUME NEW base, NEW over, IsList(over)
  PROVE  /\ IsList(Unnamed(base, over))
         /\ ToSet(Unnamed(base, over)) = {t \in ToSet(over) : WithName(base, t.name) = {}}
<1> DEFINE S == ToSet(over)
           keep == {i \in DOMAIN over : WithName(base, over[i].name) = {}}
<1>1. over \in Seq(S)
  BY DEF IsList
<1>2. /\ Kept(over, keep) \in Seq(S)
      /\ ToSet(Kept(over, keep)) = {over[i] : i \in DOMAIN over \cap keep}
  BY <1>1, KeptSet
<1>3. {over[i] : i \in DOMAIN over \cap keep} = {t \in S : WithName(base, t.name) = {}}
  <2>1. ASSUME NEW i \in DOMAIN over \cap keep
        PROVE  over[i] \in S /\ WithName(base, over[i].name) = {}
    BY DEF ToSet
  <2>2. ASSUME NEW t \in S, WithName(base, t.name) = {}
        PROVE  \E i \in DOMAIN over \cap keep : over[i] = t
    BY <2>2 DEF ToSet
  <2> HIDE DEF keep, S
  <2> QED
    BY <2>1, <2>2
<1>4. IsList(Kept(over, keep))
  BY <1>2, SequenceIsList
<1> QED
  BY <1>2, <1>3, <1>4 DEF Unnamed

\* The compiled rules of a normalized list.
NormalizedRules(rules, layer) == {Compiled(r, "rules", layer) : r \in ToSet(rules)}

LEMMA NormalizedList ==
  ASSUME NEW rules, IsRuleList(rules), NEW layer \in DOMAIN Rank
  PROVE  /\ IsList(compile_normalized_rules(rules, layer))
         /\ ToSet(compile_normalized_rules(rules, layer)) = NormalizedRules(rules, layer)
         /\ \A r \in NormalizedRules(rules, layer) : IsCompiled(r) /\ r.layer = layer
<1> DEFINE s == compile_normalized_rules(rules, layer)
<1>1. /\ IsList(rules) /\ Len(rules) \in Nat /\ DOMAIN rules = 1 .. Len(rules)
      /\ \A r \in ToSet(rules) : r.priority \in Int /\ r.effect \in DOMAIN Severity
  BY ListPlaces DEF IsRuleList, IsList
<1>2. s = [i \in 1 .. Len(rules) |-> Compiled(rules[i], "rules", layer)]
  BY <1>1 DEF compile_normalized_rules
<1>3. IsList(s)
  <2>1. DOMAIN s = 1 .. Len(rules) /\ s = [i \in 1 .. Len(rules) |-> s[i]]
    BY <1>2
  <2>. HIDE DEF s
  <2> QED
    BY <1>1, <2>1, FunctionIsList
<1>4. ToSet(s) = NormalizedRules(rules, layer)
  BY <1>1, <1>2 DEF ToSet, NormalizedRules
<1>5. \A r \in NormalizedRules(rules, layer) : IsCompiled(r) /\ r.layer = layer
  BY <1>1 DEF NormalizedRules, Compiled, IsCompiled
<1> QED
  BY <1>3, <1>4, <1>5

\* The compiled rules of a list of identity or taxonomy rules.
LEMMA LegacyRuleList ==
  ASSUME NEW rules, IsRuleList(rules), NEW base \in Int, NEW source, NEW layer \in DOMAIN Rank
  PROVE  LET s == compile_legacy_rules(rules, base, source, layer)
         IN  IsList(s) /\ \A r \in ToSet(s) : IsCompiled(r) /\ r.layer = layer
<1> DEFINE s == compile_legacy_rules(rules, base, source, layer)
           At(i) == Compiled([rules[i] EXCEPT !.priority = base - (i - 1)], source, layer)
<1>1. /\ IsList(rules) /\ Len(rules) \in Nat /\ DOMAIN rules = 1 .. Len(rules)
      /\ \A i \in 1 .. Len(rules) : DOMAIN rules[i] = RuleFields /\ rules[i].effect \in DOMAIN Severity
  BY ListPlaces DEF IsRuleList, IsList
<1>2. s = [i \in 1 .. Len(rules) |-> At(i)]
  BY <1>1 DEF compile_legacy_rules
<1>3. ASSUME NEW i \in 1 .. Len(rules) PROVE IsCompiled(At(i)) /\ At(i).layer = layer
  <2> DEFINE r == [rules[i] EXCEPT !.priority = base - (i - 1)]
  <2>1. r.effect = rules[i].effect /\ r.priority = base - (i - 1)
    BY <1>1 DEF RuleFields
  <2>2. base - (i - 1) \in Int
    OBVIOUS
  <2>. HIDE DEF r
  <2> QED
    BY <1>1, <2>1, <2>2 DEF Compiled, IsCompiled, r
<1>. HIDE DEF At
<1>4. IsList(s)
  <2>1. DOMAIN s = 1 .. Len(rules) /\ s = [i \in 1 .. Len(rules) |-> s[i]]
    BY <1>2
  <2>. HIDE DEF s
  <2> QED
    BY <1>1, <2>1, FunctionIsList
<1>5. \A r \in ToSet(s) : IsCompiled(r) /\ r.layer = layer
  BY <1>2, <1>3 DEF ToSet
<1> QED
  BY <1>4, <1>5

\* The rules that block what a tool's or every tool's patterns describe.
GlobalBlocks(patterns, layer) ==
  {Block(p, LEGACY_GLOBAL_BLOCK_PRIORITY, {}, "global.block_patterns", layer) : p \in patterns}
ToolBlocks(tool, known, layer) ==
  { Block(p, LEGACY_TOOL_BLOCK_PRIORITY, {tool.name}, "tools.block_patterns", layer) :
      p \in tool.patterns \cap known }

\* The rule a tool's action is compiled into, if it is not allowed.
Whole(tool, layer) ==
  Compiled([ name |-> tool.name, effect |-> EffectOf[tool.action], match |-> << >>,
             tools |-> {tool.name},
             priority |-> IF tool.action = "Block" THEN LEGACY_TOOL_DENY_PRIORITY
                                                   ELSE LEGACY_TOOL_APPROVAL_PRIORITY ],
           "tools.action", layer)
ToolRules(tool, known, layer) ==
  ToolBlocks(tool, known, layer) \cup (IF tool.action = "Allow" THEN {} ELSE {Whole(tool, layer)})

\* The patterns blocked everywhere, compiled.
LEMMA GlobalBlockList ==
  ASSUME NEW patterns, NEW order, IsList(order), NEW layer
  PROVE  /\ IsList(compile_global_blocks(patterns, order, layer))
         /\ ToSet(compile_global_blocks(patterns, order, layer))
              = GlobalBlocks(patterns \cap ToSet(order), layer)
<1> DEFINE s == Iterated(patterns, order)
           B(p) == Block(p, LEGACY_GLOBAL_BLOCK_PRIORITY, {}, "global.block_patterns", layer)
           t == compile_global_blocks(patterns, order, layer)
<1>1. IsList(s) /\ ToSet(s) = patterns \cap ToSet(order)
  BY IteratedList
<1>2. t = [i \in DOMAIN s |-> B(s[i])]
  BY DEF compile_global_blocks
<1>. HIDE DEF s, B, t
<1>3. Len(s) \in Nat /\ DOMAIN s = 1 .. Len(s)
  BY <1>1, ListPlaces
<1>4. IsList(t)
  <2>1. DOMAIN t = 1 .. Len(s) /\ t = [i \in 1 .. Len(s) |-> t[i]]
    BY <1>2, <1>3
  <2> QED
    BY <1>3, <2>1, FunctionIsList
<1>5. ToSet(t) = {B(p) : p \in ToSet(s)}
  BY <1>2 DEF ToSet
<1>6. ToSet(t) = GlobalBlocks(ToSet(s), layer)
  BY <1>5 DEF GlobalBlocks, B
<1> QED
  BY <1>1, <1>4, <1>6 DEF t

\* A tool's policy, compiled.
LEMMA ToolList ==
  ASSUME NEW tool, NEW order, IsList(order), NEW layer
  PROVE  /\ IsList(compile_tool_policy(tool, order, layer))
         /\ ToSet(compile_tool_policy(tool, order, layer)) = ToolRules(tool, ToSet(order), layer)
<1> DEFINE s == Iterated(tool.patterns, order)
           B(p) == Block(p, LEGACY_TOOL_BLOCK_PRIORITY, {tool.name}, "tools.block_patterns", layer)
           t == [i \in DOMAIN s |-> B(s[i])]
           w == Whole(tool, layer)
<1>1. IsList(s) /\ ToSet(s) = tool.patterns \cap ToSet(order)
  BY IteratedList
<1>2. compile_tool_policy(tool, order, layer) = IF tool.action = "Allow" THEN t ELSE Append(t, w)
  BY DEF compile_tool_policy, Whole
<1>. HIDE DEF s, B, w
<1>3. Len(s) \in Nat /\ DOMAIN s = 1 .. Len(s)
  BY <1>1, ListPlaces
<1>4. IsList(t)
  <2>1. DOMAIN t = 1 .. Len(s) /\ t = [i \in 1 .. Len(s) |-> t[i]]
    BY <1>3
  <2>. HIDE DEF t
  <2> QED
    BY <1>3, <2>1, FunctionIsList
<1>5. ToSet(t) = {B(p) : p \in ToSet(s)}
  BY DEF ToSet
<1>6. ToSet(t) = ToolBlocks(tool, ToSet(order), layer)
  BY <1>1, <1>5 DEF ToolBlocks, B
<1>. HIDE DEF t
<1>7. IsList(Append(t, w)) /\ ToSet(Append(t, w)) = ToSet(t) \cup {w}
  BY <1>4, AppendList
<1> QED
  BY <1>2, <1>4, <1>6, <1>7 DEF ToolRules, w

\* What is granted of a document, or of a merge of documents.
IsMerged(doc) ==
  IsRuleList(doc.identity_rules) /\ IsRuleList(doc.taxonomy_rules) /\ IsToolList(doc.tools)

IdentityRules(doc, layer) ==
  ToSet(compile_legacy_rules(doc.identity_rules, LEGACY_IDENTITY_PRIORITY_BASE, "identity_rules", layer))
TaxonomyRules(doc, layer) ==
  ToSet(compile_legacy_rules(doc.taxonomy_rules, LEGACY_TAXONOMY_PRIORITY_BASE, "taxonomy_rules", layer))
RulesOfTools(doc, known, layer) == UNION {ToolRules(t, known, layer) : t \in ToSet(doc.tools)}
LegacyRules(doc, known, layer) ==
  ((IdentityRules(doc, layer) \cup TaxonomyRules(doc, layer))
     \cup GlobalBlocks(doc.patterns \cap known, layer)) \cup RulesOfTools(doc, known, layer)

\* The legacy parts of a document, compiled.
LEMMA LegacyList ==
  ASSUME NEW doc, IsMerged(doc), NEW order, IsList(order), NEW layer \in DOMAIN Rank
  PROVE  /\ IsList(append_legacy_rules(doc, order, layer))
         /\ ToSet(append_legacy_rules(doc, order, layer)) = LegacyRules(doc, ToSet(order), layer)
         /\ \A r \in LegacyRules(doc, ToSet(order), layer) : IsCompiled(r) /\ r.layer = layer
<1> DEFINE a == compile_legacy_rules(doc.identity_rules, LEGACY_IDENTITY_PRIORITY_BASE,
                                     "identity_rules", layer)
           b == compile_legacy_rules(doc.taxonomy_rules, LEGACY_TAXONOMY_PRIORITY_BASE,
                                     "taxonomy_rules", layer)
           c == compile_global_blocks(doc.patterns, order, layer)
           parts == [i \in DOMAIN doc.tools |-> compile_tool_policy(doc.tools[i], order, layer)]
           d == FlattenSeq(parts)
           S == RulesOfTools(doc, ToSet(order), layer)
<1>1. /\ IsList(a) /\ \A r \in ToSet(a) : IsCompiled(r) /\ r.layer = layer
      /\ IsList(b) /\ \A r \in ToSet(b) : IsCompiled(r) /\ r.layer = layer
  BY LegacyRuleList DEF IsMerged, LEGACY_IDENTITY_PRIORITY_BASE, LEGACY_TAXONOMY_PRIORITY_BASE
<1>2. IsList(c) /\ ToSet(c) = GlobalBlocks(doc.patterns \cap ToSet(order), layer)
  BY GlobalBlockList
<1>3. /\ Len(doc.tools) \in Nat /\ DOMAIN doc.tools = 1 .. Len(doc.tools)
      /\ ToSet(doc.tools) = {doc.tools[i] : i \in DOMAIN doc.tools}
  BY ListPlaces DEF IsMerged, IsToolList, IsList, ToSet
<1>4. \A i \in DOMAIN doc.tools :
        /\ IsList(parts[i])
        /\ ToSet(parts[i]) = ToolRules(doc.tools[i], ToSet(order), layer)
  BY ToolList
<1>5. S = UNION {ToSet(parts[i]) : i \in DOMAIN parts}
  <2> DEFINE F(i) == ToolRules(doc.tools[i], ToSet(order), layer)
  <2>1. S = UNION {F(i) : i \in DOMAIN doc.tools}
    <3>1. \A t \in ToSet(doc.tools) : \E i \in DOMAIN doc.tools : t = doc.tools[i]
      BY <1>3
    <3>2. \A i \in DOMAIN doc.tools : doc.tools[i] \in ToSet(doc.tools)
      BY <1>3
    <3>3. \A r \in S : \E i \in DOMAIN doc.tools : r \in F(i)
      BY <3>1 DEF RulesOfTools
    <3>4. \A i \in DOMAIN doc.tools : \A r \in F(i) : r \in S
      BY <3>2 DEF RulesOfTools
    <3>. HIDE DEF F, S
    <3> QED
      BY <3>3, <3>4
  <2>2. DOMAIN parts = DOMAIN doc.tools /\ \A i \in DOMAIN parts : ToSet(parts[i]) = F(i)
    BY <1>4
  <2>. HIDE DEF F, S, parts
  <2> QED
    BY <2>1, <2>2
<1>6. parts \in Seq(Seq(S))
  <2>1. \A i \in DOMAIN doc.tools : parts[i] \in Seq(S)
    <3>1. \A i \in DOMAIN doc.tools : ToSet(parts[i]) \subseteq S
      BY <1>5
    <3>. HIDE DEF parts, S
    <3> QED
      BY <1>4, <3>1 DEF IsList
  <2>2. parts = [i \in 1 .. Len(doc.tools) |-> parts[i]]
    BY <1>3
  <2> DEFINE Q == Seq(S)
  <2>3. \A i \in 1 .. Len(doc.tools) : parts[i] \in Q
    BY <1>3, <2>1
  <2>. HIDE DEF parts, S, Q
  <2>4. parts \in Seq(Q)
    BY <1>3, <2>2, <2>3
  <2> QED
    BY <2>4 DEF Q
<1>7. IsList(d) /\ ToSet(d) = S
  <2>. HIDE DEF parts, S
  <2> QED
    BY <1>5, <1>6, FlattenSeqSet, SequenceIsList
<1>8. append_legacy_rules(doc, order, layer) = ((a \o b) \o c) \o d
  BY DEF append_legacy_rules
<1>9. ToSet(a) = IdentityRules(doc, layer) /\ ToSet(b) = TaxonomyRules(doc, layer)
  BY DEF IdentityRules, TaxonomyRules
<1>10. \A r \in ToSet(c) : IsCompiled(r) /\ r.layer = layer
  BY <1>2 DEF GlobalBlocks, Block, IsCompiled, Severity, LEGACY_GLOBAL_BLOCK_PRIORITY
<1>11. ASSUME NEW r \in S PROVE IsCompiled(r) /\ r.layer = layer
  <2>1. PICK t \in ToSet(doc.tools) : r \in ToolRules(t, ToSet(order), layer)
    BY DEF RulesOfTools
  <2>2. CASE r \in ToolBlocks(t, ToSet(order), layer)
    BY <2>2 DEF ToolBlocks, Block, IsCompiled, Severity, LEGACY_TOOL_BLOCK_PRIORITY
  <2>3. CASE r = Whole(t, layer)
    <3>1. EffectOf[t.action] \in DOMAIN Severity
      BY DEF IsMerged, IsToolList, EffectOf, Severity
    <3> QED
      BY <2>3, <3>1 DEF Whole, Compiled, IsCompiled, LEGACY_TOOL_DENY_PRIORITY,
                        LEGACY_TOOL_APPROVAL_PRIORITY
  <2> QED
    BY <2>1, <2>2, <2>3 DEF ToolRules
<1>. HIDE DEF a, b, c, d, S
<1>12. IsList(a \o b) /\ ToSet(a \o b) = ToSet(a) \cup ToSet(b)
  BY <1>1, ConcatList
<1>13. IsList((a \o b) \o c) /\ ToSet((a \o b) \o c) = ToSet(a \o b) \cup ToSet(c)
  BY <1>2, <1>12, ConcatList
<1>14. /\ IsList(((a \o b) \o c) \o d)
       /\ ToSet(((a \o b) \o c) \o d) = ToSet((a \o b) \o c) \cup ToSet(d)
  BY <1>7, <1>13, ConcatList
<1>15. LegacyRules(doc, ToSet(order), layer) = ((ToSet(a) \cup ToSet(b)) \cup ToSet(c)) \cup ToSet(d)
  BY <1>2, <1>7, <1>9 DEF LegacyRules, S
<1> QED
  BY <1>1, <1>7, <1>8, <1>10, <1>11, <1>12, <1>13, <1>14, <1>15


-----------------------------------------------------------------------------
(* The policy engine: composition.                                         *)

\* A tool of the base, joined with its namesake above it.
Joined(b, over) ==
  IF WithName(over, b.name) = {} THEN b
  ELSE merge_tool(b, CHOOSE t \in WithName(over, b.name) : TRUE)

\* The stricter of two actions is one of them.
LEMMA StricterAction ==
  ASSUME NEW a \in DOMAIN EffectOf, NEW b \in DOMAIN EffectOf
  PROVE  stricter_action(a, b) \in {a, b}
BY DEF stricter_action

\* What merged tools are: the base's, each joined, and those only the other names.
LEMMA MergedTools ==
  ASSUME NEW base, NEW over, IsToolList(base), IsToolList(over)
  PROVE  /\ IsToolList(merge_tools(base, over))
         /\ ToSet(merge_tools(base, over)) =
              {Joined(b, over) : b \in ToSet(base)}
                \cup {t \in ToSet(over) : WithName(base, t.name) = {}}
<1> DEFINE s == [i \in DOMAIN base |-> Joined(base[i], over)]
           u == Unnamed(base, over)
<1>1. merge_tools(base, over) = s \o u
  BY DEF merge_tools, Joined
<1>2. /\ IsList(base) /\ IsList(over) /\ Len(base) \in Nat /\ DOMAIN base = 1 .. Len(base)
      /\ \A t \in ToSet(base) \cup ToSet(over) : t.action \in DOMAIN EffectOf
  BY ListPlaces DEF IsToolList, IsList
<1>3. IsList(s)
  <2>1. DOMAIN s = 1 .. Len(base) /\ s = [i \in 1 .. Len(base) |-> s[i]]
    BY <1>2
  <2>. HIDE DEF s
  <2> QED
    BY <1>2, <2>1, FunctionIsList
<1>4. ToSet(s) = {Joined(b, over) : b \in ToSet(base)}
  BY DEF ToSet
<1>5. IsList(u) /\ ToSet(u) = {t \in ToSet(over) : WithName(base, t.name) = {}}
  BY <1>2, UnnamedList
<1>6. \A b \in ToSet(base) : Joined(b, over).action \in DOMAIN EffectOf
  <2>. SUFFICES ASSUME NEW b \in ToSet(base) PROVE Joined(b, over).action \in DOMAIN EffectOf
    OBVIOUS
  <2>1. CASE WithName(over, b.name) = {}
    BY <1>2, <2>1 DEF Joined
  <2>2. CASE WithName(over, b.name) # {}
    <3>1. PICK t \in ToSet(over) : Joined(b, over) = merge_tool(b, t)
      BY <2>2 DEF Joined, WithName
    <3>2. stricter_action(b.action, t.action) \in DOMAIN EffectOf
      BY <1>2, StricterAction
    <3> QED
      BY <3>1, <3>2 DEF merge_tool, Tool
  <2> QED
    BY <2>1, <2>2
<1>. HIDE DEF s, u
<1>7. IsList(s \o u) /\ ToSet(s \o u) = ToSet(s) \cup ToSet(u)
  BY <1>3, <1>5, ConcatList
<1>8. \A t \in ToSet(s \o u) : t.action \in DOMAIN EffectOf
  BY <1>2, <1>4, <1>5, <1>6, <1>7
<1> QED
  BY <1>1, <1>4, <1>5, <1>7, <1>8 DEF IsToolList, IsList

\* Rules united by name are rules; united with none they are the base's.
LEMMA MergedRules ==
  ASSUME NEW base, NEW over, IsRuleList(base), IsRuleList(over)
  PROVE  IsRuleList(union_by_name(base, over)) /\ (over = << >> => union_by_name(base, over) = base)
<1> DEFINE u == Unnamed(base, over)
<1>1. IsList(base) /\ IsList(over)
  BY DEF IsRuleList, IsList
<1>2. IsList(u) /\ ToSet(u) \subseteq ToSet(over)
  BY <1>1, UnnamedList
<1>3. IsList(base \o u) /\ ToSet(base \o u) = ToSet(base) \cup ToSet(u)
  BY <1>1, <1>2, ConcatList
<1>4. IsRuleList(base \o u)
  BY <1>2, <1>3 DEF IsRuleList, IsList
<1>5. ASSUME over = << >> PROVE base \o u = base
  <2>1. ToSet(u) = {} /\ Len(u) \in Nat /\ DOMAIN u = 1 .. Len(u)
    BY <1>2, <1>5, ListPlaces DEF ToSet
  <2>2. u = << >>
    <3>1. DOMAIN u = {}
      BY <2>1 DEF ToSet
    <3> QED
      BY <1>2, <2>1, <3>1 DEF IsList
  <2> QED
    BY <1>1, <2>2 DEF IsList
<1> QED
  BY <1>4, <1>5 DEF union_by_name

\* The fields of a document.
DocumentFields ==
  { "version", "schema_version", "rules", "identity_rules", "taxonomy_rules", "patterns",
    "redact_keys", "risk_threshold", "tools" }

\* What a merge of two documents takes from them.
LEMMA MergedDocument ==
  ASSUME NEW base, DOMAIN base = DocumentFields, IsMerged(base), NEW over, IsMerged(over)
  PROVE  LET m == overlay_globals_tools_legacy(base, over)
         IN  /\ DOMAIN m = DocumentFields /\ IsMerged(m)
             /\ m.patterns = base.patterns \cup over.patterns
             /\ m.tools = merge_tools(base.tools, over.tools)
             /\ m.identity_rules = union_by_name(base.identity_rules, over.identity_rules)
             /\ m.taxonomy_rules = union_by_name(base.taxonomy_rules, over.taxonomy_rules)
<1> DEFINE m == overlay_globals_tools_legacy(base, over)
<1>1. /\ DOMAIN m = DocumentFields
      /\ m.patterns = base.patterns \cup over.patterns
      /\ m.tools = merge_tools(base.tools, over.tools)
      /\ m.identity_rules = union_by_name(base.identity_rules, over.identity_rules)
      /\ m.taxonomy_rules = union_by_name(base.taxonomy_rules, over.taxonomy_rules)
  BY DEF overlay_globals_tools_legacy, DocumentFields
<1>. HIDE DEF m
<1>2. IsMerged(m)
  BY <1>1, MergedTools, MergedRules DEF IsMerged
<1> QED
  BY <1>1, <1>2 DEF m

\* The baseline is a document.
LEMMA BaselineDocument ==
  /\ DOMAIN mandatory_policy_config = DocumentFields
  /\ IsMerged(mandatory_policy_config) /\ IsRuleList(mandatory_policy_config.rules)
<1>1. DOMAIN mandatory_policy_config = DocumentFields
  BY DEF mandatory_policy_config, DocumentFields
<1>2. /\ mandatory_policy_config.identity_rules = << >>
      /\ mandatory_policy_config.taxonomy_rules = << >>
      /\ mandatory_policy_config.rules = taxonomy_baseline_rules
  BY DEF mandatory_policy_config
<1>3. IsRuleList(<< >>)
  BY DEF IsRuleList, ToSet
<1>4. IsToolList(mandatory_policy_config.tools)
  <2>1. ASSUME NEW a, NEW b, NEW c, NEW d,
               \A t \in {a, b, c, d} : t.action \in DOMAIN EffectOf
        PROVE  IsToolList(<<a, b, c, d>>)
    <3>1. <<a, b, c, d>> \in Seq({a, b, c, d}) /\ ToSet(<<a, b, c, d>>) = {a, b, c, d}
      BY DEF ToSet
    <3> QED
      BY <2>1, <3>1 DEF IsToolList
  <2> QED
    BY <2>1 DEF mandatory_policy_config, Tool, EffectOf
<1>5. IsRuleList(taxonomy_baseline_rules)
  <2>1. ASSUME NEW a, NEW b, NEW c, NEW d, NEW e,
               \A r \in {a, b, c, d, e} :
                 DOMAIN r = RuleFields /\ r.priority \in Int /\ r.effect \in DOMAIN Severity
        PROVE  IsRuleList(<<a, b, c, d, e>>)
    <3>1. /\ <<a, b, c, d, e>> \in Seq({a, b, c, d, e})
          /\ ToSet(<<a, b, c, d, e>>) = {a, b, c, d, e}
      BY DEF ToSet
    <3> QED
      BY <2>1, <3>1 DEF IsRuleList
  <2>2. ASSUME NEW name, NEW priority \in Int, NEW effect \in DOMAIN Severity, NEW match
        PROVE  LET r == Rule(name, priority, effect, match)
               IN  DOMAIN r = RuleFields /\ r.priority \in Int /\ r.effect \in DOMAIN Severity
    BY DEF Rule, RuleFields
  <2>3. {"deny", "require_approval"} \subseteq DOMAIN Severity
    BY DEF Severity
  <2>. HIDE DEF Rule
  <2> QED
    BY <2>1, <2>2, <2>3 DEF taxonomy_baseline_rules
<1> QED
  BY <1>1, <1>2, <1>3, <1>4, <1>5 DEF IsMerged


-----------------------------------------------------------------------------
(* The policy engine: a compiled policy.                                   *)

\* The merged documents, and the rules of each layer of what is compiled from them.
Merged(o, l) == overlay_globals_and_tools(o, l)
BaselineRules == NormalizedRules(mandatory_policy_config.rules, "mandatory_baseline")
LocalRules(l) == IF l = NoDocument THEN {} ELSE NormalizedRules(l.rules, "local")
OrganizationRules(o, l, known) ==
  NormalizedRules(o.rules, "organization") \cup LegacyRules(Merged(o, l), known, "organization")

\* A merge of the documents of three layers is one.
LEMMA MergedIsMerged ==
  ASSUME NEW o \in OrgDocs, NEW l \in LocalDocs \cup {NoDocument}
  PROVE  IsMerged(Merged(o, l)) /\ DOMAIN Merged(o, NoDocument) = DocumentFields
<1> DEFINE managed == overlay_globals_tools_legacy(mandatory_policy_config, o)
<1>1. IsMerged(o)
  BY DocumentAssumption DEF IsMerged
<1>2. DOMAIN managed = DocumentFields /\ IsMerged(managed)
  BY <1>1, BaselineDocument, MergedDocument
<1>. HIDE DEF managed
<1>3. CASE l = NoDocument
  BY <1>2, <1>3 DEF Merged, overlay_globals_and_tools, managed
<1>4. CASE l # NoDocument
  <2>1. IsMerged(l)
    BY <1>4, DocumentAssumption DEF IsMerged
  <2>2. IsMerged(overlay_globals_tools_legacy(managed, l))
    BY <1>2, <2>1, MergedDocument
  <2> QED
    BY <1>2, <1>4, <2>2 DEF Merged, overlay_globals_and_tools, managed
<1> QED
  BY <1>3, <1>4

\* A compiled policy's rules, layer by layer.
LEMMA PolicyRules ==
  ASSUME NEW o \in OrgDocs, NEW l \in LocalDocs \cup {NoDocument}, NEW order \in HashOrders
  PROVE  LET p == compile_layered(o, l, order)
         IN  /\ AreCompiled(p.rules)
             /\ {r \in ToSet(p.rules) : r.layer = "mandatory_baseline"} = BaselineRules
             /\ {r \in ToSet(p.rules) : r.layer = "local"} = LocalRules(l)
             /\ {r \in ToSet(p.rules) : r.layer = "organization"}
                  = OrganizationRules(o, l, ToSet(order))
<1> DEFINE p == compile_layered(o, l, order)
           a == compile_normalized_rules(mandatory_policy_config.rules, "mandatory_baseline")
           b == compile_normalized_rules(o.rules, "organization")
           c == IF l = NoDocument THEN << >> ELSE compile_normalized_rules(l.rules, "local")
           d == append_legacy_rules(Merged(o, l), order, "organization")
           legacy == LegacyRules(Merged(o, l), ToSet(order), "organization")
           own == NormalizedRules(o.rules, "organization")
<1>1. {"mandatory_baseline", "organization", "local"} \subseteq DOMAIN Rank
  BY DEF Rank
<1>2. /\ IsList(a) /\ ToSet(a) = BaselineRules
      /\ \A r \in ToSet(a) : IsCompiled(r) /\ r.layer = "mandatory_baseline"
  BY <1>1, BaselineDocument, NormalizedList DEF BaselineRules
<1>3. IsList(b) /\ ToSet(b) = own /\ \A r \in ToSet(b) : IsCompiled(r) /\ r.layer = "organization"
  BY <1>1, DocumentAssumption, NormalizedList
<1>4. /\ IsList(c) /\ ToSet(c) = LocalRules(l)
      /\ \A r \in ToSet(c) : IsCompiled(r) /\ r.layer = "local"
  <2>1. CASE l = NoDocument
    <3>1. IsList(<< >>) /\ ToSet(<< >>) = {}
      BY DEF IsList, ToSet
    <3> QED
      BY <2>1, <3>1 DEF LocalRules
  <2>2. CASE l # NoDocument
    BY <1>1, <2>2, DocumentAssumption, NormalizedList DEF LocalRules
  <2> QED
    BY <2>1, <2>2
<1>5. IsList(d) /\ ToSet(d) = legacy /\ \A r \in ToSet(d) : IsCompiled(r) /\ r.layer = "organization"
  <2>1. IsList(order)
    BY OrderAssumption DEF IsList
  <2> QED
    BY <1>1, <2>1, MergedIsMerged, LegacyList
<1>6. p.rules = ((a \o b) \o c) \o d
  BY DEF compile_layered, LayerOf, Merged
<1>. HIDE DEF p, a, b, c, d, own, legacy
<1>7. IsList(a \o b) /\ ToSet(a \o b) = ToSet(a) \cup ToSet(b)
  BY <1>2, <1>3, ConcatList
<1>8. IsList((a \o b) \o c) /\ ToSet((a \o b) \o c) = ToSet(a \o b) \cup ToSet(c)
  BY <1>4, <1>7, ConcatList
<1>9. /\ IsList(p.rules)
      /\ ToSet(p.rules) = ((ToSet(a) \cup ToSet(b)) \cup ToSet(c)) \cup ToSet(d)
  <2>1. /\ IsList(((a \o b) \o c) \o d)
        /\ ToSet(((a \o b) \o c) \o d) = ToSet((a \o b) \o c) \cup ToSet(d)
    BY <1>5, <1>8, ConcatList
  <2> QED
    BY <1>6, <1>7, <1>8, <2>1
<1>10. AreCompiled(p.rules)
  <2>1. \A r \in ToSet(p.rules) : IsCompiled(r)
    BY <1>2, <1>3, <1>4, <1>5, <1>9
  <2> QED
    BY <1>9, <2>1, ListPlaces DEF AreCompiled
<1>11. {r \in ToSet(p.rules) : r.layer = "mandatory_baseline"} = ToSet(a)
  BY <1>2, <1>3, <1>4, <1>5, <1>9
<1>12. {r \in ToSet(p.rules) : r.layer = "local"} = ToSet(c)
  BY <1>2, <1>3, <1>4, <1>5, <1>9
<1>13. {r \in ToSet(p.rules) : r.layer = "organization"} = ToSet(b) \cup ToSet(d)
  BY <1>2, <1>3, <1>4, <1>5, <1>9
<1>14. OrganizationRules(o, l, ToSet(order)) = own \cup legacy
  BY DEF OrganizationRules, own, legacy
<1> QED
  BY <1>2, <1>3, <1>4, <1>5, <1>10, <1>11, <1>12, <1>13, <1>14 DEF p

\* What holds in every state: the policy in force is compiled from the authored
\* documents, in one of the hash orders, and the result is its answer to the last call.
PolicyIsCompiled ==
  policy # NoPolicy => \E order \in HashOrders : policy = compile_layered(org, local, order)
ResultIsAnswer ==
  /\ policy = NoPolicy => ~Evaluated
  /\ Evaluated => call \in Calls /\ result = evaluate(policy, call)
EngineInv ==
  /\ org \in OrgDocs /\ local \in LocalDocs
  /\ PolicyIsCompiled
  /\ ResultIsAnswer

\* It is inductive.
LEMMA EngineInvHolds == EngineSpec => []EngineInv
<1>1. EngineInit => EngineInv
  BY DEF EngineInit, EngineInv, PolicyIsCompiled, ResultIsAnswer, Evaluated
<1>2. EngineInv /\ [EngineNext]_engineVars => EngineInv'
  <2> SUFFICES ASSUME EngineInv, [EngineNext]_engineVars PROVE EngineInv'
    OBVIOUS
  <2>1. CASE Compile
    BY <2>1 DEF EngineInv, PolicyIsCompiled, ResultIsAnswer, Evaluated, Compile
  <2>2. ASSUME NEW c \in Calls, EvaluateCall(c) PROVE EngineInv'
    BY <2>2 DEF EngineInv, PolicyIsCompiled, ResultIsAnswer, Evaluated, EvaluateCall
  <2>3. CASE UNCHANGED engineVars
    BY <2>3 DEF EngineInv, PolicyIsCompiled, ResultIsAnswer, Evaluated, engineVars
  <2> QED
    BY <2>1, <2>2, <2>3 DEF EngineNext
<1> QED
  BY <1>1, <1>2, PTL DEF EngineSpec

\* In a state with a result, the policy's rules are those of the authored documents.
LEMMA PolicyInForce ==
  ASSUME EngineInv, Evaluated
  PROVE  /\ AreCompiled(policy.rules) /\ call \in Calls /\ result = evaluate(policy, call)
         /\ \E order \in HashOrders : policy = compile_layered(org, local, order)
BY PolicyRules DEF EngineInv, PolicyIsCompiled, ResultIsAnswer

-----------------------------------------------------------------------------
(* The policy engine: what its answers are worth.                          *)

\* There is one severest effect.
LEMMA SeverestIsMax ==
  ASSUME NEW D, \A r \in D : Severity[r.effect] \in Nat, NEW a, Severest(D, a)
  PROVE  a = Max({0} \cup {Severity[r.effect] : r \in D})
<1> DEFINE S == {0} \cup {Severity[r.effect] : r \in D}
<1>1. a \in S /\ \A x \in S : x <= a /\ x \in Nat
  BY DEF Severest
<1>. HIDE DEF S
<1>2. \A x \in S : (\A y \in S : x >= y) => x = a
  BY <1>1
<1>3. \A y \in S : a >= y
  BY <1>1
<1>4. Max(S) = a
  BY <1>1, <1>2, <1>3 DEF Max
<1> QED
  BY <1>4 DEF S

\* VerdictIsStrongest: whatever the documents, the call and the hash order, the verdict
\* is the strongest, over the layers, of the strongest effect among the layer's matches
\* of the highest priority.
THEOREM StrongestVerdict == EngineSpec => []VerdictIsStrongest
<1>1. EngineInv => VerdictIsStrongest
  <2> SUFFICES ASSUME EngineInv, Evaluated, policy_payload_readable(call)
               PROVE  VerdictIsStrongest
    BY DEF VerdictIsStrongest
  <2> DEFINE ctx == build_with_context(call)
             D == Decisive(Rules, ctx)
  <2>1. AreCompiled(policy.rules) /\ result = evaluate(policy, call)
    BY PolicyInForce
  <2>2. Severest(D, Strictness(result.verdict))
    BY <2>1, AnswerIsSeverest DEF Answer, Rules
  <2>3. \A r \in D : Severity[r.effect] \in Nat
    <3>1. \A r \in D : \E i \in DOMAIN policy.rules : r = policy.rules[i]
      BY DEF Decisive, Top, MatchedOf, Rules, ToSet
    <3>. HIDE DEF D
    <3> QED
      BY <2>1, <3>1, Scales DEF AreCompiled, IsCompiled
  <2>4. Strictness(result.verdict) = Max({0} \cup {Severity[r.effect] : r \in D})
    <3>. HIDE DEF D
    <3> QED
      BY <2>2, <2>3, SeverestIsMax
  <2>. HIDE DEF ctx
  <2> QED
    BY <2>4 DEF VerdictIsStrongest, Decisive, MatchedOf, Top, ctx
<1> QED
  BY <1>1, EngineInvHolds, PTL

\* BaselineHolds: whatever an organization and a machine author, a call gets at least
\* what the baseline's own rules ask for it.
THEOREM BaselineIsMandatory == EngineSpec => []BaselineHolds
<1>1. EngineInv => BaselineHolds
  <2> SUFFICES ASSUME EngineInv, Evaluated PROVE BaselineHolds
    BY DEF BaselineHolds
  <2> DEFINE own == compile_normalized_rules(mandatory_policy_config.rules, "mandatory_baseline")
             baseline == [policy EXCEPT !.rules = own]
             ctx == build_with_context(call)
  <2>1. /\ AreCompiled(policy.rules) /\ result = evaluate(policy, call)
        /\ "rules" \in DOMAIN policy
        /\ {r \in Rules : r.layer = "mandatory_baseline"} = BaselineRules
    <3>1. PICK order \in HashOrders : policy = compile_layered(org, local, order)
      BY PolicyInForce
    <3>2. "rules" \in DOMAIN compile_layered(org, local, order)
      BY DEF compile_layered
    <3>3. {r \in ToSet(policy.rules) : r.layer = "mandatory_baseline"} = BaselineRules
      BY <3>1, PolicyRules DEF EngineInv
    <3> QED
      BY <3>1, <3>2, <3>3, PolicyInForce DEF Rules
  <2>2. baseline.rules = own
    BY <2>1
  <2>3. AreCompiled(own) /\ ToSet(own) = BaselineRules
    <3>1. "mandatory_baseline" \in DOMAIN Rank
      BY DEF Rank
    <3>2. /\ IsList(own) /\ ToSet(own) = BaselineRules
          /\ \A r \in BaselineRules : IsCompiled(r)
      BY <3>1, BaselineDocument, NormalizedList DEF BaselineRules
    <3>. HIDE DEF own
    <3> QED
      BY <3>2, ListPlaces DEF AreCompiled
  <2>. HIDE DEF own, baseline, ctx
  <2>4. Answer(baseline, call) <= Strictness(result.verdict)
    <3>1. CASE ~policy_payload_readable(call)
      <4>1. evaluate(baseline, call) = Nothing /\ evaluate(policy, call) = Nothing
        BY <3>1 DEF evaluate
      <4> QED
        BY <2>1, <4>1 DEF Answer, Nothing, Strictness
    <3>2. CASE policy_payload_readable(call)
      <4>1. /\ Severest(Decisive(ToSet(own), ctx), Answer(baseline, call))
            /\ Severest(Decisive(Rules, ctx), Strictness(result.verdict))
        BY <2>1, <2>2, <2>3, <3>2, AnswerIsSeverest DEF Answer, Rules, ctx
      <4>2. Decisive(ToSet(own), ctx) \subseteq Decisive(Rules, ctx)
        <5> SUFFICES ASSUME NEW r \in Decisive(ToSet(own), ctx) PROVE r \in Decisive(Rules, ctx)
          OBVIOUS
        <5>1. PICK layer \in DOMAIN Rank : r \in Top(MatchedOf(ToSet(own), ctx, layer))
          BY DEF Decisive
        <5>2. layer = "mandatory_baseline"
          BY <2>1, <2>3, <5>1 DEF Top, MatchedOf
        <5>3. MatchedOf(ToSet(own), ctx, layer) = MatchedOf(Rules, ctx, layer)
          BY <2>1, <2>3, <5>2 DEF MatchedOf
        <5> QED
          BY <5>1, <5>3 DEF Decisive
      <4> QED
        BY <4>1, <4>2 DEF Severest
    <3> QED
      BY <3>1, <3>2
  <2> QED
    BY <2>4 DEF BaselineHolds, baseline, own
<1> QED
  BY <1>1, EngineInvHolds, PTL

\* Where all that matches besides the rules of M is denied, and a rule of M is kept or
\* replaced by a denial of no lower priority, the decisive rules are no less severe.
LEMMA Tightened ==
  ASSUME NEW rules, AreCompiled(rules), NEW ctx, NEW layer \in DOMAIN Rank,
         NEW M, \A r \in M : IsCompiled(r),
         \A r \in MatchedOf(ToSet(rules), ctx, layer) \ M : r.effect = "deny",
         \A r \in M : \/ r \in MatchedOf(ToSet(rules), ctx, layer)
                      \/ \E q \in MatchedOf(ToSet(rules), ctx, layer) :
                           q.effect = "deny" /\ q.priority >= r.priority,
         NEW r0 \in Top(M)
  PROVE  \E q \in Top(MatchedOf(ToSet(rules), ctx, layer)) :
           Severity[r0.effect] <= Severity[q.effect]
<1> DEFINE N == MatchedOf(ToSet(rules), ctx, layer)
<1>1. \A r \in N : IsCompiled(r)
  BY DEF MatchedOf, AreCompiled, ToSet
<1>2. r0 \in M /\ \A r \in M : r.priority <= r0.priority
  BY DEF Top
<1>3. N # {} => Top(N) # {}
  BY TopExists
<1>. HIDE DEF N
<1>4. N # {}
  BY <1>2 DEF N
<1>5. PICK q \in Top(N) : TRUE
  BY <1>3, <1>4
<1>6. q \in N /\ \A r \in N : r.priority <= q.priority
  BY <1>5 DEF Top
<1>7. /\ \A r \in M \cup N : r.priority \in Int /\ Severity[r.effect] \in 0 .. 3
      /\ Severity["deny"] = 3
  BY <1>1, Scales DEF IsCompiled, Severity
<1>8. CASE q \notin M
  <2>1. q.effect = "deny"
    BY <1>6, <1>8 DEF N
  <2> QED
    BY <1>2, <1>5, <1>7, <2>1 DEF N
<1>9. CASE q \in M /\ r0 \in N
  <2>1. r0 \in Top(N)
    BY <1>2, <1>6, <1>7, <1>9 DEF Top
  <2> QED
    BY <1>2, <1>7, <2>1 DEF N
<1>10. CASE q \in M /\ r0 \notin N
  <2>1. PICK d \in N : d.effect = "deny" /\ d.priority >= r0.priority
    BY <1>2, <1>10 DEF N
  <2>2. d \in Top(N)
    BY <1>2, <1>6, <1>7, <1>10, <2>1 DEF Top
  <2> QED
    BY <1>2, <1>7, <2>1, <2>2 DEF N
<1> QED
  BY <1>8, <1>9, <1>10

\* Where each decisive rule of one evaluation meets one of another that is as severe, the
\* other's answer is as severe.
LEMMA NoLaxer ==
  ASSUME NEW rules, AreCompiled(rules), NEW ctx, NEW D, NEW a, NEW b,
         Severest(D, a), Severest(Decisive(ToSet(rules), ctx), b),
         \A r \in D : \E q \in Decisive(ToSet(rules), ctx) : Severity[r.effect] <= Severity[q.effect]
  PROVE  a <= b
<1>1. ASSUME NEW q \in Decisive(ToSet(rules), ctx) PROVE Severity[q.effect] \in 0 .. 3
  <2>1. \E i \in DOMAIN rules : q = rules[i]
    BY DEF Decisive, Top, MatchedOf, ToSet
  <2> QED
    BY <2>1, Scales DEF AreCompiled, IsCompiled
<1>2. CASE a = 0
  BY <1>2 DEF Severest
<1>3. CASE a # 0
  <2>1. PICK q \in Decisive(ToSet(rules), ctx) : a <= Severity[q.effect]
    BY <1>3 DEF Severest
  <2> QED
    BY <1>1, <2>1 DEF Severest
<1> QED
  BY <1>2, <1>3


-----------------------------------------------------------------------------
(* The policy engine: what labels are worth.                               *)

\* A call without its agent and session labels.
Unlabelled(c) == [c EXCEPT !.agent_id = None, !.session_id = None]
LabelKeys == {<<"agent_id">>, <<"agent", "label">>, <<"session_id">>}
Anonymous == <<"agent", "anonymous">>
ReadsLabels(r) == DOMAIN r.match \cap LabelKeys # {}

\* What the labels are read into, and what they are not.
LEMMA UnlabelledContext ==
  ASSUME NEW c \in Calls
  PROVE  LET C == build_with_context(c)
             D == build_with_context(Unlabelled(c))
         IN  /\ D.call = Unlabelled(c) /\ C.call = c
             /\ D.security = C.security /\ D.paths = C.paths /\ D.operation = C.operation
             /\ D.scored = C.scored
             /\ D.call.agent_id = None /\ D.call.session_id = None
             /\ D.call.tool = c.tool /\ D.call.args = c.args /\ D.call.tier = c.tier
             /\ D.call.agent_trust = c.agent_trust /\ D.call.bound_id = c.bound_id
             /\ D.call.team = c.team /\ D.call.behavior = c.behavior
             /\ D.call.declared = c.declared
<1> DEFINE d == Unlabelled(c)
<1>1. /\ d.agent_id = None /\ d.session_id = None /\ d.tool = c.tool /\ d.args = c.args
      /\ d.tier = c.tier /\ d.agent_trust = c.agent_trust /\ d.bound_id = c.bound_id
      /\ d.team = c.team /\ d.behavior = c.behavior /\ d.declared = c.declared
      /\ d.path = c.path /\ d.content = c.content /\ d.ioc = c.ioc
  BY CallAssumption DEF Unlabelled
<1>. HIDE DEF d
<1>2. extract_paths(d) = extract_paths(c)
  BY <1>1 DEF extract_paths
<1>3. \A security : score(d, security) = score(c, security)
  BY <1>1 DEF score, factors
<1>4. /\ build_with_context(d).call = d /\ build_with_context(c).call = c
      /\ build_with_context(d).paths = build_with_context(c).paths
      /\ build_with_context(d).operation = build_with_context(c).operation
      /\ build_with_context(d).security = build_with_context(c).security
      /\ build_with_context(d).scored = build_with_context(c).scored
  BY <1>1, <1>2, <1>3 DEF build_with_context
<1> QED
  BY <1>1, <1>4 DEF d

\* A key that is no label is answered alike.
LEMMA SameField ==
  ASSUME NEW c \in Calls, NEW key, key \notin LabelKeys, key # Anonymous, NEW expected
  PROVE  LET C == build_with_context(c)
             D == build_with_context(Unlabelled(c))
         IN  /\ matches_field_equals(D, key, expected) <=> matches_field_equals(C, key, expected)
             /\ predicate_matches(D, key, expected) <=> predicate_matches(C, key, expected)
<1> DEFINE C == build_with_context(c)
           D == build_with_context(Unlabelled(c))
<1>1. /\ C.call = c /\ D.security = C.security /\ D.paths = C.paths /\ D.operation = C.operation
      /\ D.scored = C.scored /\ D.call.tool = c.tool /\ D.call.tier = c.tier
      /\ D.call.agent_trust = c.agent_trust /\ D.call.bound_id = c.bound_id
      /\ D.call.team = c.team /\ D.call.behavior = c.behavior
  BY UnlabelledContext
<1>. HIDE DEF C, D
<1>2. identity_field(D.call, key) = identity_field(c, key)
  BY <1>1 DEF identity_field, LabelKeys
<1>3. field(D, key) = field(C, key)
  BY <1>1, <1>2 DEF field, Anonymous
<1>4. matches_field_equals(D, key, expected) <=> matches_field_equals(C, key, expected)
  BY <1>1, <1>3 DEF matches_field_equals
<1> QED
  BY <1>1, <1>4 DEF predicate_matches, C, D

\* A rule that reads no label matches a call with and without them.
LEMMA SameMatch ==
  ASSUME NEW c \in Calls, NEW r, ~ReadsLabels(r), Anonymous \notin DOMAIN r.match
  PROVE  matches(r, build_with_context(Unlabelled(c))) <=> matches(r, build_with_context(c))
<1> DEFINE C == build_with_context(c)
           D == build_with_context(Unlabelled(c))
<1>1. /\ C.call = c /\ D.call.tool = c.tool /\ D.call.args = c.args
      /\ D.call.agent_trust = c.agent_trust /\ D.call.bound_id = c.bound_id
  BY UnlabelledContext
<1>2. TrustGuard(r, D.call) <=> TrustGuard(r, C.call)
  BY <1>1 DEF TrustGuard, agent_trust_can_grant_privilege
<1>3. \A key \in DOMAIN r.match :
        /\ matches_field_equals(D, key, r.match[key]) <=> matches_field_equals(C, key, r.match[key])
        /\ predicate_matches(D, key, r.match[key]) <=> predicate_matches(C, key, r.match[key])
  BY SameField DEF ReadsLabels
<1>. HIDE DEF C, D
<1> QED
  BY <1>1, <1>2, <1>3 DEF matches, C, D

\* A key no path predicate claims is compared with its field.
LEMMA PlainKey ==
  ASSUME NEW r, NEW ctx, matches(r, ctx), NEW key \in DOMAIN r.match,
         key \in LabelKeys \cup {<<"agent", "bound_id">>, <<"agent", "id">>, <<"agent", "trust">>}
  PROVE  field(ctx, key) # NoValue /\ field(ctx, key) = r.match[key]
<1>1. /\ key # <<"path_pattern">> /\ key # <<"path_prefix">> /\ key # <<"path_not_prefix">>
      /\ key # <<"behavior", "signal">> /\ key # <<"behavior", "severity_at_least">>
      /\ key # <<"behavior", "severity">> /\ key # <<"risk", "factor">> /\ key # <<"risk", "level">>
      /\ key # <<"risk", "level_at_least">> /\ key # <<"risk", "score_at_least">>
  BY DEF LabelKeys
<1>2. matches_field_equals(ctx, key, r.match[key])
  BY <1>1 DEF matches, predicate_matches
<1> QED
  BY <1>1, <1>2 DEF matches_field_equals

\* Without labels, an agent goes by the anonymous one and has no session.
LEMMA FieldsOfUnlabelled ==
  ASSUME NEW ctx, ctx.call.agent_id = None, ctx.call.session_id = None
  PROVE  /\ field(ctx, <<"agent_id">>) = <<LOCAL_ANONYMOUS_AGENT_ID>>
         /\ field(ctx, <<"agent", "label">>) = <<LOCAL_ANONYMOUS_AGENT_ID>>
         /\ field(ctx, <<"session_id">>) = NoValue
<1>1. ASSUME NEW key \in {<<"agent_id">>, <<"agent", "label">>}
      PROVE  field(ctx, key) = <<LOCAL_ANONYMOUS_AGENT_ID>>
  <2>1. identity_field(ctx.call, key) = <<LOCAL_ANONYMOUS_AGENT_ID>>
    BY DEF identity_field
  <2> QED
    BY <2>1 DEF field, NoValue
<1>2. field(ctx, <<"session_id">>) = NoValue
  <2>1. identity_field(ctx.call, <<"session_id">>) = NoValue
    BY DEF identity_field, Optional
  <2> QED
    BY <2>1 DEF field
<1> QED
  BY <1>1, <1>2

\* A rule that matches a call without labels, and is not for such calls, reads none.
LEMMA UnlabelledMatch ==
  ASSUME NEW c \in Calls, NEW r, ~SinglesOutUnlabelled(r),
         matches(r, build_with_context(Unlabelled(c)))
  PROVE  ~ReadsLabels(r)
<1> DEFINE D == build_with_context(Unlabelled(c))
<1> SUFFICES ASSUME NEW key \in DOMAIN r.match, key \in LabelKeys PROVE FALSE
  BY DEF ReadsLabels
<1>1. D.call.agent_id = None /\ D.call.session_id = None
  BY UnlabelledContext
<1>. HIDE DEF D
<1>2. field(D, key) # NoValue /\ field(D, key) = r.match[key]
  BY PlainKey DEF D
<1> QED
  BY <1>1, <1>2, FieldsOfUnlabelled DEF LabelKeys, SinglesOutUnlabelled

\* A rule that allows or redacts a call nobody vouches for reads no label.
LEMMA UnvouchedMatch ==
  ASSUME NEW c \in Calls, ~agent_trust_can_grant_privilege(c), NEW r,
         matches(r, build_with_context(c)), r.effect \in {"allow", "redact"}
  PROVE  ~ReadsLabels(r)
<1> DEFINE C == build_with_context(c)
<1>1. C.call = c
  BY DEF build_with_context
<1>. HIDE DEF C
<1>2. c.bound_id = None /\ c.agent_trust \notin {"bound", "authenticated"}
  BY DEF agent_trust_can_grant_privilege
<1>3. ASSUME NEW key \in DOMAIN r.match, key \in {<<"agent", "bound_id">>, <<"agent", "id">>}
      PROVE  FALSE
  <2>1. identity_field(c, key) = NoValue
    BY <1>2, <1>3 DEF identity_field, Optional
  <2>2. field(C, key) = NoValue
    BY <1>1, <1>3, <2>1 DEF field
  <2> QED
    BY <1>3, <2>2, PlainKey DEF C
<1>4. ASSUME <<"agent", "trust">> \in DOMAIN r.match
      PROVE  r.match[<<"agent", "trust">>] = <<c.agent_trust>>
  <2>1. identity_field(c, <<"agent", "trust">>) = <<c.agent_trust>>
    BY DEF identity_field
  <2>2. field(C, <<"agent", "trust">>) = <<c.agent_trust>>
    BY <1>1, <2>1 DEF field, NoValue
  <2> QED
    BY <1>4, <2>2, PlainKey DEF C
<1>5. ~requires_bound_agent_predicate(r)
  BY <1>2, <1>3, <1>4 DEF requires_bound_agent_predicate
<1>6. ~uses_privilege_sensitive_identity(r)
  BY <1>1, <1>5 DEF matches, TrustGuard, C
<1> QED
  BY <1>6 DEF uses_privilege_sensitive_identity, ReadsLabels, LabelKeys


\* LabelsGrantNothing: a call nobody vouches for that passes would pass without its
\* labels too, unless the policy singles out those that give none.
THEOREM SelfAssertedLabelsGrantNothing == EngineSpec => []LabelsGrantNothing
<1>1. EngineInv => LabelsGrantNothing
  <2> SUFFICES ASSUME EngineInv, Evaluated, ~agent_trust_can_grant_privilege(call),
                      \A r \in Rules : ~SinglesOutUnlabelled(r),
                      result.verdict \in {"Allow", "Redact"}
               PROVE  evaluate(policy, Unlabelled(call)).verdict \in {"Allow", "Redact"}
    BY DEF LabelsGrantNothing, Unlabelled
  <2> DEFINE C == build_with_context(call)
             D == build_with_context(Unlabelled(call))
  <2>1. AreCompiled(policy.rules) /\ call \in Calls /\ result = evaluate(policy, call)
    BY PolicyInForce
  <2>2. policy_payload_readable(call)
    BY <2>1 DEF evaluate, Nothing
  <2>3. policy_payload_readable(Unlabelled(call))
    BY <2>1, <2>2, UnlabelledContext DEF policy_payload_readable, build_with_context
  <2>4. /\ Severest(Decisive(Rules, C), Answer(policy, call))
        /\ Severest(Decisive(Rules, D), Answer(policy, Unlabelled(call)))
        /\ evaluate(policy, Unlabelled(call)).verdict \in {"Allow", "Redact", "Confirm", "Block"}
    BY <2>1, <2>2, <2>3, AnswerIsSeverest DEF Rules
  <2>5. Answer(policy, call) \in {0, 1}
    BY <2>1 DEF Answer, Strictness
  <2>6. \A r \in Rules : IsCompiled(r)
    BY <2>1 DEF AreCompiled, Rules, ToSet
  <2>7. ASSUME NEW r \in Rules, Severity[r.effect] <= 1 PROVE r.effect \in {"allow", "redact"}
    BY <2>6, <2>7 DEF IsCompiled, Severity
  <2>8. ASSUME NEW r \in Rules PROVE ~SinglesOutUnlabelled(r) /\ Anonymous \notin DOMAIN r.match
    BY DEF SinglesOutUnlabelled, Anonymous
  <2>9. ASSUME NEW layer \in DOMAIN Rank, NEW r \in Top(MatchedOf(Rules, D, layer))
        PROVE  r \in Top(MatchedOf(Rules, C, layer))
    <3> DEFINE M == MatchedOf(Rules, C, layer)
               N == MatchedOf(Rules, D, layer)
    <3>1. r \in N /\ r \in Rules /\ r.layer = layer /\ matches(r, D) /\ \A q \in N : q.priority <= r.priority
      BY <2>9 DEF Top, MatchedOf
    <3>2. r \in M
      <4>1. ~ReadsLabels(r)
        BY <2>1, <2>8, <3>1, UnlabelledMatch
      <4>2. matches(r, C)
        BY <2>1, <2>8, <3>1, <4>1, SameMatch
      <4> QED
        BY <3>1, <4>2 DEF MatchedOf
    <3>3. PICK t \in Top(M) : TRUE
      BY <2>1, <3>2, TopExists DEF Rules
    <3>4. t \in Rules /\ t.layer = layer /\ matches(t, C) /\ \A q \in M : q.priority <= t.priority
      BY <3>3 DEF Top, MatchedOf
    <3>5. t \in N
      <4>1. t \in Decisive(Rules, C)
        BY <3>3 DEF Decisive
      <4>2. Severity[t.effect] <= 1
        <5>1. Severity[t.effect] <= Answer(policy, call)
          BY <2>4, <4>1 DEF Severest
        <5>2. Severity[t.effect] \in 0 .. 3
          BY <2>6, <3>4, Scales DEF IsCompiled
        <5> QED
          BY <2>5, <5>1, <5>2
      <4>3. ~ReadsLabels(t)
        BY <2>1, <2>7, <3>4, <4>2, UnvouchedMatch
      <4>4. matches(t, D)
        BY <2>1, <2>8, <3>4, <4>3, SameMatch
      <4> QED
        BY <3>4, <4>4 DEF MatchedOf
    <3>6. \A q \in M : q.priority \in Int
      BY <2>6 DEF MatchedOf, IsCompiled
    <3>. HIDE DEF M, N
    <3>7. r \in Top(M)
      <4>1. t.priority <= r.priority /\ t.priority \in Int /\ r.priority \in Int
        BY <2>6, <3>1, <3>4, <3>5 DEF IsCompiled
      <4> QED
        BY <3>2, <3>4, <3>6, <4>1 DEF Top
    <3> QED
      BY <3>7 DEF M
  <2>10. Decisive(Rules, D) \subseteq Decisive(Rules, C)
    BY <2>9 DEF Decisive
  <2>. HIDE DEF C, D
  <2>11. Answer(policy, Unlabelled(call)) <= Answer(policy, call)
    BY <2>4, <2>5, <2>10 DEF Severest
  <2>12. Answer(policy, Unlabelled(call)) \in {0, 1}
    BY <2>4, <2>5, <2>11 DEF Severest
  <2> QED
    BY <2>4, <2>12 DEF Answer, Strictness
<1> QED
  BY <1>1, EngineInvHolds, PTL

-----------------------------------------------------------------------------
(* The policy engine: what a local document can do.                        *)

\* A rule that denies matches what a rule of the same tools that reads nothing matches.
LEMMA DenialOfTool ==
  ASSUME NEW t, NEW u, t.name = u.name, u.action = "Block", NEW ctx, NEW layer,
         matches(Whole(t, layer), ctx)
  PROVE  matches(Whole(u, layer), ctx) /\ Whole(u, layer).effect = "deny"
<1>1. /\ Whole(u, layer).effect = "deny" /\ Whole(u, layer).match = << >>
      /\ Whole(u, layer).tools = {u.name} /\ Whole(u, layer).pattern = None
      /\ Whole(t, layer).tools = {t.name}
  BY DEF Whole, Compiled, EffectOf
<1>2. ctx.call.tool = u.name
  BY <1>1 DEF matches
<1>3. DOMAIN << >> = {}
  OBVIOUS
<1>. HIDE DEF Whole
<1> QED
  BY <1>1, <1>2, <1>3 DEF matches, TrustGuard

\* What a local document that refuses does to a tool: it keeps its rules and adds denials,
\* or puts a denial of no lower priority for the rule of its action.
LEMMA JoinedTool ==
  ASSUME NEW b, b.action \in DOMAIN EffectOf, NEW over,
         \A t \in ToSet(over) : t.action \in {"Allow", "Block"}, NEW known, NEW layer
  PROVE  LET j == Joined(b, over)
         IN  /\ j.name = b.name
             /\ ToolBlocks(b, known, layer) \subseteq ToolBlocks(j, known, layer)
             /\ \/ j.action = b.action /\ Whole(j, layer) = Whole(b, layer)
                \/ j.action = "Block" /\ b.action # "Block"
<1> DEFINE j == Joined(b, over)
<1>1. CASE WithName(over, b.name) = {}
  BY <1>1 DEF Joined
<1>2. CASE WithName(over, b.name) # {}
  <2>1. PICK t \in ToSet(over) : j = merge_tool(b, t)
    BY <1>2 DEF Joined, WithName
  <2>2. /\ j.name = b.name /\ j.patterns = b.patterns \cup t.patterns
        /\ j.action = stricter_action(b.action, t.action)
    BY <2>1 DEF merge_tool, Tool
  <2>. HIDE DEF j
  <2>3. ToolBlocks(b, known, layer) \subseteq ToolBlocks(j, known, layer)
    BY <2>2 DEF ToolBlocks
  <2>4. j.action = b.action \/ (j.action = "Block" /\ b.action # "Block")
    <3>1. CASE t.action = "Allow"
      BY <2>2, <3>1 DEF stricter_action, EffectOf, Severity
    <3>2. CASE t.action = "Block"
      BY <2>2, <3>2 DEF stricter_action
    <3> QED
      BY <3>1, <3>2
  <2>5. j.action = b.action => Whole(j, layer) = Whole(b, layer)
    BY <2>2 DEF Whole
  <2> QED
    BY <2>2, <2>3, <2>4, <2>5 DEF j
<1> QED
  BY <1>1, <1>2

\* A document merged below a local one that refuses: its legacy rules and its tools.
LEMMA MergedWithLocal ==
  ASSUME NEW o \in OrgDocs, NEW l \in LocalDocs, l # NoDocument, LegacyPartsRefuse(l)
  PROVE  /\ IsMerged(Merged(o, NoDocument)) /\ IsMerged(Merged(o, l))
         /\ Merged(o, l).identity_rules = Merged(o, NoDocument).identity_rules
         /\ Merged(o, l).taxonomy_rules = Merged(o, NoDocument).taxonomy_rules
         /\ Merged(o, NoDocument).patterns \subseteq Merged(o, l).patterns
         /\ ToSet(Merged(o, l).tools) =
              {Joined(b, l.tools) : b \in ToSet(Merged(o, NoDocument).tools)}
                \cup {t \in ToSet(l.tools) : WithName(Merged(o, NoDocument).tools, t.name) = {}}
         /\ \A t \in ToSet(l.tools) : t.action \in {"Allow", "Block"}
         /\ \A b \in ToSet(Merged(o, NoDocument).tools) : b.action \in DOMAIN EffectOf
<1> DEFINE m == Merged(o, NoDocument)
           n == Merged(o, l)
<1>1. IsMerged(m) /\ IsMerged(n) /\ DOMAIN m = DocumentFields
  BY MergedIsMerged
<1>2. IsMerged(l) /\ l.identity_rules = << >> /\ l.taxonomy_rules = << >>
  BY DocumentAssumption DEF IsMerged, LegacyPartsRefuse
<1>3. n = overlay_globals_tools_legacy(m, l)
  BY DEF Merged, overlay_globals_and_tools
<1>. HIDE DEF m, n
<1>4. /\ n.patterns = m.patterns \cup l.patterns /\ n.tools = merge_tools(m.tools, l.tools)
      /\ n.identity_rules = union_by_name(m.identity_rules, l.identity_rules)
      /\ n.taxonomy_rules = union_by_name(m.taxonomy_rules, l.taxonomy_rules)
  BY <1>1, <1>2, <1>3, MergedDocument
<1>5. n.identity_rules = m.identity_rules /\ n.taxonomy_rules = m.taxonomy_rules
  BY <1>1, <1>2, <1>4, MergedRules DEF IsMerged
<1>6. ToSet(n.tools) = {Joined(b, l.tools) : b \in ToSet(m.tools)}
                         \cup {t \in ToSet(l.tools) : WithName(m.tools, t.name) = {}}
  BY <1>1, <1>2, <1>4, MergedTools DEF IsMerged
<1>7. \A t \in ToSet(l.tools) : t.action \in {"Allow", "Block"}
  BY DEF LegacyPartsRefuse, ToSet
<1>8. \A b \in ToSet(m.tools) : b.action \in DOMAIN EffectOf
  BY <1>1 DEF IsMerged, IsToolList
<1> QED
  BY <1>1, <1>4, <1>5, <1>6, <1>7, <1>8 DEF m, n

\* With a local document that refuses, the organization's layer has denials more, and for
\* a rule it loses a denial of no lower priority of what that rule matched.
LEMMA LocalAddsDenials ==
  ASSUME NEW o \in OrgDocs, NEW l \in LocalDocs, l # NoDocument, LegacyPartsRefuse(l), NEW known
  PROVE  LET before == OrganizationRules(o, NoDocument, known)
             after == OrganizationRules(o, l, known)
         IN  /\ \A r \in after \ before : r.effect = "deny"
             /\ \A r \in before \ after : \E q \in after :
                  /\ q.effect = "deny" /\ q.priority >= r.priority
                  /\ \A ctx : matches(r, ctx) => matches(q, ctx)
<1> DEFINE layer == "organization"
           m == Merged(o, NoDocument)
           n == Merged(o, l)
           own == NormalizedRules(o.rules, layer)
           before == OrganizationRules(o, NoDocument, known)
           after == OrganizationRules(o, l, known)
<1>1. /\ n.identity_rules = m.identity_rules /\ n.taxonomy_rules = m.taxonomy_rules
      /\ m.patterns \subseteq n.patterns
      /\ ToSet(n.tools) = {Joined(b, l.tools) : b \in ToSet(m.tools)}
                            \cup {t \in ToSet(l.tools) : WithName(m.tools, t.name) = {}}
      /\ \A t \in ToSet(l.tools) : t.action \in {"Allow", "Block"}
      /\ \A b \in ToSet(m.tools) : b.action \in DOMAIN EffectOf
  BY MergedWithLocal
<1>2. /\ before = own \cup LegacyRules(m, known, layer)
      /\ after = own \cup LegacyRules(n, known, layer)
  BY DEF OrganizationRules
<1>. HIDE DEF m, n, own, before, after, layer
<1>3. /\ IdentityRules(n, layer) = IdentityRules(m, layer)
      /\ TaxonomyRules(n, layer) = TaxonomyRules(m, layer)
  BY <1>1 DEF IdentityRules, TaxonomyRules
<1>4. GlobalBlocks(m.patterns \cap known, layer) \subseteq GlobalBlocks(n.patterns \cap known, layer)
  BY <1>1 DEF GlobalBlocks
<1>5. \A b \in ToSet(m.tools) : \A r \in ToolRules(b, known, layer) : r \in before
  BY <1>2 DEF LegacyRules, RulesOfTools
<1>6. \A t \in ToSet(n.tools) : \A r \in ToolRules(t, known, layer) : r \in after
  BY <1>2 DEF LegacyRules, RulesOfTools
<1>7. \A b \in ToSet(m.tools) :
        LET j == Joined(b, l.tools)
        IN  /\ j \in ToSet(n.tools) /\ j.name = b.name
            /\ ToolBlocks(b, known, layer) \subseteq ToolBlocks(j, known, layer)
            /\ \/ j.action = b.action /\ Whole(j, layer) = Whole(b, layer)
               \/ j.action = "Block" /\ b.action # "Block"
  BY <1>1, JoinedTool
<1>8. ASSUME NEW t, t.action = "Block" PROVE Whole(t, layer).effect = "deny"
  BY <1>8 DEF Whole, Compiled, EffectOf
<1>9. ASSUME NEW t, NEW r \in ToolBlocks(t, known, layer) PROVE r.effect = "deny"
  BY DEF ToolBlocks, Block
<1>10. ASSUME NEW r \in after \ before PROVE r.effect = "deny"
  <2>1. CASE r \in GlobalBlocks(n.patterns \cap known, layer)
    BY <2>1 DEF GlobalBlocks, Block
  <2>2. ASSUME NEW t \in ToSet(n.tools), r \in ToolRules(t, known, layer) PROVE r.effect = "deny"
    <3>1. CASE r \in ToolBlocks(t, known, layer)
      BY <1>9, <3>1
    <3>2. CASE t.action # "Allow" /\ r = Whole(t, layer)
      <4>1. CASE t.action = "Block"
        BY <1>8, <3>2, <4>1
      <4>2. CASE t.action # "Block"
        <5>1. PICK b \in ToSet(m.tools) : t = Joined(b, l.tools)
          BY <1>1, <3>2, <4>2
        <5>2. b.action # "Allow" /\ r = Whole(b, layer)
          BY <1>7, <3>2, <4>2, <5>1
        <5>3. r \in ToolRules(b, known, layer)
          BY <5>2 DEF ToolRules
        <5> QED
          BY <1>5, <1>10, <5>3
      <4> QED
        BY <4>1, <4>2
    <3> QED
      BY <2>2, <3>1, <3>2 DEF ToolRules
  <2>3. \/ r \in GlobalBlocks(n.patterns \cap known, layer)
        \/ \E t \in ToSet(n.tools) : r \in ToolRules(t, known, layer)
    BY <1>2, <1>3, <1>10 DEF LegacyRules, RulesOfTools
  <2> QED
    BY <2>1, <2>2, <2>3
<1>11. ASSUME NEW r \in before \ after
       PROVE  \E q \in after : /\ q.effect = "deny" /\ q.priority >= r.priority
                               /\ \A ctx : matches(r, ctx) => matches(q, ctx)
  <2>1. PICK b \in ToSet(m.tools) : r \in ToolRules(b, known, layer)
    BY <1>2, <1>3, <1>4, <1>11 DEF LegacyRules, RulesOfTools
  <2> DEFINE j == Joined(b, l.tools)
  <2>2. /\ j \in ToSet(n.tools) /\ j.name = b.name
        /\ ToolBlocks(b, known, layer) \subseteq ToolBlocks(j, known, layer)
        /\ \/ j.action = b.action /\ Whole(j, layer) = Whole(b, layer)
           \/ j.action = "Block" /\ b.action # "Block"
    BY <1>7
  <2>. HIDE DEF j
  <2>3. r \notin ToolRules(j, known, layer)
    BY <1>6, <1>11, <2>2
  <2>4. b.action # "Allow" /\ r = Whole(b, layer) /\ j.action = "Block" /\ b.action # "Block"
    BY <2>1, <2>2, <2>3 DEF ToolRules
  <2>5. Whole(j, layer) \in after
    BY <1>6, <2>2, <2>4 DEF ToolRules
  <2>6. Whole(j, layer).effect = "deny" /\ \A ctx : matches(r, ctx) => matches(Whole(j, layer), ctx)
    BY <1>8, <2>2, <2>4, DenialOfTool
  <2>7. Whole(j, layer).priority = 4000 /\ r.priority = 3500
    BY <2>4 DEF Whole, Compiled, LEGACY_TOOL_DENY_PRIORITY, LEGACY_TOOL_APPROVAL_PRIORITY
  <2> QED
    BY <2>5, <2>6, <2>7
<1> QED
  BY <1>10, <1>11 DEF before, after

\* LocalRulesOnlyTighten: the rules a local document adds in a layer of its own, the
\* patterns it blocks and the tools it blocks never let a call pass more easily.
THEOREM LocalRulesTighten == EngineSpec => []LocalRulesOnlyTighten
<1>1. EngineInv => LocalRulesOnlyTighten
  <2> SUFFICES ASSUME EngineInv, Evaluated, local # NoDocument, LegacyPartsRefuse(local)
               PROVE  Answer(WithoutLocal, call) <= Strictness(result.verdict)
    BY DEF LocalRulesOnlyTighten
  <2> DEFINE ctx == build_with_context(call)
  <2>1. PICK order \in HashOrders : policy = compile_layered(org, local, order)
    BY PolicyInForce
  <2>2. AnyOrder \in HashOrders /\ ToSet(AnyOrder) = ToSet(order)
    BY OrderAssumption DEF AnyOrder
  <2>3. PICK p : p = WithoutLocal
    OBVIOUS
  <2>4. PICK known : known = ToSet(order)
    OBVIOUS
  <2>5. /\ AreCompiled(policy.rules)
        /\ {r \in Rules : r.layer = "mandatory_baseline"} = BaselineRules
        /\ {r \in Rules : r.layer = "organization"} = OrganizationRules(org, local, known)
    BY <2>1, <2>4, PolicyRules DEF EngineInv, Rules
  <2>6. /\ AreCompiled(p.rules)
        /\ {r \in ToSet(p.rules) : r.layer = "mandatory_baseline"} = BaselineRules
        /\ {r \in ToSet(p.rules) : r.layer = "local"} = {}
        /\ {r \in ToSet(p.rules) : r.layer = "organization"} = OrganizationRules(org, NoDocument, known)
    BY <2>2, <2>3, <2>4, PolicyRules DEF EngineInv, WithoutLocal, LocalRules
  <2>7. result = evaluate(policy, call)
    BY PolicyInForce
  <2>. HIDE DEF ctx
  <2>8. CASE ~policy_payload_readable(call)
    <3>1. evaluate(p, call) = Nothing /\ evaluate(policy, call) = Nothing
      BY <2>8 DEF evaluate
    <3> QED
      BY <2>3, <2>7, <3>1 DEF Answer, Nothing, Strictness
  <2>9. CASE policy_payload_readable(call)
    <3>1. /\ Severest(Decisive(ToSet(p.rules), ctx), Answer(p, call))
          /\ Severest(Decisive(Rules, ctx), Strictness(result.verdict))
      BY <2>5, <2>6, <2>7, <2>9, AnswerIsSeverest DEF Answer, Rules, ctx
    <3>2. ASSUME NEW r \in Decisive(ToSet(p.rules), ctx)
          PROVE  \E q \in Decisive(Rules, ctx) : Severity[r.effect] <= Severity[q.effect]
      <4>1. PICK layer \in DOMAIN Rank : r \in Top(MatchedOf(ToSet(p.rules), ctx, layer))
        BY <3>2 DEF Decisive
      <4> DEFINE M == MatchedOf(ToSet(p.rules), ctx, layer)
                 N == MatchedOf(ToSet(policy.rules), ctx, layer)
      <4>2. layer \in {"mandatory_baseline", "organization"}
        <5>1. layer # "local"
          BY <2>6, <4>1 DEF Top, MatchedOf
        <5> QED
          BY <5>1 DEF Rank
      <4>3. CASE layer = "mandatory_baseline"
        <5>1. M = N
          BY <2>5, <2>6, <4>3 DEF MatchedOf, Rules
        <5>2. Severity[r.effect] \in 0 .. 3
          BY <2>6, <4>1, Scales DEF Top, MatchedOf, AreCompiled, IsCompiled, ToSet
        <5>3. r \in Decisive(Rules, ctx)
          BY <4>1, <5>1 DEF Decisive, Rules
        <5> QED
          BY <5>2, <5>3
      <4>4. CASE layer = "organization"
        <5>1. /\ \A s \in M : s \in OrganizationRules(org, NoDocument, known) /\ matches(s, ctx)
              /\ \A s \in OrganizationRules(org, NoDocument, known) : matches(s, ctx) => s \in M
          BY <2>6, <4>4 DEF MatchedOf
        <5>2. /\ \A s \in N : s \in OrganizationRules(org, local, known) /\ matches(s, ctx)
              /\ \A s \in OrganizationRules(org, local, known) : matches(s, ctx) => s \in N
          BY <2>5, <4>4 DEF MatchedOf, Rules
        <5>3. /\ \A s \in OrganizationRules(org, local, known) \ OrganizationRules(org, NoDocument, known) :
                   s.effect = "deny"
              /\ \A s \in OrganizationRules(org, NoDocument, known) \ OrganizationRules(org, local, known) :
                   \E q \in OrganizationRules(org, local, known) :
                     /\ q.effect = "deny" /\ q.priority >= s.priority
                     /\ \A c : matches(s, c) => matches(q, c)
          BY LocalAddsDenials DEF EngineInv
        <5>4. \A s \in M : IsCompiled(s)
          BY <2>6 DEF MatchedOf, AreCompiled, ToSet
        <5>. HIDE DEF M, N
        <5>5. \A s \in N \ M : s.effect = "deny"
          BY <5>1, <5>2, <5>3
        <5>6. \A s \in M : s \in N \/ \E q \in N : q.effect = "deny" /\ q.priority >= s.priority
          BY <5>1, <5>2, <5>3
        <5>7. \E q \in Top(N) : Severity[r.effect] <= Severity[q.effect]
          BY <2>5, <4>1, <5>4, <5>5, <5>6, Tightened DEF M, N
        <5> QED
          BY <5>7 DEF Decisive, Rules, N
      <4> QED
        BY <4>2, <4>3, <4>4
    <3> QED
      BY <2>3, <2>5, <3>1, <3>2, NoLaxer DEF Rules
  <2> QED
    BY <2>8, <2>9
<1> QED
  BY <1>1, EngineInvHolds, PTL


-----------------------------------------------------------------------------
(* The policy engine: what a spelling is worth.                            *)

\* A call with its path spelled as it normalizes, and the condition under which that is
\* one spelling: normalizing it again changes nothing.  A path escaped more often than it
\* is decoded (MAX_PERCENT_DECODE_PASSES) does not meet it.
Respelled(c) == [c EXCEPT !.path = normalize_path_for_policy(@)]
NormalizationSettles ==
  \A c \in Calls :
    normalize_path_for_policy(normalize_path_for_policy(c.path)) = normalize_path_for_policy(c.path)

\* Only the paths of a call depend on its spelling, and the normal form is among them.
LEMMA RespelledContext ==
  ASSUME NormalizationSettles, NEW c \in Calls, c.path # << >>
  PROVE  LET C == build_with_context(c)
             D == build_with_context(Respelled(c))
         IN  /\ D.call = Respelled(c) /\ C.call = c
             /\ D.security = C.security /\ D.operation = C.operation /\ D.scored = C.scored
             /\ D.call.agent_id = c.agent_id /\ D.call.session_id = c.session_id
             /\ D.call.tool = c.tool /\ D.call.args = c.args /\ D.call.tier = c.tier
             /\ D.call.agent_trust = c.agent_trust /\ D.call.bound_id = c.bound_id
             /\ D.call.team = c.team /\ D.call.behavior = c.behavior
             /\ D.call.declared = c.declared
             /\ \A i \in DOMAIN D.paths : \E j \in DOMAIN C.paths : D.paths[i] = C.paths[j]
<1> DEFINE d == Respelled(c)
<1>1. /\ d.agent_id = c.agent_id /\ d.session_id = c.session_id /\ d.tool = c.tool
      /\ d.args = c.args /\ d.tier = c.tier /\ d.agent_trust = c.agent_trust
      /\ d.bound_id = c.bound_id /\ d.team = c.team /\ d.behavior = c.behavior
      /\ d.declared = c.declared /\ d.content = c.content /\ d.ioc = c.ioc
      /\ d.path = normalize_path_for_policy(c.path)
  BY CallAssumption DEF Respelled
<1>2. normalize_path_for_policy(d.path) = d.path
  BY <1>1 DEF NormalizationSettles
<1>. HIDE DEF d
<1>3. \A i \in DOMAIN extract_paths(d) : \E j \in DOMAIN extract_paths(c) :
        extract_paths(d)[i] = extract_paths(c)[j]
  <2>1. extract_paths(d) \in {<< >>, <<d.path>>}
    BY <1>2 DEF extract_paths
  <2>2. extract_paths(c) = <<d.path>> \/ extract_paths(c) = <<c.path, d.path>>
    BY <1>1 DEF extract_paths
  <2>3. \E j \in DOMAIN extract_paths(c) : d.path = extract_paths(c)[j]
    BY <2>2
  <2> QED
    BY <2>1, <2>3
<1>4. \A security : score(d, security) = score(c, security)
  BY <1>1 DEF score, factors
<1>5. /\ build_with_context(d).call = d /\ build_with_context(c).call = c
      /\ build_with_context(d).paths = extract_paths(d)
      /\ build_with_context(c).paths = extract_paths(c)
      /\ build_with_context(d).operation = build_with_context(c).operation
      /\ build_with_context(d).security = build_with_context(c).security
      /\ build_with_context(d).scored = build_with_context(c).scored
  BY <1>1, <1>4 DEF build_with_context
<1> QED
  BY <1>1, <1>3, <1>5 DEF d

\* A key that is no path is answered alike.
PathKeys == {<<"path">>, <<"path_not_prefix">>, <<"path_prefix">>, <<"path_pattern">>}

LEMMA SameFieldRespelled ==
  ASSUME NormalizationSettles, NEW c \in Calls, c.path # << >>, NEW key, key # <<"path">>,
         NEW expected
  PROVE  LET C == build_with_context(c)
             D == build_with_context(Respelled(c))
         IN  matches_field_equals(D, key, expected) <=> matches_field_equals(C, key, expected)
<1> DEFINE C == build_with_context(c)
           D == build_with_context(Respelled(c))
<1>1. /\ C.call = c /\ D.security = C.security /\ D.operation = C.operation
      /\ D.scored = C.scored /\ D.call.tool = c.tool /\ D.call.tier = c.tier
      /\ D.call.agent_id = c.agent_id /\ D.call.session_id = c.session_id
      /\ D.call.agent_trust = c.agent_trust /\ D.call.bound_id = c.bound_id
      /\ D.call.team = c.team /\ D.call.behavior = c.behavior
  BY RespelledContext
<1>. HIDE DEF C, D
<1>2. identity_field(D.call, key) = identity_field(c, key)
  BY <1>1 DEF identity_field
<1>3. field(D, key) = field(C, key)
  BY <1>1, <1>2 DEF field
<1> QED
  BY <1>1, <1>3 DEF matches_field_equals, C, D

\* What a rule finds in the normal form it finds in any spelling; a rule that reads no
\* path does not tell them apart.
LEMMA RespelledMatch ==
  ASSUME NormalizationSettles, NEW c \in Calls, c.path # << >>, NEW r,
         DOMAIN r.match \cap {<<"path">>, <<"path_not_prefix">>} = {}
  PROVE  LET C == build_with_context(c)
             D == build_with_context(Respelled(c))
         IN  /\ matches(r, D) => matches(r, C)
             /\ ~ReadsPath(r) /\ matches(r, C) => matches(r, D)
<1> DEFINE C == build_with_context(c)
           D == build_with_context(Respelled(c))
<1>1. /\ C.call = c /\ D.call.tool = c.tool /\ D.call.args = c.args
      /\ D.call.agent_trust = c.agent_trust /\ D.call.bound_id = c.bound_id
      /\ \A i \in DOMAIN D.paths : \E j \in DOMAIN C.paths : D.paths[i] = C.paths[j]
  BY RespelledContext
<1>2. TrustGuard(r, D.call) <=> TrustGuard(r, C.call)
  BY <1>1 DEF TrustGuard, agent_trust_can_grant_privilege
<1>3. \A key \in DOMAIN r.match :
        matches_field_equals(D, key, r.match[key]) <=> matches_field_equals(C, key, r.match[key])
  BY SameFieldRespelled
<1>. HIDE DEF C, D
<1>4. /\ \A regex : matches_path_regex(D.paths, regex) => matches_path_regex(C.paths, regex)
      /\ \A prefix : matches_path_prefix(D.paths, prefix) => matches_path_prefix(C.paths, prefix)
  BY <1>1 DEF matches_path_regex, matches_path_prefix
<1>5. \A key \in DOMAIN r.match :
        predicate_matches(D, key, r.match[key]) => predicate_matches(C, key, r.match[key])
  BY <1>3, <1>4 DEF predicate_matches
<1>6. ASSUME ~ReadsPath(r), NEW key \in DOMAIN r.match
      PROVE  predicate_matches(D, key, r.match[key]) <=> predicate_matches(C, key, r.match[key])
  BY <1>3, <1>6 DEF predicate_matches, ReadsPath
<1>7. matches(r, D) => matches(r, C)
  BY <1>1, <1>2, <1>3, <1>5 DEF matches
<1>8. ~ReadsPath(r) /\ matches(r, C) => matches(r, D)
  BY <1>1, <1>2, <1>3, <1>6 DEF matches
<1> QED
  BY <1>7, <1>8 DEF C, D

\* SpellingDoesNotEvade: where normalizing settles a path, and paths are only named to
\* refuse them, no spelling gets an easier answer than the path it stands for.
THEOREM SpellingsAreOne ==
  ASSUME NormalizationSettles
  PROVE  EngineSpec => []SpellingDoesNotEvade
<1>1. EngineInv => SpellingDoesNotEvade
  <2> SUFFICES ASSUME EngineInv, Evaluated, call.path # << >>,
                      \A r \in Rules : ReadsPath(r) =>
                        /\ r.effect = "deny"
                        /\ DOMAIN r.match \cap {<<"path">>, <<"path_not_prefix">>} = {}
               PROVE  Answer(policy, Respelled(call)) <= Strictness(result.verdict)
    BY DEF SpellingDoesNotEvade, Respelled
  <2> DEFINE C == build_with_context(call)
             D == build_with_context(Respelled(call))
  <2>1. AreCompiled(policy.rules) /\ call \in Calls /\ result = evaluate(policy, call)
    BY PolicyInForce
  <2>2. policy_payload_readable(Respelled(call)) <=> policy_payload_readable(call)
    BY <2>1, RespelledContext DEF policy_payload_readable
  <2>3. CASE ~policy_payload_readable(call)
    <3>1. evaluate(policy, Respelled(call)) = Nothing /\ evaluate(policy, call) = Nothing
      BY <2>2, <2>3 DEF evaluate
    <3> QED
      BY <2>1, <3>1 DEF Answer, Nothing, Strictness
  <2>4. CASE policy_payload_readable(call)
    <3>1. /\ Severest(Decisive(Rules, C), Strictness(result.verdict))
          /\ Severest(Decisive(Rules, D), Answer(policy, Respelled(call)))
      BY <2>1, <2>2, <2>4, AnswerIsSeverest DEF Answer, Rules
    <3>2. ASSUME NEW r \in Rules
          PROVE  /\ matches(r, D) => matches(r, C)
                 /\ matches(r, C) => matches(r, D) \/ r.effect = "deny"
      <4>1. DOMAIN r.match \cap {<<"path">>, <<"path_not_prefix">>} = {}
        BY DEF ReadsPath
      <4> QED
        BY <2>1, <4>1, RespelledMatch
    <3>. HIDE DEF C, D
    <3>3. ASSUME NEW r \in Decisive(Rules, D)
          PROVE  \E q \in Decisive(Rules, C) : Severity[r.effect] <= Severity[q.effect]
      <4>1. PICK layer \in DOMAIN Rank : r \in Top(MatchedOf(Rules, D, layer))
        BY <3>3 DEF Decisive
      <4> DEFINE M == MatchedOf(Rules, D, layer)
                 N == MatchedOf(Rules, C, layer)
      <4>2. \A s \in M : IsCompiled(s)
        BY <2>1 DEF MatchedOf, AreCompiled, Rules, ToSet
      <4>3. \A s \in M : s \in N
        BY <3>2 DEF MatchedOf
      <4>4. \A s \in N \ M : s.effect = "deny"
        BY <3>2 DEF MatchedOf
      <4>5. \E q \in Top(N) : Severity[r.effect] <= Severity[q.effect]
        <5>. HIDE DEF M
        <5> QED
          BY <2>1, <4>1, <4>2, <4>3, <4>4, Tightened DEF Rules, M
      <4> QED
        BY <4>5 DEF Decisive
    <3> QED
      BY <2>1, <3>1, <3>3, NoLaxer DEF Rules
  <2> QED
    BY <2>3, <2>4
<1> QED
  BY <1>1, EngineInvHolds, PTL
=============================================================================
