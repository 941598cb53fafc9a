---------------------------- MODULE PolicyEngine ----------------------------
(***************************************************************************)
(* The declarative policy engine (policy/{schema,validate,compose,compile, *)
(* match_ctx,evaluation,redact}.rs) over the mandatory baseline            *)
(* (security_baseline) and the open-core risk score (scoring).             *)
(*                                                                         *)
(* An organization's document and, where there is one, a local document    *)
(* are composed with the baseline and compiled into rules that keep the    *)
(* layer they come from; calls are then evaluated.  Names, keys and values *)
(* are taken canonically: trimmed, in lower case, "-" for "_".             *)
(*                                                                         *)
(*   document : version, schema_version, rules, identity_rules,            *)
(*              taxonomy_rules, patterns, redact_keys, risk_threshold, tools *)
(*   rule     : name, priority, effect, match (key -> value), tools        *)
(*   key      : its dotted parts, <<"risk", "destructive">>                *)
(*   value    : its parts, <<"true">>; a path prefix is a path             *)
(*   path     : its segments, "/" first when it is absolute                *)
(***************************************************************************)
EXTENDS Taxonomy, Integers, SequencesExt, FiniteSetsExt

CONSTANTS
  OrgDocs,          \* documents an organization may author
  LocalDocs,        \* documents a machine may add
  Calls,            \* tool calls to evaluate, see Call below
  Home,             \* the path "~" stands for
  HashOrders,       \* orders in which the hashed sets may be iterated
  Canonical(_)      \* canonicalize_key_name

NoDocument == [version |-> "absent"]

(***************************************************************************)
(* Effects and layers.                                                     *)
(***************************************************************************)
Severity == [deny |-> 3, require_approval |-> 2, redact |-> 1, allow |-> 0]
Rank == [mandatory_baseline |-> 2, organization |-> 1, local |-> 0]
EffectOf == [Block |-> "deny", Confirm |-> "require_approval", Redact |-> "redact",
             Allow |-> "allow"]

LEGACY_IDENTITY_PRIORITY_BASE == 7000
LEGACY_TAXONOMY_PRIORITY_BASE == 6000
LEGACY_GLOBAL_BLOCK_PRIORITY == 5000
LEGACY_TOOL_BLOCK_PRIORITY == 4500
LEGACY_TOOL_DENY_PRIORITY == 4000
LEGACY_TOOL_APPROVAL_PRIORITY == 3500

\* What the types of schema.rs grant of a document, whether it is valid or not.
RuleFields == {"name", "priority", "effect", "match", "tools"}
IsRuleList(s) ==
  /\ s \in Seq(ToSet(s))
  /\ \A r \in ToSet(s) : DOMAIN r = RuleFields /\ r.priority \in Int /\ r.effect \in DOMAIN Severity
IsToolList(s) == s \in Seq(ToSet(s)) /\ \A t \in ToSet(s) : t.action \in DOMAIN EffectOf

ASSUME DocumentAssumption ==
  \A doc \in OrgDocs \cup (LocalDocs \ {NoDocument}) :
    /\ IsRuleList(doc.rules) /\ IsRuleList(doc.identity_rules) /\ IsRuleList(doc.taxonomy_rules)
    /\ IsToolList(doc.tools)

\* One hash order is another in which the same patterns come.
ASSUME OrderAssumption ==
  \A order, other \in HashOrders : order \in Seq(ToSet(order)) /\ ToSet(order) = ToSet(other)

ASSUME CallAssumption ==
  \A c \in Calls :
    DOMAIN c = { "tool", "declared", "path", "tier", "args", "leaves", "agent_id", "agent_trust",
                 "bound_id", "session_id", "team", "content", "ioc", "behavior" }

(***************************************************************************)
(* The mandatory baseline (security_baseline/mod.rs): one tool stands for  *)
(* each family of names, one or two patterns for each family of patterns.  *)
(***************************************************************************)
sensitive_path_patterns == {".ssh/", "%2e%2e"}
dangerous_shell_patterns == {"rm -rf"}
dangerous_network_patterns == {"169.254.169.254"}
CANONICAL_REDACT_KEYS == {"PASSWORD"}
BASELINE_RISK_THRESHOLD == 70

True == <<"true">>
Rule(name, priority, effect, match) ==
  [name |-> name, priority |-> priority, effect |-> effect, match |-> match, tools |-> {}]
Tool(name, action, patterns) == [name |-> name, action |-> action, patterns |-> patterns]

taxonomy_baseline_rules ==
  << Rule("baseline.deny_credential_read", 9000, "deny",
          <<"resource", "Credential">> :> True @@ <<"action", "Read">> :> True),
     Rule("baseline.deny_secret_read", 9000, "deny",
          <<"resource", "Secret">> :> True @@ <<"action", "Read">> :> True),
     Rule("baseline.confirm_shell_execute", 8000, "require_approval",
          <<"action", "Execute">> :> True @@ <<"resource", "Filesystem">> :> True),
     Rule("baseline.confirm_destructive", 8500, "require_approval",
          <<"risk", "destructive">> :> True),
     Rule("baseline.confirm_unknown_execute", 8200, "require_approval",
          <<"risk", "factor", "UnusualTool">> :> True @@ <<"action", "Execute">> :> True) >>

mandatory_policy_config ==
  [ version |-> "baseline-2026.3", schema_version |-> "2026.3",
    rules |-> taxonomy_baseline_rules, identity_rules |-> <<>>, taxonomy_rules |-> <<>>,
    patterns |-> sensitive_path_patterns, redact_keys |-> CANONICAL_REDACT_KEYS,
    risk_threshold |-> BASELINE_RISK_THRESHOLD,
    tools |-> << Tool("bash", "Confirm", dangerous_shell_patterns),
                 Tool("read_file", "Allow", sensitive_path_patterns),
                 Tool("write_file", "Confirm", sensitive_path_patterns),
                 Tool("fetch", "Allow", dangerous_network_patterns) >> ]

(***************************************************************************)
(* Validation (validate.rs and the regex compilation of compile.rs).       *)
(***************************************************************************)
KnownKey(key) ==
  \/ key[1] \in {"action", "labels", "resource", "risk"}
  \/ key \in { <<"agent", "anonymous">>, <<"agent_id">>, <<"agent", "label">>, <<"agent", "trust">>,
               <<"agent", "bound_id">>, <<"agent", "id">>, <<"behavior", "severity">>,
               <<"behavior", "severity_at_least">>, <<"behavior", "signal">>, <<"environment">>,
               <<"operation">>, <<"path">>, <<"path_not_prefix">>, <<"path_pattern">>,
               <<"path_prefix">>, <<"tool_name">> }
  \/ Len(key) = 3 /\ key[1] = "behavior" /\ key[2] = "signal"

UniqueNames(s) == \A i, j \in DOMAIN s : s[i].name = s[j].name => i = j

validate_config(doc) ==
  /\ doc.schema_version \in {"legacy", "2026.3"}
  /\ doc.version # ""
  /\ \A part \in {"rules", "identity_rules", "taxonomy_rules", "tools"} :
       UniqueNames(doc[part]) /\ \A i \in DOMAIN doc[part] : doc[part][i].name # ""
  /\ \A i \in DOMAIN doc.rules : \A key \in DOMAIN doc.rules[i].match : KnownKey(key)
  /\ doc.schema_version = "2026.3" => doc.rules # <<>>

\* "(" is the pattern no regex engine compiles.
PatternsCompile(doc) ==
  /\ "(" \notin doc.patterns \cup UNION {doc.tools[i].patterns : i \in DOMAIN doc.tools}
  /\ \A i \in DOMAIN doc.rules :
       <<"path_pattern">> \in DOMAIN doc.rules[i].match
         => doc.rules[i].match[<<"path_pattern">>] # <<"(">>

(***************************************************************************)
(* Composition (compose.rs): tools, patterns, keys and thresholds only     *)
(* tighten; legacy rules are unioned by name, the base's first.            *)
(***************************************************************************)
stricter_action(a, b) == IF Severity[EffectOf[a]] >= Severity[EffectOf[b]] THEN a ELSE b

WithName(s, name) == {x \in ToSet(s) : x.name = name}

\* What is left of s when only the positions in keep are retained.
Kept(s, keep) ==
  LET kept[n \in 0 .. Len(s)] ==
        IF n = 0 THEN <<>> ELSE IF n \in keep THEN Append(kept[n - 1], s[n]) ELSE kept[n - 1]
  IN  kept[Len(s)]

\* The entries of over that base has none of the name of.
Unnamed(base, over) == Kept(over, {i \in DOMAIN over : WithName(base, over[i].name) = {}})

merge_tool(a, b) == Tool(a.name, stricter_action(a.action, b.action), a.patterns \cup b.patterns)

merge_tools(base, over) ==
  [ i \in DOMAIN base |->
      IF WithName(over, base[i].name) = {} THEN base[i]
      ELSE merge_tool(base[i], CHOOSE t \in WithName(over, base[i].name) : TRUE) ]
    \o Unnamed(base, over)

union_by_name(base, over) == base \o Unnamed(base, over)

overlay_globals_tools_legacy(base, over) ==
  [ base EXCEPT !.patterns = @ \cup over.patterns,
                !.redact_keys = @ \cup over.redact_keys,
                !.risk_threshold = Min({@, over.risk_threshold}),
                !.tools = merge_tools(@, over.tools),
                !.identity_rules = union_by_name(@, over.identity_rules),
                !.taxonomy_rules = union_by_name(@, over.taxonomy_rules),
                !.version = over.version ]

overlay_globals_and_tools(org, local) ==
  LET managed == overlay_globals_tools_legacy(mandatory_policy_config, org)
  IN  IF local = NoDocument THEN managed ELSE overlay_globals_tools_legacy(managed, local)

(***************************************************************************)
(* Compilation (compile.rs).  A compiled rule's order is its index.        *)
(***************************************************************************)
Compiled(r, source, layer) ==
  [ name |-> r.name, priority |-> r.priority, effect |-> r.effect, match |-> r.match,
    tools |-> r.tools, source |-> source, layer |-> layer, pattern |-> None ]

compile_normalized_rules(rules, layer) ==
  [i \in DOMAIN rules |-> Compiled(rules[i], "rules", layer)]

\* compile_identity_rule and compile_taxonomy_rule: earlier rules first.
compile_legacy_rules(rules, base, source, layer) ==
  [ i \in DOMAIN rules |->
      Compiled([rules[i] EXCEPT !.priority = base - (i - 1)], source, layer) ]

Block(pattern, priority, tools, source, layer) ==
  [ name |-> pattern, priority |-> priority, effect |-> "deny", match |-> << >>,
    tools |-> tools, source |-> source, layer |-> layer, pattern |-> pattern ]

\* A set of patterns, in the order the hash set yields it.
Iterated(patterns, order) == Kept(order, {i \in DOMAIN order : order[i] \in patterns})

compile_global_blocks(patterns, order, layer) ==
  LET s == Iterated(patterns, order)
  IN  [ i \in DOMAIN s |->
          Block(s[i], LEGACY_GLOBAL_BLOCK_PRIORITY, {}, "global.block_patterns", layer) ]

compile_tool_policy(tool, order, layer) ==
  LET s == Iterated(tool.patterns, order)
      blocks == [ i \in DOMAIN s |->
                    Block(s[i], LEGACY_TOOL_BLOCK_PRIORITY, {tool.name},
                          "tools.block_patterns", layer) ]
      whole == [ name |-> tool.name, effect |-> EffectOf[tool.action], match |-> << >>,
                 tools |-> {tool.name},
                 priority |-> IF tool.action = "Block" THEN LEGACY_TOOL_DENY_PRIORITY
                                                       ELSE LEGACY_TOOL_APPROVAL_PRIORITY ]
  IN  IF tool.action = "Allow" THEN blocks
                               ELSE Append(blocks, Compiled(whole, "tools.action", layer))

\* Tools come from a hash map too, but no call matches the rules of two tools.
append_legacy_rules(doc, order, layer) ==
  compile_legacy_rules(doc.identity_rules, LEGACY_IDENTITY_PRIORITY_BASE, "identity_rules", layer)
    \o compile_legacy_rules(doc.taxonomy_rules, LEGACY_TAXONOMY_PRIORITY_BASE,
                            "taxonomy_rules", layer)
    \o compile_global_blocks(doc.patterns, order, layer)
    \o FlattenSeq([i \in DOMAIN doc.tools |-> compile_tool_policy(doc.tools[i], order, layer)])

\* Mutant of LayerOf: local rules join the organization's.
LayerOf_flat(document) == IF document = "baseline" THEN "mandatory_baseline" ELSE "organization"

\* The layer a document's normalized rules are compiled into.
LayerOf(document) ==
  CASE document = "baseline" -> "mandatory_baseline"
    [] document = "organization" -> "organization"
    [] document = "local" -> "local"

compile_layered(org, local, order) ==
  LET merged == overlay_globals_and_tools(org, local)
  IN  [ rules |->
          compile_normalized_rules(mandatory_policy_config.rules, LayerOf("baseline"))
            \o compile_normalized_rules(org.rules, LayerOf("organization"))
            \o (IF local = NoDocument THEN <<>>
                ELSE compile_normalized_rules(local.rules, LayerOf("local")))
            \o append_legacy_rules(merged, order, "organization"),
        redact_keys |-> merged.redact_keys, risk_threshold |-> merged.risk_threshold ]

(***************************************************************************)
(* Paths (security_baseline/path.rs, match_ctx.rs).                        *)
(***************************************************************************)
MAX_PERCENT_DECODE_PASSES == 2

\* What a segment becomes when its escapes are decoded once.
Decoded ==
  "%2e%2e" :> <<"..">> @@ "%252e%252e" :> <<"%2e%2e">> @@ "..%2f.ssh" :> <<"..", ".ssh">>

percent_decode_once(path) ==
  FlattenSeq([ i \in DOMAIN path |->
                 IF path[i] \in DOMAIN Decoded THEN Decoded[path[i]] ELSE <<path[i]>> ])

collapse_dot_segments(path) ==
  LET Push(stack, segment) ==
        IF segment = "." THEN stack
        ELSE IF segment # ".." THEN Append(stack, segment)
        ELSE IF stack \notin {<<>>, <<"/">>} /\ Last(stack) # ".." THEN Front(stack)
        ELSE IF stack = <<"/">> THEN stack
        ELSE Append(stack, "..")
      stack == FoldLeft(Push, <<>>, path)
  IN  IF stack = <<>> THEN <<".">> ELSE stack

normalize_path_for_policy(path) ==
  collapse_dot_segments(FoldLeftDomain(LAMBDA p, i : percent_decode_once(p), path,
                                       [i \in 1..MAX_PERCENT_DECODE_PASSES |-> i]))

expand_home(path) == IF path[1] = "~" THEN Home \o Tail(path) ELSE path

\* Mutant of extract_paths: the path is matched as it is written.
paths_as_written(c) == IF c.path = <<>> THEN <<>> ELSE <<c.path>>

\* The path or command a call carries, as written and as it normalizes.
extract_paths(c) ==
  IF c.path = <<>> THEN <<>>
  ELSE IF normalize_path_for_policy(c.path) = c.path THEN <<c.path>>
  ELSE <<c.path, normalize_path_for_policy(c.path)>>

\* A path and its home-expanded form.
Forms(path) == {path, expand_home(path)}

\* A regex is one segment it looks for.
matches_path_regex(paths, regex) ==
  \E i \in DOMAIN paths : \E p \in Forms(paths[i]) : Contains(p, regex)
matches_path_prefix(paths, prefix) ==
  \E i \in DOMAIN paths : \E p \in Forms(paths[i]) : IsPrefix(prefix, p)
matches_path_not_prefix(paths, prefix) ==
  paths # <<>> /\ \A i \in DOMAIN paths : \A p \in Forms(paths[i]) : ~IsPrefix(prefix, p)

(***************************************************************************)
(* The open-core score (scoring/basic.rs, scoring/types.rs): the strongest *)
(* of the factors that fired, and the band it falls in.                    *)
(***************************************************************************)
is_policy_sensitive_tool(tool) ==
  \/ tool \in { "execute_bash", "run_terminal_cmd", "shell", "bash", "write_file", "edit_file",
                "apply_patch", "delete_file", "remove_file", "deploy_release", "kubectl" }
  \/ Says(Fragments(tool), {"deploy", "sudo"})

factors(c, security) ==
  LET knowledge == tool_knowledge(c.tool, c.args)
      Factor(condition, kind, contribution) == Flag(condition, <<kind, contribution>>)
  IN  Factor("credential_access" \in security.risk
               \/ security.resources \cap {"Secret", "Credential"} # {}, "SecretAccess", 80)
        \cup Factor("destructive" \in security.risk
                      \/ security.action \in {"Delete", "Deploy", "Escalate"},
                    "DestructiveAction", 70)
        \cup Factor(is_policy_sensitive_tool(c.tool), "PolicySensitiveOperation", 75)
        \cup Factor(knowledge = "Unknown", "UnusualTool", 40)
        \cup Factor(knowledge = "PartiallyClassified", "UnusualTool", 35)
        \cup Factor(c.content >= 50, "ContentSecret", Min({c.content, 85}))
        \cup Factor(c.ioc, "ThreatIntel", 85)

RiskLevelRank == [LOW |-> 1, MEDIUM |-> 2, HIGH |-> 3, CRITICAL |-> 4]
level_for(score) ==
  Decide(<<When(score >= 75, "CRITICAL"), When(score >= 50, "HIGH"),
           When(score >= 25, "MEDIUM")>>, "LOW")

score(c, security) ==
  LET fired == factors(c, security)
      points == Min({100, Max({f[2] : f \in fired} \cup {0})})
  IN  [score |-> points, level |-> level_for(points), kinds |-> {f[1] : f \in fired}]

(***************************************************************************)
(* The match surface (match_ctx.rs).  A call holds                         *)
(*   tool, args, path, tier : what is asked for, and where;                *)
(*   declared               : the tool its canonical payload names, or     *)
(*                            None when that payload cannot be read;       *)
(*   agent_id, agent_trust, bound_id, session_id, team : who asks;         *)
(*   content, ioc           : what the content scan and threat intel say;  *)
(*   behavior               : the detectors' finding, signal -> severity.  *)
(* The open-core detectors raise no signal; the engine takes any finding.  *)
(***************************************************************************)
build_with_context(c) ==
  LET a == [ tool_name |-> c.tool, arguments |-> c.args, tool_type |-> "unknown",
             operation |-> "Invoke", target |-> NoResource, destination |-> "none",
             credentials |-> {}, data |-> [categories |-> {}, sensitivity |-> 0] ]
      security == classify_action(a, c.tier)
  IN  [ call |-> c, security |-> security, paths |-> extract_paths(c),
        operation |-> classify(c.tool, c.args).operation, scored |-> score(c, security) ]

NoValue == <<>>
Truth(p) == IF p THEN <<"true">> ELSE <<"false">>
Optional(value) == IF value = None THEN NoValue ELSE <<value>>

LOCAL_ANONYMOUS_AGENT_ID == "local-anonymous"

identity_field(c, key) ==
  CASE key = <<"labels", "team">> -> Optional(c.team)
    [] key \in {<<"agent_id">>, <<"agent", "label">>} ->
         <<IF c.agent_id = None THEN LOCAL_ANONYMOUS_AGENT_ID ELSE c.agent_id>>
    [] key = <<"agent", "trust">> -> <<c.agent_trust>>
    [] key \in {<<"agent", "bound_id">>, <<"agent", "id">>} -> Optional(c.bound_id)
    [] key = <<"session_id">> -> Optional(c.session_id)
    [] key = <<"environment">> -> <<c.tier>>
    [] OTHER -> NoValue

RiskFlags == { "destructive", "external_destination", "privileged", "credential_access",
               "sensitive_data_access", "production", "irreversible", "bulk_operation" }

taxonomy_field(security, key) ==
  CASE key[1] = "risk" /\ Len(key) = 2 /\ key[2] \in RiskFlags -> Truth(key[2] \in security.risk)
    [] key[1] = "resource" -> Truth(key[2] \in security.resources)
    [] key = <<"action">> -> <<security.action>>
    [] key[1] = "action" /\ Len(key) = 2 -> Truth(security.action = key[2])
    [] OTHER -> NoValue

scored_risk_field(scored, key) ==
  IF Len(key) = 3 /\ key[2] = "factor" THEN Truth(key[3] \in scored.kinds) ELSE NoValue

behavior_field(finding, key) ==
  IF Len(key) = 3 THEN Truth(key[3] \in DOMAIN finding) ELSE NoValue

\* The first surface that knows the key answers.
field(ctx, key) ==
  CASE key = <<"tool_name">> -> <<ctx.call.tool>>
    [] key = <<"path">> -> IF ctx.paths = <<>> THEN NoValue ELSE ctx.paths[1]
    [] key = <<"agent", "anonymous">> ->
         Truth(ctx.call.agent_id \in {None, LOCAL_ANONYMOUS_AGENT_ID})
    [] key = <<"operation">> -> <<ctx.operation>>
    [] identity_field(ctx.call, key) # NoValue -> identity_field(ctx.call, key)
    [] key[1] \in {"risk", "resource", "action"} /\ taxonomy_field(ctx.security, key) # NoValue ->
         taxonomy_field(ctx.security, key)
    [] key[1] = "risk" /\ taxonomy_field(ctx.security, key) = NoValue ->
         scored_risk_field(ctx.scored, key)
    [] key[1] = "behavior" -> behavior_field(ctx.call.behavior, key)
    [] OTHER -> NoValue

max_severity(finding) == Max({RiskLevelRank[finding[s]] : s \in DOMAIN finding})
ParsedFloor == "25" :> 25 @@ "50" :> 50 @@ "75" :> 75

at_least(rank, floor) == rank >= floor

matches_field_equals(ctx, key, expected) ==
  LET finding == ctx.call.behavior
      word == expected[1]
  IN  CASE key = <<"behavior", "signal">> -> word \in DOMAIN finding
        [] key = <<"behavior", "severity_at_least">> ->
             /\ finding # << >> /\ word \in DOMAIN RiskLevelRank
             /\ at_least(max_severity(finding), RiskLevelRank[word])
        [] key = <<"behavior", "severity">> ->
             /\ finding # << >> /\ word \in DOMAIN RiskLevelRank
             /\ max_severity(finding) = RiskLevelRank[word]
        [] key = <<"risk", "factor">> -> word \in ctx.scored.kinds
        [] key = <<"risk", "level">> -> ctx.scored.level = word
        [] key = <<"risk", "level_at_least">> ->
             /\ word \in DOMAIN RiskLevelRank
             /\ at_least(RiskLevelRank[ctx.scored.level], RiskLevelRank[word])
        [] key = <<"risk", "score_at_least">> ->
             word \in DOMAIN ParsedFloor /\ at_least(ctx.scored.score, ParsedFloor[word])
        [] OTHER -> field(ctx, key) # NoValue /\ field(ctx, key) = expected

(***************************************************************************)
(* Matching (compile.rs): an Allow or Redact that reads a spoofable field  *)
(* needs an agent whose identity is bound.                                 *)
(***************************************************************************)
uses_privilege_sensitive_identity(r) ==
  DOMAIN r.match \cap { <<"agent_id">>, <<"agent", "label">>, <<"user_id">>, <<"user", "label">>,
                        <<"session_id">>, <<"session", "label">>, <<"organization_id">>,
                        <<"device_id">> } # {}

requires_bound_agent_predicate(r) ==
  \/ DOMAIN r.match \cap {<<"agent", "bound_id">>, <<"agent", "id">>} # {}
  \/ /\ <<"agent", "trust">> \in DOMAIN r.match
     /\ r.match[<<"agent", "trust">>] \in {<<"bound">>, <<"authenticated">>}

agent_trust_can_grant_privilege(c) ==
  c.agent_trust \in {"bound", "authenticated"} \/ c.bound_id # None

\* Mutant of TrustGuard: whoever is named is believed.
TrustGuard_off(r, c) == TRUE

TrustGuard(r, c) ==
  \/ r.effect \notin {"allow", "redact"}
  \/ ~uses_privilege_sensitive_identity(r)
  \/ requires_bound_agent_predicate(r)
  \/ agent_trust_can_grant_privilege(c)

predicate_matches(ctx, key, expected) ==
  CASE key = <<"path_pattern">> -> matches_path_regex(ctx.paths, expected[1])
    [] key = <<"path_prefix">> -> matches_path_prefix(ctx.paths, expected)
    [] key = <<"path_not_prefix">> -> matches_path_not_prefix(ctx.paths, expected)
    [] OTHER -> matches_field_equals(ctx, key, expected)

\* Only normalized rules compile path predicates; elsewhere the key is a field
\* nothing defines.
matches(r, ctx) ==
  /\ r.tools = {} \/ ctx.call.tool \in r.tools
  /\ \A key \in DOMAIN r.match :
       IF r.source = "rules" THEN predicate_matches(ctx, key, r.match[key])
                             ELSE matches_field_equals(ctx, key, r.match[key])
  /\ r.pattern # None => r.pattern \in Payload(ctx.call.args) \cup Fragments(ctx.call.tool)
  /\ TrustGuard(r, ctx.call)

(***************************************************************************)
(* Evaluation (evaluation.rs).                                             *)
(***************************************************************************)
\* Mutant of Precedes: severity does not break a tie of priorities.
Precedes_by_order(rules, i, j) ==
  \/ rules[i].priority > rules[j].priority
  \/ rules[i].priority = rules[j].priority /\ i < j

\* Rule i is sorted before rule j of its layer.
Precedes(rules, i, j) ==
  LET p == rules[i]
      q == rules[j]
  IN  \/ p.priority > q.priority
      \/ p.priority = q.priority /\ Severity[p.effect] > Severity[q.effect]
      \/ p.priority = q.priority /\ Severity[p.effect] = Severity[q.effect] /\ i < j

winner_within_layer(rules, matched) ==
  CHOOSE i \in matched : \A j \in matched \ {i} : Precedes(rules, i, j)

LayerWinners(rules, matched) ==
  LET In(layer) == {i \in matched : rules[i].layer = layer}
  IN  {winner_within_layer(rules, In(layer)) : layer \in {x \in DOMAIN Rank : In(x) # {}}}

\* Mutant of Stronger: the layer outranks the effect.
Stronger_by_layer(p, q) == Rank[p.layer] < Rank[q.layer]

\* Among the winners of their layers: the stronger effect, then the higher layer.
Stronger(p, q) ==
  \/ Severity[p.effect] > Severity[q.effect]
  \/ Severity[p.effect] = Severity[q.effect] /\ Rank[p.layer] > Rank[q.layer]

select_cross_layer_winner(rules, winners) ==
  CHOOSE i \in winners : \A j \in winners \ {i} : Stronger(rules[i], rules[j])

shadowed_by(rules, winners, best) == {i \in winners \ {best} : Stronger(rules[best], rules[i])}

\* A JSON payload is the set of its string leaves, each the keys that lead to it.
redact_json_text(leaves, keys) ==
  LET canonical == {Canonical(k) : k \in keys}
  IN  {leaf \in leaves : \A i \in DOMAIN leaf : Canonical(leaf[i]) \notin canonical}

verdict_for_rule(r) ==
  CASE r.effect = "deny" -> "Block" [] r.effect = "require_approval" -> "Confirm"
    [] r.effect = "redact" -> "Redact" [] r.effect = "allow" -> "Allow"

policy_payload_readable(c) == c.declared = c.tool

Nothing == [verdict |-> "Unevaluable", winner |-> 0, shadowed |-> {}, frame |-> {}]

\* What the rules at the matched places come to.
Ruling(policy, c, matched) ==
  LET winners == LayerWinners(policy.rules, matched)
      best == select_cross_layer_winner(policy.rules, winners)
      verdict == verdict_for_rule(policy.rules[best])
  IN  IF matched = {} THEN [Nothing EXCEPT !.verdict = "Allow", !.frame = c.leaves]
      ELSE [ verdict |-> verdict, winner |-> best,
             shadowed |-> shadowed_by(policy.rules, winners, best),
             frame |-> IF verdict = "Redact" THEN redact_json_text(c.leaves, policy.redact_keys)
                                             ELSE c.leaves ]

evaluate(policy, c) ==
  LET ctx == build_with_context(c)
  IN  IF ~policy_payload_readable(c) THEN Nothing
      ELSE Ruling(policy, c, {i \in DOMAIN policy.rules : matches(policy.rules[i], ctx)})

(***************************************************************************)
(* Authoring, compiling, evaluating.                                       *)
(***************************************************************************)
VARIABLES
  org, local,       \* the documents, as authored
  policy,           \* the compiled policy
  call,             \* the last call evaluated
  result            \* its PolicyEvaluation
engineVars == <<org, local, policy, call, result>>

NoPolicy == [rules |-> <<>>, redact_keys |-> {}, risk_threshold |-> 0]
NoCall == [tool |-> None]

EngineInit ==
  /\ org \in OrgDocs /\ local \in LocalDocs
  /\ policy = NoPolicy /\ call = NoCall /\ result = Nothing

\* PolicyEngine::from_layered; a document that does not validate changes nothing.
Compile ==
  /\ policy = NoPolicy
  /\ \A doc \in {org, local} \ {NoDocument} : validate_config(doc) /\ PatternsCompile(doc)
  /\ \E order \in HashOrders : policy' = compile_layered(org, local, order)
  /\ UNCHANGED <<org, local, call, result>>

EvaluateCall(c) ==
  /\ policy # NoPolicy
  /\ call' = c /\ result' = evaluate(policy, c)
  /\ UNCHANGED <<org, local, policy>>

EngineNext == Compile \/ \E c \in Calls : EvaluateCall(c)

EngineSpec == EngineInit /\ [][EngineNext]_engineVars

(***************************************************************************)
(* Properties.                                                             *)
(***************************************************************************)
Strictness(verdict) ==
  CASE verdict = "Allow" -> 0 [] verdict = "Redact" -> 1 [] verdict = "Confirm" -> 2
    [] verdict = "Block" -> 3 [] verdict = "Unevaluable" -> 4

Evaluated == call # NoCall

\* What another policy, or this one of another call, would have answered.
Answer(p, c) == Strictness(evaluate(p, c).verdict)
AnyOrder == CHOOSE order \in HashOrders : TRUE

Rules == ToSet(policy.rules)

\* POLICY_SCHEMA.md, Precedence: the verdict is the strongest, over the layers, of the
\* strongest effect among a layer's matches of the highest priority.  In particular
\* the order in which hashed patterns were compiled does not show (the sort of
\* winner_within_layer).
VerdictIsStrongest ==
  Evaluated /\ policy_payload_readable(call) =>
    LET ctx == build_with_context(call)
        Matched(layer) == {r \in Rules : r.layer = layer /\ matches(r, ctx)}
        Top(S) == {r \in S : \A q \in S : q.priority <= r.priority}
        decisive == UNION {Top(Matched(layer)) : layer \in DOMAIN Rank}
    IN  Strictness(result.verdict) = Max({0} \cup {Severity[r.effect] : r \in decisive})

\* compose.rs:1: whatever an organization and a machine author, a call gets at least
\* what the baseline's own rules ask for it.
BaselineHolds ==
  Evaluated =>
    LET baseline == [policy EXCEPT !.rules =
          compile_normalized_rules(mandatory_policy_config.rules, "mandatory_baseline")]
    IN  Answer(baseline, call) <= Strictness(result.verdict)

WithoutLocal == compile_layered(org, NoDocument, AnyOrder)

\* The parts of a document whose rules can only refuse, or stay in their own layer.
LegacyPartsRefuse(doc) ==
  /\ doc.identity_rules = <<>> /\ doc.taxonomy_rules = <<>>
  /\ \A i \in DOMAIN doc.tools : doc.tools[i].action \in {"Allow", "Block"}

\* The local document may only tighten: its normalized rules, whatever their effect
\* and priority, its patterns and its blocked tools never make a call pass more
\* easily than it does without them.
LocalRulesOnlyTighten ==
  Evaluated /\ local # NoDocument /\ LegacyPartsRefuse(local) =>
    Answer(WithoutLocal, call) <= Strictness(result.verdict)

\* compose.rs:6: "optional local restrictions (may only tighten)", of every part of
\* the local document.
LocalOnlyTightens ==
  Evaluated /\ local # NoDocument => Answer(WithoutLocal, call) <= Strictness(result.verdict)

\* A rule for agents that give no label: they go by one of their own.
SinglesOutUnlabelled(r) ==
  \/ <<"agent", "anonymous">> \in DOMAIN r.match
  \/ \E key \in DOMAIN r.match \cap {<<"agent_id">>, <<"agent", "label">>} :
       r.match[key] = <<LOCAL_ANONYMOUS_AGENT_ID>>

\* compile.rs: "self-asserted identity must never grant additional privilege".  A call
\* of an agent nobody vouches for that passes would pass without its agent and session
\* labels too, unless the policy singles out agents that give no label at all.
LabelsGrantNothing ==
  /\ Evaluated /\ ~agent_trust_can_grant_privilege(call)
  /\ \A r \in Rules : ~SinglesOutUnlabelled(r)
  /\ result.verdict \in {"Allow", "Redact"}
  => evaluate(policy, [call EXCEPT !.agent_id = None, !.session_id = None]).verdict
       \in {"Allow", "Redact"}

ReadsPath(r) == DOMAIN r.match \cap {<<"path">>, <<"path_not_prefix">>, <<"path_prefix">>,
                                     <<"path_pattern">>} # {}

\* Where paths are only named to refuse them, no spelling of a path (escapes, parent
\* segments) gets an easier answer than the path it stands for.
SpellingDoesNotEvade ==
  /\ Evaluated /\ call.path # <<>>
  /\ \A r \in Rules : ReadsPath(r) =>
       r.effect = "deny" /\ DOMAIN r.match \cap {<<"path">>, <<"path_not_prefix">>} = {}
  => Answer(policy, [call EXCEPT !.path = normalize_path_for_policy(@)])
       <= Strictness(result.verdict)

=============================================================================
