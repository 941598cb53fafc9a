--------------------------- MODULE MCPolicyEngine ---------------------------
(* An instance of PolicyEngine for model checking. *)
EXTENDS PolicyEngine

MCHome == <<"/", "home", "dev">>

MCFragments(name) ==
  CASE name = "sudo_helper" -> {"sudo"} [] name = "deploy_release" -> {"deploy"} [] OTHER -> {}

MCCanonical(key) ==
  CASE key \in {"Api-Key", "api key", "API_KEY"} -> "api_key"
    [] key \in {"PASSWORD", "password"} -> "password" [] OTHER -> key

\* The orders of the patterns that can tie with each other.
MCHashOrders == SetToSeqs({".ssh/", "%2e%2e", "prod"}) \X {<<"rm -rf", "169.254.169.254", "push">>}
MCOrders == {o[1] \o o[2] : o \in MCHashOrders}

Doc(version, rules) ==
  [ version |-> version, schema_version |-> IF rules = <<>> THEN "legacy" ELSE "2026.3",
    rules |-> rules, identity_rules |-> <<>>, taxonomy_rules |-> <<>>, patterns |-> {},
    redact_keys |-> {}, risk_threshold |-> 80, tools |-> <<>> ]

When_(key, value) == key :> value

MCOrgDocs ==
  { Doc("empty", <<>>),
    [Doc("legacy", <<>>) EXCEPT !.patterns = {"prod"}, !.redact_keys = {"Api-Key"},
       !.tools = <<Tool("bash", "Block", {"push"}), Tool("fetch", "Redact", {"prod"})>>],
    Doc("paths", << Rule("deny-ssh", 1000, "deny", When_(<<"path_pattern">>, <<".ssh">>)),
                    Rule("deny-etc", 900, "deny", When_(<<"path_prefix">>, <<"/", "etc">>)),
                    Rule("deny-home", 900, "deny",
                         When_(<<"path_prefix">>, <<"/", "home", "dev", "keys">>)) >>),
    Doc("workspace", << Rule("allow-ws", 9500, "allow", When_(<<"path_prefix">>, <<"/", "ws">>)),
                        Rule("deny-out", 10, "deny", When_(<<"path_not_prefix">>, <<"/", "ws">>)),
                        Rule("confirm-rest", 0, "require_approval", << >>) >>),
    [Doc("agents", << Rule("trust-deployer", 900, "allow", When_(<<"agent_id">>, <<"deployer">>)),
                      Rule("trust-bound", 800, "allow", When_(<<"agent", "bound_id">>, <<"deployer">>)),
                      Rule("deny-all", 0, "deny", << >>) >>)
       EXCEPT !.identity_rules =
         << Rule("session", 0, "redact", When_(<<"session_id">>, <<"s1">>)) >>],
    Doc("anonymous", << Rule("allow-team", 5, "allow", When_(<<"labels", "team">>, <<"platform">>)),
                        Rule("deny-anonymous", 5, "deny", When_(<<"agent", "anonymous">>, True)) >>),
    Doc("floors", << Rule("deny-hot", 10, "deny", When_(<<"risk", "level_at_least">>, <<"HIGH">>)),
                     Rule("deny-75", 9, "deny", When_(<<"risk", "score_at_least">>, <<"75">>)),
                     Rule("deny-odd", 9, "deny",
                          When_(<<"behavior", "severity_at_least">>, <<"MEDIUM">>)) >>),
    Doc("taxonomy", << Rule("deny-delete", 0, "deny", When_(<<"action">>, <<"Delete">>)),
                       Rule("redact-secrets", 9999, "redact", When_(<<"resource", "Secret">>, True)),
                       Rule("redact-net", 20, "redact", When_(<<"operation">>, <<"Connect">>)),
                       Rule("deny-threat", 50, "deny", When_(<<"risk", "factor">>, <<"ThreatIntel">>)) >>),
    Doc("labelled", << Rule("deny-nobody", 7, "deny",
                            When_(<<"agent_id">>, <<"local-anonymous">>)) >>),
    Doc("allow-all", << Rule("allow-all", 99999, "allow", << >>) >>),
    [Doc("identity", << Rule("deny-fetch", 6500, "deny", When_(<<"tool_name">>, <<"fetch">>)) >>)
       EXCEPT !.identity_rules = << Rule("a", 0, "deny", When_(<<"environment">>, <<"Production">>)),
                                    Rule("b", 0, "allow", When_(<<"path_prefix">>, <<"/", "ws">>)) >>],
    Doc("duplicate", << Rule("a", 0, "deny", << >>), Rule("a", 1, "allow", << >>) >>),
    Doc("typo", << Rule("a", 0, "deny", When_(<<"pathprefix">>, <<"/">>)) >>),
    [Doc("regex", <<>>) EXCEPT !.patterns = {"("}],
    [Doc("ruleless", <<>>) EXCEPT !.schema_version = "2026.3"] }

MCLocalDocs ==
  { NoDocument,
    Doc("weaken", << Rule("allow-all", 99999, "allow", << >>),
                     Rule("redact-all", 100000, "redact", << >>) >>),
    [Doc("tighten", << Rule("confirm-net", 1, "require_approval", When_(<<"action">>, <<"NetworkRequest">>)) >>)
       EXCEPT !.tools = <<Tool("fetch", "Block", {}), Tool("read_file", "Allow", {"prod"})>>,
              !.redact_keys = {"token"}, !.risk_threshold = 40],
    [Doc("confirm", <<>>) EXCEPT !.tools = <<Tool("read_file", "Confirm", {}),
                                             Tool("fetch", "Redact", {})>>],
    [Doc("trusting", <<>>) EXCEPT
       !.taxonomy_rules = << Rule("allow-reads", 0, "allow", When_(<<"action">>, <<"Read">>)) >>],
    [Doc("nameless", <<>>) EXCEPT !.version = ""] }

Text(words) == {"="} \cup words

CallOf(tool, fields) ==
  [ tool |-> tool, declared |-> tool, path |-> <<>>, tier |-> "Development",
    args |-> [fields |-> fields, keys |-> DOMAIN fields, extra |-> {}],
    leaves |-> {<<"api key">>, <<"cfg", "password">>, <<"cfg", "token">>, <<"note">>},
    agent_id |-> None, agent_trust |-> "self_asserted", bound_id |-> None,
    session_id |-> None, team |-> None, content |-> 0, ioc |-> FALSE, behavior |-> << >> ]

ReadOf(path, words) == [CallOf("read_file", "path" :> Text(words)) EXCEPT !.path = path]
Plain == ReadOf(<<"/", "ws", "notes">>, {})
Fetch == CallOf("fetch", "url" :> Text({"https://"}))

MCCalls ==
  { Plain,
    ReadOf(<<"/", "ws", "..", "etc", "hosts">>, {"/etc/"}),
    ReadOf(<<"/", "etc", "hosts">>, {"/etc/"}),
    ReadOf(<<"/", "ws", "%252e%252e", "etc", "hosts">>, {}),
    ReadOf(<<"/", "ws", "..%2f.ssh", "id">>, {"%2e%2e", ".ssh/", "prod"}),
    ReadOf(<<"~", ".ssh", "id">>, {".ssh", ".ssh/"}),
    ReadOf(<<"~", "keys", "deploy">>, {}),
    [CallOf("bash", "command" :> Text({"rm ", "rm -rf"})) EXCEPT !.path = <<"rm">>],
    [CallOf("bash", "command" :> Text({"push", "prod"})) EXCEPT !.path = <<"git">>],
    Fetch,
    [Fetch EXCEPT !.args.fields = ("url" :> Text({"https://", "169.254.169.254", "prod"}))],
    [Fetch EXCEPT !.ioc = TRUE, !.content = 60],
    [Plain EXCEPT !.content = 90], [Plain EXCEPT !.ioc = TRUE, !.tier = "Production"],
    [Plain EXCEPT !.behavior = ("unknown_tool" :> "HIGH" @@ "high_volume_reads" :> "LOW")],
    [Plain EXCEPT !.agent_id = "deployer", !.team = "platform"],
    [Plain EXCEPT !.team = "platform"],
    [Plain EXCEPT !.agent_id = "deployer", !.session_id = "s1"],
    [Plain EXCEPT !.agent_id = "deployer", !.agent_trust = "bound", !.bound_id = "deployer"],
    CallOf("delete_file", "path" :> Text({})),
    CallOf("mystery", "command" :> Text({"deploy"})),
    [CallOf("mystery", "command" :> Text({"deploy"})) EXCEPT !.content = 90], CallOf("oddity", << >>),
    CallOf("sudo_helper", << >>),
    [Plain EXCEPT !.declared = "bash"], [Plain EXCEPT !.declared = None] }
=============================================================================
