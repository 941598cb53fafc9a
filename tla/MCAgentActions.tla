--------------------------- MODULE MCAgentActions ---------------------------
(* Instances of AgentActions for model checking. *)
EXTENDS AgentActions

\* The fragments of the tool names used below.
MCFragments(name) ==
  Decide(<<When(name = "browser_navigate", {"^browser_", "_navigate$"}),
           When(name = "delete_file", {"delete"}), When(name = "mkdirs", {"mkdir"}),
           When(name = "deploy_service", {"deploy"}), When(name = "batch_run", {"batch"}),
           When(name = "oauth_refresh", {"auth", "oauth"}), When(name = "s3_sync", {"s3"})>>, {})

With(key, text) == [NoArguments EXCEPT !.fields = (key :> text)]
Object(args) == [encoding |-> "object", object |-> args]
Encoded(args) == [encoding |-> "json", object |-> args]

Commands ==
  { With("command", t) : t \in
      {{"ls"}, {"rm ", "rm -rf", "/$"}, {"curl ", "https://", "rm "}, {"sudo ", "^/etc/", "/etc/"},
       {".ssh", "id_rsa"}, {"kubectl apply"}} }
Other ==
  { With("path", {"/src/", ".rs$"}), With("path", {".env", "*"}), With("link", {"https://"}),
    With("directory", {"/prod/"}), With("url", {"https://"}), With("sql", {"drop ", "drop table"}),
    With("query", {"select "}), With("database", {"=prod"}),
    [With("path", {"notes"}) EXCEPT !.keys = {"password"}, !.extra = {"recursive"}],
    With("mode", {"=create"}), With("host", {"example"}), NoArguments }

Call(adapter, event, tool, args) ==
  [ adapter |-> adapter, event |-> event, tool |-> tool, args |-> args, session |-> None,
    trace |-> None, workspace |-> None, size |-> "fits" ]

Tools == {"run_it", "execute_bash", "delete_file", "deploy_service", "batch_run", "write_file",
          "list_tables", "browser_navigate", "send_email"}
Shapes == {Call("mcp", "tools/call", t, Object(a)) : t \in Tools, a \in Commands \cup Other}

Envelopes ==
  { Call("openai", "tool_calls", t, e) :
      t \in {None, "run_it"}, e \in {Encoded(a) : a \in Commands} \cup {[encoding |-> "text", object |-> NoArguments]} }
    \cup { Call("anthropic", "tool_use", t, Object(a)) : t \in {None, "run_it"}, a \in Commands }
    \cup { Call("cursor", ev, "run_it", Object(a)) :
             ev \in {"beforeShellExecution", "beforeReadFile", "beforeMCPExecution", "stop"},
             a \in Commands \cup {With("path", {".ssh"})} }
    \cup { [Call("cursor", "beforeShellExecution", None, Object(With("command", {"ls"})))
              EXCEPT !.session = s, !.trace = t, !.workspace = w] :
             s \in {Blank, "conversation"}, t \in {None, "generation"}, w \in {None, "repo"} }
    \cup { [Call("claude_code", ev, t, Object(a)) EXCEPT !.session = s, !.workspace = "repo"] :
             ev \in {"PreToolUse", "Stop"}, t \in {"bash", "webfetch", "", "run_it"},
             s \in {None, Blank, "chat"}, a \in {With("command", {"rm "}), With("url", {"https://"})} }
    \cup { [Call("generic", "intercepted", t, Object(a)) EXCEPT !.size = z] :
             t \in {"execute_bash", "mkdirs", "overlong", ""}, z \in {"fits", "large"}, a \in Other }
    \cup { Call("legacy", "invocation", t, Object(a)) : t \in {"run_it", "s3_sync"}, a \in Commands \cup Other }

MCWire == Shapes \cup Envelopes
Ambient ==
  [ session |-> "process", agent_id |-> "label", user_id |-> "dev", organization_id |-> "acme",
    workspace |-> "cwd", tier |-> "Production", labels |-> [team |-> "core"] ]
Elsewhere ==
  [ session |-> "other", agent_id |-> "impostor", user_id |-> None, organization_id |-> "rival",
    workspace |-> "tmp", tier |-> "Development", labels |-> [team |-> "red", env |-> "prod"] ]
MCContext == {EmptyContext, Ambient, Elsewhere}
MCResolver == {[kind |-> "noop", context |-> EmptyContext]}
                \cup {[kind |-> "static", context |-> c] : c \in {Ambient, Elsewhere}}
=============================================================================
