------------------------------ MODULE Taxonomy ------------------------------
(* What an action means: the structural facts classify.rs reads off a tool   *)
(* name and its arguments, and the vocabulary taxonomy.rs derives from them. *)
(*                                                                           *)
(* A text is the set of the code's search fragments it contains: "^/etc/" is *)
(* a prefix, ".rs$" a suffix, "=prod" the whole text.  Names and texts are   *)
(* taken as the code sees them, trimmed and in lower case.  Arguments are    *)
(*   fields : the string-valued top-level arguments, key -> text             *)
(*   keys   : every object key the credential walk reaches                   *)
(*   extra  : fragments of the payload outside the string fields             *)
EXTENDS Naturals, Sequences

CONSTANT Fragments(_)          \* the search fragments a tool name contains

None == "none"                 \* an absent optional value

(***************************************************************************)
(* Name and key tables (classify.rs).                                      *)
(***************************************************************************)
FILESYSTEM_READ_TOOLS ==
  { "read_file", "read_text_file", "read_media_file", "read_multiple_files",
    "get_file_info", "read", "cat" }
FILESYSTEM_LIST_TOOLS ==
  { "list_directory", "list_directory_with_sizes", "directory_tree",
    "list_allowed_directories", "ls" }
FILESYSTEM_SEARCH_TOOLS ==
  {"search_files", "glob_file_search", "glob", "grep", "grep_search", "codebase_search"}
FILESYSTEM_WRITE_TOOLS ==
  { "write_file", "edit_file", "apply_patch", "create_directory", "move_file",
    "copy_file", "search_replace", "str_replace" }
FILESYSTEM_DELETE_TOOLS == {"delete_file", "remove_file", "rm", "unlink"}
SHELL_TOOLS ==
  { "execute_bash", "run_terminal_cmd", "shell", "bash", "sh", "zsh", "powershell",
    "pwsh", "cmd", "exec", "run_command", "terminal", "process_start" }
NETWORK_TOOLS ==
  { "fetch", "http_request", "http_get", "http_post", "http_put", "http_delete",
    "curl", "request", "api_call", "web_fetch" }
SEARCH_TOOLS == {"web_search", "search", "tavily_search", "google_search"}
DATABASE_TOOLS ==
  { "execute_sql", "sql_query", "run_query", "db_query", "execute_query",
    "list_tables", "apply_migration", "d1_database_query" }
VERSION_CONTROL_TOOLS == {"git", "git_commit", "git_push", "git_diff", "git_status"}
MESSAGING_TOOLS == {"send_email", "send_message", "post_message", "slack_post_message"}
MEMORY_TOOLS == {"memory_read", "memory_write", "store_memory", "recall"}
BROWSER_PREFIXES == {"^browser_", "^playwright_", "^puppeteer_"}

\* One key stands for its synonyms ("path" for file_path, filename, ...);
\* "link" stands for the URL keys augment_from_arguments does not look at.
PATH_KEYS == <<"path">>
DIRECTORY_KEYS == <<"directory">>
COMMAND_KEYS == <<"command">>
URL_KEYS == <<"url", "link">>
DESTINATION_PATH_KEYS == <<"destination">>

CREDENTIAL_KEY_HINTS ==
  { "private_key", "privatekey", "secret_access_key", "access_key", "api_key", "apikey",
    "access_token", "bearer", "authorization", "password", "passwd", "passphrase",
    "token", "secret", "credential" }
SENSITIVE_PATH_HINTS ==
  { ".ssh", "id_rsa", "id_ed25519", ".env", ".aws/credentials", ".kube/config",
    "id_dsa", ".netrc", ".pgpass" }

(***************************************************************************)
(* Arguments.                                                              *)
(***************************************************************************)
Absent == {"<absent>"}         \* no such field; it contains no fragment
NoArguments == [fields |-> << >>, keys |-> {}, extra |-> {}]

first_string_field(args, keys) ==
  LET present == SelectSeq(keys, LAMBDA k : k \in DOMAIN args.fields)
  IN  IF present = << >> THEN Absent ELSE args.fields[Head(present)]

Has(args, keys) == first_string_field(args, keys) # Absent
Says(text, fragments) == text \cap fragments # {}
semantic_hint(tool, fragments) == Says(Fragments(tool), fragments)

\* The value of the first alternative whose condition holds.
Decide(alternatives, otherwise) ==
  LET open == SelectSeq(alternatives, LAMBDA a : a.if)
  IN  IF open = << >> THEN otherwise ELSE Head(open).then
When(condition, value) == [if |-> condition, then |-> value]
Flag(condition, value) == IF condition THEN {value} ELSE {}

(***************************************************************************)
(* classify.rs: type and verb, resource, destination, data.                *)
(***************************************************************************)
Kind(tool_type, operation) == [tool_type |-> tool_type, operation |-> operation]
UnknownKind == Kind("unknown", "Invoke")

browser_operation(name) ==
  Decide(<<When(Says(Fragments(name), {"_navigate$", "_goto$", "_open$"}), "Navigate"),
           When(Says(Fragments(name), {"_click$", "_type$", "_fill$", "_press$"}), "Write"),
           When(Says(Fragments(name), {"_snapshot$", "_screenshot$", "_read$"}), "Read"),
           When(Says(Fragments(name), {"_evaluate$", "_cdp$", "_script$"}), "Execute")>>,
         "Invoke")

database_operation(name) ==
  Decide(<<When(name = "list_tables", "List"), When(name = "apply_migration", "Write")>>, "Query")

\* The kind of a tool some table names; UnknownKind of any other.
known_kind(name) ==
  Decide(<<When(Says(Fragments(name), BROWSER_PREFIXES), Kind("browser", browser_operation(name))),
           When(name \in FILESYSTEM_READ_TOOLS, Kind("filesystem", "Read")),
           When(name \in FILESYSTEM_LIST_TOOLS, Kind("filesystem", "List")),
           When(name \in FILESYSTEM_SEARCH_TOOLS, Kind("filesystem", "Search")),
           When(name \in FILESYSTEM_WRITE_TOOLS, Kind("filesystem", "Write")),
           When(name \in FILESYSTEM_DELETE_TOOLS, Kind("filesystem", "Delete")),
           When(name \in SHELL_TOOLS, Kind("shell", "Execute")),
           When(name \in NETWORK_TOOLS, Kind("network", "Connect")),
           When(name \in SEARCH_TOOLS, Kind("search", "Search")),
           When(name \in DATABASE_TOOLS, Kind("database", database_operation(name))),
           When(name \in VERSION_CONTROL_TOOLS, Kind("version_control", "Invoke")),
           When(name \in MESSAGING_TOOLS, Kind("messaging", "Write")),
           When(name \in MEMORY_TOOLS, Kind("memory", "Invoke"))>>,
         UnknownKind)

infer_from_arguments(args) ==
  Decide(<<When(Has(args, COMMAND_KEYS), Kind("shell", "Execute")),
           When(Has(args, URL_KEYS), Kind("network", "Connect")),
           When(Has(args, PATH_KEYS), Kind("filesystem", "Invoke"))>>, UnknownKind)

classify_tool(name, args) ==
  IF known_kind(name) # UnknownKind THEN known_kind(name) ELSE infer_from_arguments(args)

\* ToolKnowledge: a table names the tool, its arguments give it away, or neither.
tool_knowledge(name, args) ==
  Decide(<<When(known_kind(name) # UnknownKind, "Known"),
           When(infer_from_arguments(args) # UnknownKind, "PartiallyClassified")>>, "Unknown")

\* A resource is its kind and the text later stages search: a path, a command,
\* an address, or the database's name.
Resource(kind, text) == [kind |-> kind, text |-> text]
NoResource == Resource("none", Absent)
Named(kind, text) == IF text = Absent THEN NoResource ELSE Resource(kind, text)

filesystem_resource(operation, args) ==
  IF Has(args, PATH_KEYS)
  THEN Resource(IF operation = "List" THEN "Directory" ELSE "File",
                first_string_field(args, PATH_KEYS))
  ELSE Named("Directory", first_string_field(args, DIRECTORY_KEYS))

network_resource(args) ==
  IF Has(args, URL_KEYS) THEN Resource("Url", first_string_field(args, URL_KEYS))
                         ELSE Named("Host", first_string_field(args, <<"host">>))

derive_resource(kind, args) ==
  Decide(<<When(kind.tool_type = "filesystem", filesystem_resource(kind.operation, args)),
           When(kind.tool_type = "shell", Named("Command", first_string_field(args, COMMAND_KEYS))),
           When(kind.tool_type = "network", network_resource(args)),
           When(kind.tool_type = "database",
                Resource("Database", first_string_field(args, <<"database">>))),
           When(kind.tool_type = "browser",
                Resource("BrowserTarget", first_string_field(args, URL_KEYS))),
           When(kind.tool_type = "search", Named("Opaque", first_string_field(args, <<"query", "q">>)))>>,
         NoResource)

\* Where the action sends data: nowhere ("none"), to an address or to a file.
derive_destination(kind, args, target) ==
  Decide(<<When(kind.tool_type \in {"network", "search"} /\ target.kind \in {"Url", "Host"}, target.kind),
           When(kind.tool_type = "shell"
                  /\ Says(first_string_field(args, COMMAND_KEYS), {"http://", "https://"}), "Url"),
           When(kind.tool_type = "browser" /\ target.text # Absent, "Url"),
           When(kind.tool_type = "filesystem" /\ kind.operation = "Write"
                  /\ Has(args, DESTINATION_PATH_KEYS \o PATH_KEYS), "File")>>,
         "none")

collect_credential_refs(args) == args.keys \cap CREDENTIAL_KEY_HINTS

target_path(target) ==
  IF target.kind \in {"File", "Directory", "Command"} THEN target.text ELSE Absent

Confidential == 3
Restricted == 4
derive_data_classification(credentials, target) ==
  LET sensitive_path == Says(target_path(target), SENSITIVE_PATH_HINTS)
  IN  [ categories |-> (IF credentials # {} THEN {"Secret", "Credential"} ELSE {})
                         \cup Flag(sensitive_path, "Credential"),
        sensitivity |-> IF credentials # {} \/ sensitive_path THEN Restricted ELSE 0 ]

classify(name, args) ==
  LET kind == classify_tool(name, args)
      target == derive_resource(kind, args)
      credentials == collect_credential_refs(args)
  IN  [ tool_type |-> kind.tool_type, operation |-> kind.operation, target |-> target,
        destination |-> derive_destination(kind, args, target),
        credentials |-> credentials,
        data |-> derive_data_classification(credentials, target) ]

(***************************************************************************)
(* taxonomy.rs: the category of change, the resources, the risk flags.     *)
(***************************************************************************)
database_statement(args) == first_string_field(args, <<"query", "sql", "statement", "arguments">>)
sql_implies_delete(sql) == Says(sql, {"delete ", "drop "})
sql_implies_write(sql) == Says(sql, {"insert ", "update ", "alter ", "create ", "drop ", "truncate "})
sql_implies_irreversible(sql) == Says(sql, {"drop ", "truncate "})

create_like(tool, args) ==
  \/ semantic_hint(tool, {"create", "mkdir", "touch", "insert"})
  \/ Says(first_string_field(args, <<"mode">>), {"=create"})

category_from_command(command) ==
  Decide(<<When(Says(command, {"curl ", "wget ", "fetch(", "http://", "https://"}), "NetworkRequest"),
           When(Says(command, {"rm ", "unlink", "drop table", "truncate"}), "Delete"),
           When(Says(command, {"sudo ", "chmod ", "chown ", "runas"}), "Escalate"),
           When(Says(command, {"deploy", "kubectl apply"}), "Deploy")>>, "Execute")

augment_from_arguments(s, args) ==
  LET Retype(type, verb) ==
        [s EXCEPT !.tool_type = type, !.operation = IF @ = "Invoke" THEN verb ELSE @]
  IN  Decide(<<When(s.tool_type # "unknown", s),
               When(database_statement(args) # Absent, Retype("database", "Query")),
               When(Has(args, <<"url">>), Retype("network", "Connect"))>>, s)

category_from_operation(s, tool, args) ==
  LET verb == s.operation
  IN  Decide(<<When(verb = "Delete", "Delete"), When(verb = "Query", "Query"),
               When(verb = "Execute", "Execute"),
               When(verb \in {"Connect", "Navigate"}, "NetworkRequest"),
               When(verb \in {"Read", "List", "Search"}, "Read"),
               When(verb = "Write", IF create_like(tool, args) THEN "Create" ELSE "Modify"),
               When(s.tool_type = "filesystem",
                    Decide(<<When(semantic_hint(tool, {"delete", "remove", "unlink", "rm"}), "Delete"),
                             When(semantic_hint(tool, {"write", "edit", "patch", "move", "copy"}), "Modify"),
                             When(create_like(tool, args), "Create")>>, "Read"))>>,
             IF s.destination # "none" THEN "NetworkRequest" ELSE "Unknown")

derive_action_category(s, tool, args) ==
  LET sql == database_statement(args)
  IN  Decide(<<When(semantic_hint(tool, {"deploy", "release", "rollout", "promote"}), "Deploy"),
               When(semantic_hint(tool, {"auth", "login", "oauth", "sso", "token_refresh"}), "Authenticate"),
               When(semantic_hint(tool, {"escalate", "sudo", "privilege", "assume_role"}), "Escalate"),
               When(s.target.kind = "Command", category_from_command(s.target.text)),
               When(sql_implies_delete(sql), "Delete"),
               When(sql_implies_write(sql), "Modify"),
               When(sql # Absent, "Query"),
               When(s.tool_type = "messaging", "Send"),
               When(s.tool_type \in {"network", "search"}, "NetworkRequest")>>,
             category_from_operation(s, tool, args))

TypeResources ==
  [ filesystem |-> {"Filesystem"}, shell |-> {"Filesystem"}, database |-> {"Database"},
    browser |-> {"Browser"}, network |-> {"Network", "Api"}, messaging |-> {"Email"} ]

classify_path(path) ==
  (IF Says(path, {".ssh", ".env", ".aws", "credentials", "secret"})
     THEN {"Credential", "Secret"} ELSE {})
    \cup Flag(Says(path, {"/src/", ".rs$", ".ts$", ".py$", ".git/"}), "SourceCode")
    \cup Flag(Says(path, {"/etc/", "/prod/", "production"}), "ProductionSystem")

derive_resource_categories(s, tool, tier) ==
  LET secret == s.credentials # {} \/ s.data.categories \cap {"Secret", "Credential"} # {}
      found == (IF s.tool_type \in DOMAIN TypeResources THEN TypeResources[s.tool_type] ELSE {})
                 \cup (IF secret THEN {"Credential", "Secret"} ELSE {})
                 \cup classify_path(target_path(s.target))
                 \cup Flag(s.target.kind = "Database" /\ Says(s.target.text, {"=prod"}), "ProductionSystem")
                 \cup Flag(s.destination # "none", "ExternalService")
                 \cup Flag(semantic_hint(tool, {"s3", "lambda", "ec2", "gcs", "azure", "k8s", "kubectl"}),
                           "CloudResource")
                 \cup Flag(tier = "Production", "ProductionSystem")
  IN  IF found = {} THEN {"Unknown"} ELSE found

privileged_path(target) == Says(target_path(target), {"^/etc/", "/root/"})
privileged_command(target) == target.kind = "Command" /\ Says(target.text, {"sudo ", "chmod ", "chown "})

command_or_statement_implies_destruction(s, args) ==
  \/ s.target.kind = "Command" /\ category_from_command(s.target.text) = "Delete"
  \/ sql_implies_delete(database_statement(args))

Payload(args) == args.extra \cup UNION {args.fields[k] : k \in DOMAIN args.fields}
bulk_signals(tool, args, target) ==
  \/ semantic_hint(tool, {"glob", "bulk", "batch", "all_"})
  \/ Says(Payload(args), {"recursive", "\"*\"", "glob(", "rm -rf"})
  \/ Says(target_path(target), {"*", "/$"})

derive_risk_profile(action, resources, s, tool, args, tier) ==
  Flag(tier = "Production" \/ "ProductionSystem" \in resources, "production")
    \cup Flag(s.credentials # {} \/ resources \cap {"Credential", "Secret"} # {}, "credential_access")
    \cup Flag(s.data.sensitivity >= Confidential, "sensitive_data_access")
    \cup Flag(s.destination # "none", "external_destination")
    \cup Flag(action \in {"Delete", "Deploy", "Escalate"}
                \/ command_or_statement_implies_destruction(s, args), "destructive")
    \cup Flag(action \in {"Delete", "Deploy"}
                \/ sql_implies_irreversible(database_statement(args)), "irreversible")
    \cup Flag(action \in {"Escalate", "Authenticate"} \/ privileged_path(s.target)
                \/ privileged_command(s.target), "privileged")
    \cup Flag(bulk_signals(tool, args, s.target), "bulk_operation")

classify_structural(structural, tool, args, tier) ==
  LET s == augment_from_arguments(structural, args)
      action == derive_action_category(s, tool, args)
      resources == derive_resource_categories(s, tool, tier)
  IN  [ action |-> action, resources |-> resources,
        risk |-> derive_risk_profile(action, resources, s, tool, args, tier) ]

\* The facts an adapter left at their defaults are filled in; the others stay.
merge_structural(a, inferred) ==
  [ tool_type |-> IF a.tool_type = "unknown" THEN inferred.tool_type ELSE a.tool_type,
    operation |-> IF a.operation = "Invoke" THEN inferred.operation ELSE a.operation,
    target |-> IF a.target = NoResource THEN inferred.target ELSE a.target,
    destination |-> IF a.destination = "none" THEN inferred.destination ELSE a.destination,
    credentials |-> IF a.credentials = {} THEN inferred.credentials ELSE a.credentials,
    data |-> [ categories |-> a.data.categories \cup inferred.data.categories,
               sensitivity |-> IF inferred.data.sensitivity > a.data.sensitivity
                                 THEN inferred.data.sensitivity ELSE a.data.sensitivity ] ]

classify_action(a, tier) ==
  classify_structural(merge_structural(a, classify(a.tool_name, a.arguments)),
                      a.tool_name, a.arguments, tier)
=============================================================================
