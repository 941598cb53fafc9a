# Formal models of sqreen-core

TLA+ modules, TLC configurations and TLAPS proofs for `mcp-proxy`, the Rust crate under
`src/mcp-proxy`. Paths below are relative to `src/mcp-proxy/src/` unless they start with
`src/`.

`mcp-proxy` stands between an agent and the tools it calls. An adapter turns each tool
call into an action; the action is classified and evaluated by a *gateway*: declarative
policy, an optional WebAssembly extension, risk scanners, and an approver with a store
of earlier grants. The outcome is allow (possibly with a rewritten payload), deny, or
"approval required". Two front ends use the gateway: a wrapper around a stdio server,
and an HTTP proxy in front of a model.

## 1. Inventory

### Components, their state and operations

| Component | Source | State | Operations | Modelled by |
|---|---|---|---|---|
| Approval grant store | `gateway/approval/grant.rs` | grants by token, exact and session index, audit ring (one mutex); an atomic sequence number | `issue_once/session/until`, `authorize`, `redeem`, `record_decision`, `history` | `GrantStore`, `ApprovalGrants`, `GrantVault` |
| Gateway | `gateway/mod.rs` | the trace of one evaluation | `evaluate`, `run` | `Gateway` |
| Approvers | `gateway/approval/mod.rs`, `context.rs` | a pending prompt | `request`, `mint_grants_for_verdict` | `Gateway` |
| Policy stage | `gateway/policy_stage.rs` | a policy snapshot and its availability | `evaluate` | `PolicyStage` |
| Risk stage | `gateway/risk_stage.rs`, `scoring/` | none | `scan`, `evaluate`, `record` | `RiskStage` |
| Failure policy | `gateway/failure.rs`, `posture.rs` | a mode for each subsystem | `decide`, presets, `from_env` | `FailurePolicy` |
| Audit sinks | `gateway/audit.rs` | none | `record` | a refusal in `Gateway` |
| Guard facade | `guard.rs` | none: a gateway per call | `evaluate_outcome` | the deployments of `Gateway` without `sharedGrants` |
| Policy engine | `policy/*.rs` | compiled rules, immutable | compose, compile, `evaluate_detailed` | `PolicyEngine` |
| Policy store | `policy_store.rs` | engine, availability, last refresh, each under its own lock | `refresh_if_stale`, `snapshot`, `availability` | `PolicyStore` |
| Signed policy | `policy/signed.rs` | envelope and acceptance state on disk | verify, activate, persist, load | `SignedPolicy`, `AcceptedRevision` |
| Threat-intel store | `threat_intel.rs` | matcher, last refresh | load, `refresh_if_stale`, `snapshot` | `HttpFirewall` |
| Stdio relay | `main.rs`, `peeker.rs` | two relay tasks, the child, a shared stdout | relay, inspect, answer, shut down | `StdioRelay` |
| HTTP firewall | `http_serve.rs` | none between requests | mask, forward, judge a response, drop or rewrite tool calls | `HttpFirewall` |
| Adapters | `adapters/*.rs` | none | `decode`, `enforce` | `AgentActions` |
| Action model | `action.rs`, `classify.rs`, `taxonomy.rs`, `identity.rs` | an action under construction | build, classify, merge and bind identities | `AgentActions`, `Taxonomy` |
| Scanners, baseline | `risk.rs`, `policy/redact.rs`, `security_baseline/*.rs` | none | masking, key redaction; the baseline's rules | `DlpScanner`, `PolicyEngine` |
| Telemetry pipeline | `telemetry/pipeline.rs` | bounded channel, shutdown flag, counters, the worker's batch | `start`, `emit`, `request_shutdown`, the worker | `TelemetryPipeline` |
| Session tracker | `behavior/*.rs` | ring of recent tool names | `record_action` | once per action, in `Gateway` |
| WebAssembly host, cloud client | | external | | the answers they may give |
| Telemetry events and sinks, pilot tooling, local helpers | | | | not modelled (section 7) |

### How they interact

The front ends take `snapshot()` and `availability()` from the policy store, and the
HTTP one a snapshot of the threat-intel store, build a guard, and call the gateway for
each tool call. The gateway calls the stages synchronously, and the approver
asynchronously; it reads and writes the grant store under a mutex, appends to the
session, and emits audit records (whose refusal may turn an allow into a denial) and
telemetry events (which may not). A refresher (the client-to-server relay in stdio
mode, a timer task in serve mode) replaces policy and indicators behind everyone's
back. In stdio mode two tasks write to the client. A signed policy is activated against
the acceptance state on disk before the policy store installs it.

### What is hard, and what makes each part correct

* **Grant store.** Concurrent callers; two locks per operation; clock, token and expiry
  fixed before the lock; a newer grant that takes over an index entry. Correct when a
  single-use grant authorizes one call, a retired grant none, a use is covered by its
  grant and audited, and the indexes name live grants only.
* **Gateway.** A dozen early returns, several failing subsystems with different modes,
  an approver that may be slow, silent or absent, a refused audit record on any path.
  Correct when nothing broken leads to an allow by default, an approval is somebody's,
  what failed is in the trail, and every action gets an outcome.
* **Policy engine.** Rules of three trust layers with priorities, and legacy parts that
  are merged before they are compiled; identities that anybody may claim; paths that
  can be spelled in many ways. Correct when a lower layer never weakens a higher one.
* **Policy store.** Load and installation are apart, sources break and come back, engine
  and availability are read apart. Correct when enforcement is never lost, never weakened
  to unsigned policy, truthfully labelled, and heals.
* **Signed policy.** Two files written one after the other, crashes and failed writes in
  between, replayed, altered and foreign envelopes. Correct when only authentic policy is
  enforced, nothing is enforced before it is on record, the record never moves back, and
  a restart finds a policy it can activate.
* **Stdio relay.** Two tasks, four ends of file, a child that may die, a call that waits
  for an approval while the server talks. Correct when every frame is forwarded or
  answered once, only what was allowed is relayed, and the wrapper ends.
* **HTTP firewall.** Several tool calls in one response while policy and indicators are
  replaced; several masking passes over one text. Correct when a response is judged by
  one guard, a dropped call takes no sibling along, and what is recognized is masked.
* **Adapters and action model.** Identities merged from the wire, the environment and a
  binding; an action changed after it was classified; outcomes a provider cannot express.
  Correct when trust is earned, policy sees the final action, and what runs is what was
  judged.
* **Telemetry pipeline.** A bounded queue, batches, retries, and a shutdown that overtakes
  emitters and worker. Correct when every accepted event is accounted for and the worker
  stops.

`PROJECT.json` lists each hazard at its line, with the properties that would catch it.

## 2. Modules

```
GrantStore ──┬── ApprovalGrants ── MCApprovalGrants, ApprovalGrants_proofs
             │        └─ GrantVault   (a refinement)
FailurePolicy┼── PolicyStage ─┐
     │       └── RiskStage  ──┴─ Gateway ── MCGateway, Gateway_proofs
     └───────────┐
DlpScanner ──┬── StdioRelay ── MCStdioRelay, StdioRelay_proofs
             └── HttpFirewall ── MCHttpFirewall, HttpFirewall_proofs
Taxonomy ────┬── AgentActions ── MCAgentActions ─┬─ ActionPolicy_proofs
             └── PolicyEngine ── MCPolicyEngine ─┘  (extends the two models)
AcceptedRevision ── SignedPolicy ── MCSignedPolicy, SignedPolicy_proofs   (a refinement)
PolicyStore ── MCPolicyStore, PolicyStore_proofs
TelemetryPipeline ── MCTelemetryPipeline, TelemetryPipeline_proofs
```

### `GrantStore` and `ApprovalGrants`

`GrantStore` has `StoreInner` as one record and each method that runs under its mutex
as an operator from store to store: `Insert` (the insertions of `issue_with_expiry`),
`Usable`, `Used`, `Spend`, `Refuse` (`take_use`), `PurgeIndexes`, `PushHistory`, and
the two lookups of `authorize`. A digest is modelled as what it digests, which is the
usual assumption about SHA-256. `ApprovalGrants` adds the concurrency: a call begins
(clock and token are read), takes the lock, and may take it again to write its audit
entry; other callers run in between. `spent` is a ghost that counts how many calls each
grant has authorized.

`GrantVault` is what the store promises: terms that never change, the set of open grants,
the uses of each, and what each caller waits for, dated when it asked; no indexes, locks or
audit ring. A grant is issued once under a name nobody held. It is closed by its last use
or by a call dated after its expiry, by nothing else, and nothing opens it again. A call is
allowed by one open grant that covers it; a call that names a grant is refused only when
that grant would not allow it. `authorize` owes less: what it does not find through the
indexes it may refuse, so `Refuse` asks nothing of a call that names no grant. The mapping,
at the end of `ApprovalGrants`: `open` is the unconsumed grants, `terms` what is never
written after the insertion, `uses` the ghost `spent`, and `request` a call that
has been made and has not yet taken the lock. Issuing is a step when the grant is inserted;
making the grant before, and the audit entries written under the second lock, are stutters.

### `FailurePolicy`, `PolicyStage`, `RiskStage`, `Gateway`

The first three are pure: the matrix and its presets, `PolicyStage::evaluate` over every
answer of the declarative engine (with or without audit mode) and of the extension,
`RiskStage::evaluate` over what the scanners may find, with the scorer's contributions
as they are in `scoring/basic.rs`. `Gateway` is `run`: `Inspect` is policy and risk
together (they await nothing and change nothing others see), then one action per way out
(`RefuseDetached`, `SettleByPolicy`, `DenyByRisk`, `AllowOnMerits`, `ReuseGrant` and
`AllowGranted`, `Defer`, `Prompt`, `Answer`, `TimeOut`, `Judge`). Each action that emits
audit records may have one refused.

### `Taxonomy` and `AgentActions`

`Taxonomy` is `classify.rs` and `taxonomy.rs`: a tool's type, operation and target from
its name, then from its arguments, and the categories, resources and risk profile
derived from both. A text is the set of the fragments the code searches it for (`"rm
-rf"`, `"^/etc/"` for a prefix, `".rs$"` for a suffix), so that every `contains` of the
source is a membership. The tables keep the code's order of cases.

`AgentActions` is one call's way through an adapter: `Decode` (one operator per
adapter: which events are tool calls, where the tool and the identity come from, the
builder with its limits), `Bind` and `Merge` (identity changes), `Evaluate` (enrichment
with the resolver's context, reclassification, the gateway's answer) and `Enforce` (what
the provider is told to run). `set_bound_agent` and `merge_from` are called by tests only
in this build; the model offers them to any embedder.

### `PolicyEngine`

From the documents of the three layers to a verdict, as one `Compile` (validation,
composition, the overlay of tools and blocks, the compilation of normalized, identity,
taxonomy and legacy rules with their priorities and sources, the baseline) and
`EvaluateCall` (fields, predicates, the trust guard, the winner of a layer, the winner
across layers, the verdict and its redaction). A document is granted what the types of
`policy/schema.rs` grant (`DocumentAssumption`) and may be invalid otherwise. The merges
of tools and blocks are filters over lists (`Kept`). Where the code iterates over a
`HashMap`, the order is drawn. A path is a sequence of segments; percent escapes, dot segments and the
home prefix are decoded as in `match_ctx.rs`, with its limit of passes.

### `PolicyStore`

`CheckDue`, `Mark`, `Fetch` and `Install` are the four steps of `refresh_if_stale`;
`Snapshot`, `Evaluate` and `Done` are a reader; `EditLocal`, `ChangeRemote` and `Elapse`
are the surroundings. A compiled engine is modelled by the documents it was composed
from. The deployment is drawn at the start. `Elapse` assumes that the refresh interval
(5 s) is longer than a reader takes between its two reads, and than a load that has no
control plane to wait for.

### `AcceptedRevision` and `SignedPolicy`

`AcceptedRevision` is the abstract specification: registers, one per acceptance file,
each of which may only be moved to an entry that `Advances` it (a higher revision, or the
same revision of the same document, of the same organization once a revision above zero
is on record). `SignedPolicy` implements it: `Download` and `Reload` are
`activate_signed_policy` with `verify_signature`, check by check in the code's order;
`PersistEnvelope` and `PersistAcceptance` are a temporary file and a rename each;
`PersistFails` and `Crash` may happen at every point; `Install` hands the engine over;
`ReplaceCache` is somebody else writing the cache file. A signature is a record of who
signed what. The driver that sequences these calls is external, because in this build
only the integrity tests call them: it follows the order of `integrity_tests.rs`.

### `DlpScanner`

The masking passes of `risk.rs` over a text of tokens (secret patterns, social security
numbers, database URLs, cards with their checksum), `string_needs_scan`, `scan_value`,
`mask_secrets_in_frame`, the key redaction and `sanitize_server_frame`. `Masked` says what
a masked text is in terms that are not the scanner's loops.

### `StdioRelay`

The client task is `ReadClient` (with the peeker's `classify_fields`), `Evaluate`,
`ForwardToServer`, `AnswerClient`, `DelimitAnswer`, `ClientEnds`; the server task
`ReadServer`, `ForwardToClient`, `DelimitFrame`, `ServerEnds`; `join_relays` is the end of
the wrapper. Frame and newline are separate writes. The client and the server process are
external. Evaluation may answer anything and need never answer.

### `HttpFirewall`

`ReadRequest`, `SendUpstream`, `UpstreamFails`, `Receive`, `JudgeCall`, `FinishChoice` and
`Reply` are an exchange; `InstallPolicy`, `ChangeFeed`, `IntervalElapses`,
`RefreshReadsFile` and `RefreshInstalls` are the background task and its sources. The
guard taken at `Receive` (`AppState::guard`) is what every call of the response is judged
by.

### `TelemetryPipeline`

An emission is counted, offered under the sender's mutex, and counted again; a shutdown
raises its flag and drops the sender in two steps; the worker is the loop of
`spawn_worker` with `flush_batch`. Events are numbered in the order of the channel.
`accepted`, `exported`, `givenUp` and `gone` are ghosts.

## 3. Runs

| Run | Question | Bounds |
|---|---|---|
| `grants` | Single use, finality, indexes, coverage and audit entries with every order of the locks; the inductive invariant of the proofs | 2 callers, 2 actions (one never session-safe), 2 grants, ring of 2, 2 instants |
| `gateway` | One evaluation over every answer of every stage, in 8 deployments: is anything allowed by default, is a failure or a record lost? | 2 actions, 9 scan results, 1 grant |
| `gateway_concurrent` | Two evaluations over one store, with the clock, an operator who may be silent, and timeouts | 2 evaluators, 1 grant, 2 instants |
| `policy_store` | Is enforcement ever lost, weakened or mislabelled while file and control plane change, and do sources that stop changing end up enforced? | 1 refresher (as in both modes), 1 reader, a good and a broken document, 3 deployments |
| `telemetry` | Is every accepted event accounted for, is what was queued settled, does a shutdown end the worker? | 2 emitters, capacity 2, batch 2, 2 attempts, 5 events |
| `signed_policy` | What is enforced and what is on disk over downloads, crashes, failed writes, restarts and a replaced cache; the refinement of `AcceptedRevision` | 17 envelopes (genuine revisions of three organizations, and each way an envelope can be wrong), 3 key environments, 3 fleets of two enrolments, 4 instants |
| `agent_actions` | Trust, reclassification and enforcement through every adapter | every adapter's events, 9 tools with 6 commands and 12 other argument sets, 3 contexts and resolvers |
| `policy_engine` | Precedence, the baseline, local tightening, labels and spellings | 15 organization documents, 6 local ones, 26 calls, every order of the patterns that can tie |
| `stdio_relay` | The fate of every frame, sanitized answers, no starvation, the wrapper's end | 2 frames of the client out of 8 kinds, 1 spontaneous frame of the server, 2 failure modes, with and without redaction keys |
| `http_firewall` | One guard per response, masking in both directions, indicators that arrive | 1 connection, texts of up to 3 chunks of a card, a digit, separators, a social security number, a secret and a scheme, 2 policies, 2 changes |
| `policy_engine_local`, `stdio_framing` | A sentence of the source each, which the code does not keep (below) | the same or a smaller instance |

Why these bounds are enough for what they show: the grant store treats grants only
through their index entries, so two grants (one replacing the other) and two callers
reach every way an entry can go stale, and two instants every order of a read of the
clock and an expiry; a batch, a queue and a retry limit of 2 have a first, a last and one
beyond. An acceptance file is only compared with the envelope in hand, so successive
revisions, one of another document, and one of another organization cover what can stand
between two activations. In the relay each frame is handled to its end before the next is
read, so two frames show what one leaves for its successor. A response with two choices
of three calls has a call before, between and after a dropped one. The documents of
`policy_engine` were chosen so that every layer, source and effect wins somewhere and
loses somewhere. What the proofs cover holds without bounds.

The mutants in `PROJECT.json` change one mapped definition the way a plausible bug would
and make the property fail under the same configuration.

Deadlock is checked wherever the system goes on for ever. It is not where the system
really stops: `telemetry` (after a shutdown, or at the bound on events), `policy_engine`
(after its one evaluation) and `stdio_relay` (when the wrapper has returned, or an
approval stays open).

### Fairness

* `Gateway!FairSpec`: the runtime polls every evaluation and the timer of
  `TimeoutApprovalEngine`. No approver has to answer; the clock need not advance.
* `PolicyStore!FairSpec`: the serve-mode timer keeps calling `refresh_if_stale`, a fetch
  ends, an evaluation goes on, and the interval elapses again and again (strong fairness:
  it cannot elapse in the middle of a read, but it does between reads).
* `TelemetryPipeline!FairSpec`: the worker and threads inside `emit` go on; a shutdown
  gets the sender's mutex (strong fairness: it is never held across a wait). Nobody has
  to emit or to ask for a shutdown.
* `HttpFirewall!FairSpec`: the background task runs every five seconds, and a fetch has a
  timeout, so a refresh that has begun ends, well or badly. No exchange has to go on.
* `StdioRelay!FairSpec`: the runtime runs both tasks and `main`, and the server exits once
  its input has ended. The gateway is owed nothing: an approval may stay open for ever,
  and `ServerFramesArrive` holds nevertheless.

### Disagreements between the source and what it says of itself

Two have a run whose counterexample shows them (`expect: violation`).

| Run | What the source says | What happens |
|---|---|---|
| `policy_engine_local` | local restrictions "may only tighten" (`policy/compose.rs:6`) | tools and blocks of all layers are merged into one list of the organization's layer (`policy/compile.rs:168`), where a tool action of the local document (priority 3500) outranks a block of the organization (900): a denial becomes a confirmation |
| `stdio_framing` | "Newline-delimited JSON-RPC over stdio" (`adapters/mcp.rs:30`) | a frame and its newline are two awaited writes (`main.rs:237`), and both tasks write to the client through handles of their own: two frames may share a line |

The models have the code's behaviour in the following places too, where a comment or a
document may be read otherwise; no property claims the comment.

Gateway:

* audit mode forwards the arguments unredacted and reports no unreadable payload, because
  the branch drops the enforcement verdict (`gateway/policy_stage.rs:181`; compare
  `src/docs/POLICY_SCHEMA.md:197`, `policy/evaluation.rs:112`);
* masking a secret waives what the other factors require, since the score is a maximum
  and the contribution is subtracted from it (`gateway/risk_stage.rs:237`, `:231`);
* the terminal prompt's own timeout is reported as the operator's denial
  (`gateway/approval/mod.rs:171`, `:15`; `gateway/mod.rs:599`);
* a scanner's panic is ruled on as `RiskScoring`, which may degrade, not as `Internal`
  (`RiskStage!RiskFailures`; `gateway/failure.rs:45`);
* a degraded action may ride on an earlier session grant (`Gateway!ReuseGrant`;
  `gateway/failure.rs:25` hands it to an approver);
* the guard builds a gateway with a grant store of its own per call (`guard.rs:150`), so
  no call's grants are seen by the next (`Gateway!FreshStore`);
* the audit history is in the order of the lock, not of its time stamps, which are read
  before it (`gateway/approval/grant.rs:516`); a newer grant takes over the exact index
  entry, and an older one that outlives it is not found again (`GrantStore!Insert`).

Policy and stores:

* a baseline tool action (priority 3500) outranks an organization's legacy block of a
  lower priority by the same merge; a document's `mode: audit` takes no effect by itself;
  `labels.team`, `agent_type` and `environment` are not behind the trust guard;
  `path_not_prefix` looks at the raw and the normalized spelling together; a redaction key
  with surrounding blanks never matches, nor do the path keys of an identity rule; the
  open core reports no behaviour findings;
* an unreadable policy file is reported as invalid, because the text of the error names
  the file and the file's name contains "yaml" (`policy_store.rs:218`,
  `gateway/posture.rs:140`);
* an event accepted between a shutdown's flag and its closing of the channel may vanish
  uncounted (`telemetry/pipeline.rs:230`, `:228`): `gone` in `Accounted`;
* a machine that is started both enrolled and unenrolled keeps two acceptance files beside
  one cache, and the unenrolled start may put an older envelope in it: `LastKnownGood` is
  about machines whose starts are all enrolled. Two organizations whose names are
  sanitized to one file name share an acceptance file; the second is locked out, and
  nothing is mixed.

Front ends and adapters:

* only the digits up to the end of a stretch are looked at for a card, 13 to 16 of them; a
  database scheme with nothing behind it is flagged but not masked; bodies that are not
  UTF-8 are left alone, and text that is not JSON is masked for secrets only;
* the notice for a choice with nothing kept sets `finish_reason` on the message
  (`http_serve.rs:374`), and a choice with an empty `tool_calls` gets one too; a body that
  lists choices is masked in their contents and arguments only;
* a `tools/call` without `id` or `params` is relayed unjudged; text after a JSON object is
  accepted by the peeker, so a rewrite of such a frame is refused;
* the hook adapters have no place for a rewrite and drop it (`adapters/cursor.rs:170`,
  `adapters/claude_code.rs:192`; compare
  `src/docs/PROVIDER_ADAPTERS.md:156`): `ExecutesWhatWasJudged` is about the
  adapters that have one.

## 4. Proofs

Checked by TLAPS for every value of the constants. Every safety property the passing runs
check is a theorem, action properties included; the exceptions are named at the end. Each
proof has one lemma per action, and every theorem of the form `[]Inv` rests on an
inductive invariant.

* **`ApprovalGrants_proofs`**. `InductiveInvariant` proves `IndInv`: types, live indexes,
  the bound of the audit ring, and two strengthenings. `SingleUse` alone is not inductive:
  a grant is inserted by a later step than the one that made it, so the invariant also
  says that a token under issue is new, belongs to one caller and carries an unused grant
  (`IssuesAreFresh`), and that a single-use grant that is not consumed has authorized
  nothing (`UsesAreCounted`). `TypeCorrect`, `IndexesAlwaysLive`, `SingleUseHolds` follow;
  `ConsumptionIsFinal` and `UsesCovered` are action properties proved from it.
  `IndexesFollow` is a third: every operator of the store but `Insert` only *sheds* index
  entries, and only those of a grant it retires (`Sheds`, which composes). `UsesAudited`
  needs `AuditInv`: a use is counted under the first lock and written under the second,
  so a grant's uses are its entries in the ring plus the callers about to write one. They
  are finitely many, and what they write is a use. As long as the ring has not been
  trimmed, an operator of the store adds exactly the entries it says (`Trails`).
  `ImplementsVault` is the refinement of `GrantVault`: initial states map to initial
  states, and every step to a step or a stutter. It needs one more strengthening,
  `IssuesAreLawful`: what a caller is about to insert still has the terms it was made with
  (a session grant only for an action that may have one). For every operator of the
  store a lemma says which grants it closes (`ClosesExpired`: of those open, some that the
  call's date finds expired, and the terms of none change); these compose over the
  operators of one step, and `VaultCloses` turns what they say of the store into what the
  vault allows. TLC agrees on the instance of the run `grants` (3.8 million states); it is
  no property of that run, which is at its limit of time without it.
* **`Gateway_proofs`**. One invariant carries all six properties. It says of every
  evaluation under way that its policy and risk fields are what the stages answered
  (`Inspected`), and where it stands (`Progress`): a grant or an approver is only reached
  when no stage refused and both have reported, and a settled evaluation satisfies
  `Outcome`, a property of one record. The stages come first: `PolicyStageSound` and
  `RiskStageSound` say of every answer of an engine or a scanner that a failure is ruled on
  by its own subsystem's mode. `SingleUseAcross` relates evaluations: a token somebody
  rides on is minted and, if it is single-use, consumed in the shared vault, so that
  nobody else can find it (`Riding`, with the store operators that only retire grants).
* **`PolicyStore_proofs`**. `StoreInvariant` proves types, `AvailabilityCoherent`,
  `SignedSourceOnly` and `LoadsAreSigned` together: a load is installed by a later step
  than the one that found it, so what a refresher carries has to be signed already.
  `LoadIsOutcome` is the heart: no load of a deployment that requires signed policy comes
  from the file by itself. `Protected` proves `NeverUnprotected`. `ReportsAreEnforced` is
  about a reader that takes engine and availability apart, and holds for one refresher
  (`OneRefresher`, as in both modes; with two it is false). With a control plane the
  process starts only with an engine. Without one a load is the local file's, never
  stale, and the interval does not pass before it ends, so between its two reads a reader
  sees at most one installation, which says `Available` (`OneInstallation`).
* **`SignedPolicy_proofs`**. `EnforcedIsRecorded` is not inductive: five steps lie between
  an activation and the installation it leads to. `SignedInv` follows the envelope through
  them: the process holds the state its own file holds until it has written the next one
  (`HoldsItsFile`), the envelope in hand was activated against that state
  (`InHandIsActivated`), and what is enforced lies behind it (`EnforcedWasActivated`).
  `ActivationAdvances` ties `activate_signed_policy` to the order of the registers.
  `RegistersMoveForward` is the refinement of `AcceptedRevision`: the initial states map to
  its own, and only the rename of an acceptance file is not a stutter. `AuthenticOnly`
  adds that no trusted key of a production machine is the test key. `KnownGoodIsKept` needs
  a second invariant, `CacheInv`, for the moments when the cache is ahead of the file: what
  is in the cache was activated, stays activatable as the clock goes on, and lies ahead of
  the file of the organization it names.
* **`TelemetryPipeline_proofs`**. `EveryEventAccounted` rests on the order of the channel:
  what is settled, exported now, collected and queued are consecutive stretches of the
  accepted events (`InOrder`), so nothing is lost in the pipeline (`NothingLost`) and
  nothing is settled twice (`SettledOnce`). The counter of queued events lags by at most
  the one event whose sender holds the mutex (`OneSender`).
* **`StdioRelay_proofs`**. For the client's frames the invariant follows the frame in hand
  (`Carried`) and what became of the earlier ones: each has exactly one line to the server,
  one answer, or neither where it asks for none (`OneFate`), and a line that passed was
  allowed with the parameters it carries (`LinesPassed`, `MayPass`). For the server's,
  every frame on the client's stream is the sanitized form of the one of its number
  (`FramesGiven`, listed as `FramesLeaveSanitized`). `RelayLeavesNothingOut` adds: if the
  sanitizer cleans each body by itself (`SanitizerCleans`), the stream is clean under every
  interleaving.
* **`HttpFirewall_proofs`**. The guard taken when a response arrives judges all of its
  calls, although policy and indicators may be replaced between any two (`JudgedUpTo`: the
  calls kept so far are those that guard allows, in order). `NothingLeavesAround` says that
  an exchange has no way out around the masking (`MaskingCleans`, of each body by itself).
* **`ActionPolicy_proofs`**, for the action model. Trust shows only what was earned
  (`Earned`): claims from the wire, the surroundings or a merge fill empty slots only, and
  a binding fills the slot of the agent's id, so that no later claim can take it. One
  lemma per adapter and per builder.
* **`ActionPolicy_proofs`**, for the policy engine. `AnswerIsSeverest` replaces the
  engine's two loops: an answer is the severest effect among the *decisive* rules, those of
  highest priority among the matching ones of each layer. `PolicyRules` traces each rule
  of a compiled policy back to the document and the part it came from, through validation,
  composition, the merges and compilation. Then two policies, or two calls, are
  compared by their decisive rules (`NoLaxer`, `Tightened`): `BaselineIsMandatory`,
  `LocalRulesTighten`, `SelfAssertedLabelsGrantNothing`, `SpellingsAreOne`. The last one
  assumes that normalizing a call's path twice is normalizing it once
  (`NormalizationSettles`). That is true of the instance's calls, and false of paths that
  are escaped more often than `MAX_PERCENT_DECODE_PASSES`: such a path and its normal form
  are two spellings the engine may tell apart.

The attempt to prove `LabelsGrantNothing` showed that it claimed too much: an agent without
a label goes by `local-anonymous`, and a rule may name that label without asking whether
the agent is anonymous. A document of that kind (`labelled`) is now in the run, and the
property excepts such rules as it excepts `agent.anonymous`.

Where a proof needs an induction over the length of a list or the numbers of a range, it
is by a least counterexample among the natural numbers (the library's `WFMin`), which
needs no operator as a parameter: that is how what `Kept` and the flattening of lists
leave, and what a scale's maximum is, became facts to cite.

Assumptions on the constants, each evaluated by TLC in a run. They are the types of the
source and the sizes that make it run: `UsesLimit` and `HistoryCap` positive, natural
instants and bounds, stages and scanners that answer what their types allow (`Gateway`),
frames and bodies of the shapes the models tell apart (`StdioRelay`, `HttpFirewall`),
documents, hash orders and calls of the types of the schema (`PolicyEngine`), a positive
capacity, batch and attempt limit (`TelemetryPipeline`), documents distinct from the markers of a
fault (`PolicyStore`), envelopes with numeric revisions, and, for `AuthenticOnly`,
`TestKeyAssumption` (the test key is not pinned, and no production environment adds it as
an extra key). Four theorems have a hypothesis besides, named above: `OneRefresher`,
`SanitizerCleans`, `MaskingCleans`, `NormalizationSettles`. The instances of the runs meet
all four.

Only model-checked:

* liveness (`EveryActionIsDecided`, `Heals`, `QueuedIsSettled`, `ShutdownStops`,
  `ServerFramesArrive`, `WrapperEnds`, `LocalIndicatorsArrive`): the prover has no rule for
  fairness and `ENABLED`;
* what the scanner's passes make of a text (`SanitizerCleans`, `MaskingCleans`, and with
  them `ServerFramesAreSanitized` and `NothingRecognizedLeaves` without hypotheses), and
  that normalization settles: facts about recursions over data.

## 5. How the modules fit together

`Gateway` takes the policy engine's verdict and the scanner's result as inputs drawn from
everything they may answer; `PolicyEngine` and `DlpScanner` say how they are reached.
`StdioRelay` and `HttpFirewall` take the gateway's outcome the same way, with the liberty
never to answer. `AgentActions` produces the actions `PolicyEngine` judges, and both use
`Taxonomy`. `SignedPolicy!Install` is where `PolicyStore` finds the signed document of its
control plane. Each composition is over the whole range of answers of the part that is
abstracted, so a property of the composition does not depend on what the part does.

## 6. Plan

1. Proofs: that `Gateway`, which composes the store's operators under its own
   interleaving, implements `GrantVault` too; the hypothesis `NormalizationSettles` for
   paths within the limit of passes.
2. The audit sinks (a composite of sinks that fail apart) and the ring of the session
   tracker.

## 7. Not modelled, and why

* Parsing of documents, JSON and environments, regular expressions beyond the patterns
  named in the models, entropy windows, hashing and signatures: inputs or idealized. A
  model checker has nothing to say about text, and ed25519 is assumed.
* The canonical attribute rules and schema versions of the policy language; the byte slice
  of a truncated payload; headers and sockets of the HTTP front end, and a body that fails
  while it is read; the debug log, the command line and failed writes to the client of the
  stdio front end; the fallback of a headless prompt to standard input.
* Telemetry event records and exporters: sequential data handling, beyond the pipeline.
* The pilot's command-line wizard, the demonstration, the artifacts generator, environment
  and redaction helpers: sequential input and output, no state of their own.
* The control-plane client, the HTTP client, the WebAssembly host and tokio are external
  and appear as the answers they may give.

## Running

```
tlc -workers 2 -config ApprovalGrants.cfg MCApprovalGrants
tlapm ApprovalGrants_proofs.tla
```

`PROJECT.json` lists every run with its module, configuration and expected result.
