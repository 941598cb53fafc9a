---------------------------- MODULE PolicyStore ----------------------------
(***************************************************************************)
(* PolicyStore (policy_store.rs): the policy a process enforces, reloaded  *)
(* while the relay tasks read it.                                          *)
(*                                                                         *)
(* A refresh is four steps: the interval check under one lock, the mark    *)
(* under another together with the read of the local file, the answer of   *)
(* the control plane, and the installation under both write locks.  The    *)
(* file, the control plane and other tasks change between them.  A reader  *)
(* takes the snapshot and the availability under two locks.                *)
(*                                                                         *)
(* The control-plane client is external: the open-core build ships a stub, *)
(* and what fetch_latest_policy may answer is taken from its type.         *)
(***************************************************************************)
EXTENDS Integers

CONSTANTS
  Refresher,        \* tasks that call refresh_if_stale (one in each of the two modes)
  Reader,           \* tasks that evaluate actions
  Doc,              \* policy documents
  Broken,           \* documents that parse and do not compile
  Source,           \* where the client says a document came from (PolicySyncSource)
  Config            \* deployments: one is picked and kept for the whole behaviour

PolicySyncSource == {"ControlPlane", "Cache", "LocalYaml"}

LocalFault == {"Unreadable", "Unparsable"}

ASSUME DocAssumption ==
  /\ Broken \subseteq Doc
  /\ Source \subseteq PolicySyncSource
  /\ Doc \cap (LocalFault \cup {"Absent"}) = {}

\* attached: a control-plane client is configured.  requireSigned: unsigned policy
\* is not allowed.  pathMentionsYaml: the policy path contains "yaml", as the
\* default one does.
ASSUME ConfigAssumption ==
  Config \subseteq [attached : BOOLEAN, requireSigned : BOOLEAN, pathMentionsYaml : BOOLEAN]

VARIABLES
  config,        \* the deployment
  local,         \* the policy file: a document, absent, unreadable or not YAML
  remote,        \* what the control plane would answer
  engine,        \* the compiled policy, by the documents it was composed from
  availability,  \* PolicyAvailability
  due,           \* whether POLICY_REFRESH_INTERVAL has passed since last_refresh
  task,          \* what each refresher is in the middle of
  reader         \* what each reader holds

vars == <<config, local, remote, engine, availability, due, task, reader>>

PolicyAvailability ==
  {"Available", "Missing", "Invalid", "Unreadable", "Stale", "RemoteUnavailable"}

HasEngine(a) == a \in {"Available", "Stale"}

Unreachable == [doc |-> "Absent", source |-> "Unreachable"]
Remote == [doc : Doc, source : Source] \cup {Unreachable}
Local == Doc \cup LocalFault \cup {"Absent"}

NoEngine == [from |-> "none", org |-> "Absent", local |-> "Absent"]

-----------------------------------------------------------------------------
(* Loading. *)

\* load_config_optional's error, told apart by its text: the text names the path.
LocalError(l) ==
  IF l = "Unparsable" \/ config.pathMentionsYaml THEN "Invalid" ELSE "Unreadable"

Fault(kind) == [kind |-> kind, engine |-> NoEngine, source |-> "none"]

Loaded(from, org, l, source) ==
  [ kind |-> "Loaded", engine |-> [from |-> from, org |-> org, local |-> l],
    source |-> source ]

\* build_engine_composed for a file that could be read: the local document is a
\* second layer under a remote one, the organization layer by itself otherwise.
Compose(from, org, l, source) ==
  IF {org, l} \cap Broken # {} THEN Fault("Invalid") ELSE Loaded(from, org, l, source)

\* The organization layer by itself; without a file there is no policy.
ComposeLocal(l) ==
  IF l = "Absent" THEN Fault("Absent") ELSE Compose("local", l, "Absent", "LocalYaml")

\* Mutant of FellBack: an unreachable control plane always leaves it to the file.
FellBackUnsigned(l, r) == r = Unreachable /\ l # "Absent"

\* Local YAML stands in for the control plane only where unsigned policy is allowed.
FellBack(l, r) == r = Unreachable /\ l # "Absent" /\ ~config.requireSigned

\* load_policy_engine_with_status for a file that was read or is absent, given what
\* the control plane answered.
Load(l, r) ==
  IF ~config.attached \/ FellBack(l, r) THEN ComposeLocal(l)
  ELSE IF r # Unreachable THEN Compose("remote", r.doc, l, r.source)
  ELSE Fault("RemoteUnavailable")

Idle == [pc |-> "idle"]

\* Bootstrap: a load that fails ends the process; the source of one that succeeds
\* is not kept.
Init ==
  /\ config \in Config
  /\ local \in Local \ LocalFault
  /\ remote \in IF config.attached THEN Remote ELSE {Unreachable}
  /\ LET loaded == Load(local, remote)
     IN  /\ loaded.kind \in {"Loaded", "Absent"}
         /\ engine = loaded.engine
         /\ availability = IF loaded.kind = "Loaded" THEN "Available" ELSE "Missing"
  /\ due = FALSE
  /\ task = [r \in Refresher |-> Idle]
  /\ reader = [x \in Reader |-> Idle]

-----------------------------------------------------------------------------
(* refresh_if_stale. *)

Become(r, state) == task' = [task EXCEPT ![r] = state]

\* The read lock of last_refresh; a task that is not due returns.
CheckDue(r) ==
  /\ task[r] = Idle
  /\ due
  /\ Become(r, [pc |-> "due"])
  /\ UNCHANGED <<config, local, remote, engine, availability, due, reader>>

\* The mark, made before the outcome is known, then the local file: one that cannot
\* be used ends the load before the control plane is asked.
Mark(r) ==
  /\ task[r].pc = "due"
  /\ due' = FALSE
  /\ Become(r, IF local \in LocalFault
                 THEN [pc |-> "installing", outcome |-> Fault(LocalError(local))]
                 ELSE [pc |-> "fetching", local |-> local])
  /\ UNCHANGED <<config, local, remote, engine, availability, reader>>

Fetch(r) ==
  /\ task[r].pc = "fetching"
  /\ Become(r, [pc |-> "installing", outcome |-> Load(task[r].local, remote)])
  /\ UNCHANGED <<config, local, remote, engine, availability, due, reader>>

\* Mutant of NextEngine: the first engine stays.
FirstEngine(outcome) == IF engine = NoEngine THEN outcome.engine ELSE engine

\* Only a successful load replaces the engine.
NextEngine(outcome) == IF outcome.kind = "Loaded" THEN outcome.engine ELSE engine

\* Mutant of NextAvailability: a failed load is tagged without looking at the engine.
AvailabilityOfLoad(outcome) ==
  CASE outcome.kind = "Loaded" -> IF outcome.source = "Cache" THEN "Stale" ELSE "Available"
    [] outcome.kind = "Absent" -> "Missing"
    [] OTHER -> outcome.kind

NextAvailability(outcome) ==
  CASE outcome.kind = "Loaded" -> IF outcome.source = "Cache" THEN "Stale" ELSE "Available"
    [] outcome.kind # "Loaded" /\ engine # NoEngine -> "Stale"
    [] outcome.kind = "Absent" /\ engine = NoEngine -> "Missing"
    [] OTHER -> outcome.kind

Install(r) ==
  /\ task[r].pc = "installing"
  /\ engine' = NextEngine(task[r].outcome)
  /\ availability' = NextAvailability(task[r].outcome)
  /\ Become(r, Idle)
  /\ UNCHANGED <<config, local, remote, due, reader>>

\* The steps a refresher takes by itself once it is called.
Refreshes(r) == CheckDue(r) \/ Mark(r) \/ Fetch(r) \/ Install(r)

-----------------------------------------------------------------------------
(* Readers: snapshot() and availability(), then an evaluation under the pair. *)

\* Mutant of Reported: the store's word is passed on.
ReportedAsRead(e, a) == a

\* What the outcome says of the policy when there is an engine.
EngineAvailability(a) == IF a = "Stale" THEN "Stale" ELSE "Available"

\* What it says, with or without one: unconfigured never reports Available.
Reported(e, a) ==
  IF e # NoEngine THEN EngineAvailability(a)
  ELSE IF a = "Available" THEN "Missing" ELSE a

Hold(x, state) == reader' = [reader EXCEPT ![x] = state]

Snapshot(x) ==
  /\ reader[x] = Idle
  /\ Hold(x, [pc |-> "holding", engine |-> engine])
  /\ UNCHANGED <<config, local, remote, engine, availability, due, task>>

Evaluate(x) ==
  /\ reader[x].pc = "holding"
  /\ Hold(x, [pc |-> "evaluated", engine |-> reader[x].engine,
              reported |-> Reported(reader[x].engine, availability)])
  /\ UNCHANGED <<config, local, remote, engine, availability, due, task>>

Done(x) ==
  /\ reader[x].pc = "evaluated"
  /\ Hold(x, Idle)
  /\ UNCHANGED <<config, local, remote, engine, availability, due, task>>

-----------------------------------------------------------------------------
(* The surroundings. *)

\* Somebody edits, moves or breaks the policy file.
EditLocal ==
  /\ local' \in Local
  /\ UNCHANGED <<config, remote, engine, availability, due, task, reader>>

\* The control plane publishes another document, or goes away, or comes back.
ChangeRemote ==
  /\ config.attached
  /\ remote' \in Remote
  /\ UNCHANGED <<config, local, engine, availability, due, task, reader>>

\* The refresh interval passes.  It is longer than a reader takes between its two
\* reads, and than a load that has no control plane to wait for.
Elapse ==
  /\ \A x \in Reader : reader[x].pc # "holding"
  /\ config.attached \/ \A r \in Refresher : task[r] = Idle
  /\ due' = TRUE
  /\ UNCHANGED <<config, local, remote, engine, availability, task, reader>>

Next ==
  \/ \E r \in Refresher : Refreshes(r)
  \/ \E x \in Reader : Snapshot(x) \/ Evaluate(x) \/ Done(x)
  \/ EditLocal
  \/ ChangeRemote
  \/ Elapse

Spec == Init /\ [][Next]_vars

\* Serve mode: a task calls refresh_if_stale on every tick of a 5 s interval, and
\* a fetch is assumed to end (it has a timeout in the client).  A reader makes its
\* two reads without awaiting anything; the interval passes whatever readers do.
FairSpec ==
  /\ Spec
  /\ SF_vars(Elapse)
  /\ \A r \in Refresher : WF_vars(Refreshes(r))
  /\ \A x \in Reader : WF_vars(Evaluate(x))

-----------------------------------------------------------------------------
(* What the store promises. *)

Engine ==
  [from : {"remote", "local"}, org : Doc, local : Doc \cup {"Absent"}] \cup {NoEngine}

Outcome ==
  [kind : {"Loaded"}, engine : Engine \ {NoEngine}, source : PolicySyncSource]
    \cup {Fault(k) : k \in {"Absent", "Unreadable", "Invalid", "RemoteUnavailable"}}

TaskState ==
  {Idle} \cup [pc : {"due"}] \cup [pc : {"fetching"}, local : Local \ LocalFault]
    \cup [pc : {"installing"}, outcome : Outcome]

ReaderState ==
  {Idle} \cup [pc : {"holding"}, engine : Engine]
    \cup [pc : {"evaluated"}, engine : Engine, reported : PolicyAvailability]

\* Every lock and every task holds a value of its declared type.
TypeOK ==
  /\ config \in Config
  /\ local \in Local
  /\ remote \in Remote
  /\ engine \in Engine
  /\ availability \in PolicyAvailability
  /\ due \in BOOLEAN
  /\ task \in [Refresher -> TaskState]
  /\ reader \in [Reader -> ReaderState]

\* The availability never contradicts the engine it is stored next to, in whatever
\* order overlapping refreshes install ("this may only be Available or Stale when
\* there is an engine to run": has_engine).
AvailabilityCoherent == HasEngine(availability) = (engine # NoEngine)

\* Where signed policy is required and a control plane is configured, the process
\* never enforces the local file by itself: not at startup, not after the control
\* plane went away under a running refresh ("do not silently fall back to weaker
\* unsigned local YAML").
SignedSourceOnly ==
  config.attached /\ config.requireSigned =>
    /\ engine.from # "local"
    /\ \A x \in Reader : reader[x].pc # "idle" => reader[x].engine.from # "local"

\* What SignedSourceOnly needs to be inductive: no load under way brings one in.
LoadsAreSigned ==
  config.attached /\ config.requireSigned =>
    \A r \in Refresher :
      task[r].pc = "installing" => task[r].outcome.engine.from # "local"

\* "Never downgrades to unprotected": once a policy is enforced, some policy is
\* enforced from then on, however its sources disappear or break.
NeverUnprotected == [][engine # NoEngine => engine' # NoEngine]_vars

\* The availability an outcome reports says whether the evaluation ran a policy,
\* although the two were read under different locks and a refresh may have installed
\* in between (EngineAvailability and Reported reconcile the pair).  The two
\* modes have one refresher each; two could install between the reads.
ReportedIsEnforced ==
  \A x \in Reader :
    reader[x].pc = "evaluated" =>
      HasEngine(reader[x].reported) = (reader[x].engine # NoEngine)

\* The store heals: sources that stay as they are, and can be loaded, end up
\* enforced for good, although a load reads the file and the control plane at
\* different moments, installs later than both, and marks its interval before it
\* knows whether it succeeds.
Heals ==
  \A l \in Local \ LocalFault, r \in Remote :
    Load(l, r).kind = "Loaded" =>
      (<>[](local = l /\ remote = r) => <>[](engine = Load(l, r).engine))

=============================================================================
