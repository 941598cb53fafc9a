------------------------- MODULE PolicyStore_proofs -------------------------
(***************************************************************************)
(* Proofs about PolicyStore: its type invariant and its safety properties, *)
(* for every set of refreshers, readers, documents and deployments.        *)
(***************************************************************************)
EXTENDS PolicyStore, TLAPS

\* The inductive invariant: the four invariants need one another.  SignedSourceOnly
\* needs LoadsAreSigned, since a load is installed by a later step than the one that
\* found it, and both need the types of what a task carries from step to step.
StoreInv == TypeOK /\ AvailabilityCoherent /\ SignedSourceOnly /\ LoadsAreSigned

\* What one of the faults of a load leaves to be installed.
FaultKind == {"Absent", "Unreadable", "Invalid", "RemoteUnavailable"}

\* A load that failed is an outcome, and carries no engine (the error returns of
\* load_policy_engine_with_status).
LEMMA FaultIsOutcome ==
  ASSUME NEW k \in FaultKind
  PROVE  /\ Fault(k) \in Outcome
         /\ Fault(k).kind = k
         /\ Fault(k).engine = NoEngine
BY DEF Fault, Outcome, FaultKind

\* A load that succeeded carries an engine composed of the documents it read.
LEMMA LoadedIsOutcome ==
  ASSUME NEW from \in {"remote", "local"}, NEW org \in Doc,
         NEW l \in Doc \cup {"Absent"}, NEW source \in PolicySyncSource
  PROVE  /\ Loaded(from, org, l, source) \in Outcome
         /\ Loaded(from, org, l, source).engine.from = from
<1> DEFINE e == [from |-> from, org |-> org, local |-> l]
<1>1. e \in Engine /\ e # NoEngine /\ e.from = from
  BY DEF Engine, NoEngine
<1>2. e \in Engine \ {NoEngine}
  BY <1>1
<1>3. Loaded(from, org, l, source) = [kind |-> "Loaded", engine |-> e, source |-> source]
  BY DEF Loaded
<1> HIDE DEF e
<1>4. [kind |-> "Loaded", engine |-> e, source |-> source]
        \in [kind : {"Loaded"}, engine : Engine \ {NoEngine}, source : PolicySyncSource]
  BY <1>2
<1>5. [kind |-> "Loaded", engine |-> e, source |-> source].engine = e
  OBVIOUS
<1> QED
  BY <1>1, <1>3, <1>4, <1>5 DEF Outcome

\* build_engine_composed yields an outcome: a document that does not compile is a
\* fault, any other an engine from where it was asked to come from.
LEMMA ComposeIsOutcome ==
  ASSUME NEW from \in {"remote", "local"}, NEW org \in Doc,
         NEW l \in Doc \cup {"Absent"}, NEW source \in PolicySyncSource
  PROVE  /\ Compose(from, org, l, source) \in Outcome
         /\ Compose(from, org, l, source).engine.from \in {from, "none"}
<1>1. Fault("Invalid") \in Outcome /\ Fault("Invalid").engine.from = "none"
  BY FaultIsOutcome DEF FaultKind, NoEngine
<1> QED
  BY <1>1, LoadedIsOutcome DEF Compose

\* A load that got as far as the control plane yields an outcome, and where signed
\* policy is required and a control plane is configured it never brings in the local
\* file by itself ("do not silently fall back to weaker unsigned local YAML").
LEMMA LoadIsOutcome ==
  ASSUME NEW l \in Local \ LocalFault, NEW r \in Remote, config \in Config
  PROVE  /\ Load(l, r) \in Outcome
         /\ config.attached /\ config.requireSigned => Load(l, r).engine.from # "local"
<1> USE ConfigAssumption
<1>1. l \in Doc \cup {"Absent"}
  BY DEF Local
<1>2. config.attached \in BOOLEAN /\ config.requireSigned \in BOOLEAN
  OBVIOUS
<1>3. ComposeLocal(l) \in Outcome
  <2>1. CASE l = "Absent"
    BY <2>1, FaultIsOutcome DEF ComposeLocal, FaultKind
  <2>2. CASE l # "Absent"
    <3>1. l \in Doc /\ "Absent" \in Doc \cup {"Absent"} /\ "LocalYaml" \in PolicySyncSource
      BY <1>1, <2>2 DEF PolicySyncSource
    <3> QED
      BY <2>2, <3>1, ComposeIsOutcome DEF ComposeLocal
  <2> QED
    BY <2>1, <2>2
<1>4. CASE ~config.attached \/ FellBack(l, r)
  <2>1. Load(l, r) = ComposeLocal(l)
    BY <1>4 DEF Load
  <2> QED
    BY <1>2, <1>3, <1>4, <2>1 DEF FellBack
<1>5. CASE config.attached /\ ~FellBack(l, r) /\ r # Unreachable
  <2>1. r.doc \in Doc /\ r.source \in PolicySyncSource
    BY <1>5, DocAssumption DEF Remote
  <2>2. Load(l, r) = Compose("remote", r.doc, l, r.source)
    BY <1>5 DEF Load
  <2> QED
    BY <1>1, <2>1, <2>2, ComposeIsOutcome
<1>6. CASE config.attached /\ ~FellBack(l, r) /\ r = Unreachable
  <2>1. Load(l, r) = Fault("RemoteUnavailable")
    BY <1>6 DEF Load
  <2> QED
    BY <2>1, FaultIsOutcome DEF FaultKind, NoEngine
<1> QED
  BY <1>2, <1>4, <1>5, <1>6

\* What a task is in the middle of, by its control state.
LEMMA TaskShapes ==
  ASSUME NEW t \in TaskState
  PROVE  /\ t.pc = "fetching" => t.local \in Local \ LocalFault
         /\ t.pc = "installing" => t.outcome \in Outcome
BY DEF TaskState, Idle

\* The kinds of outcome: an engine, or one of the faults.
LEMMA OutcomeKinds ==
  ASSUME NEW o \in Outcome
  PROVE  \/ o.kind = "Loaded" /\ o.engine \in Engine /\ o.engine # NoEngine
         \/ o.kind \in FaultKind /\ o.engine = NoEngine
BY DEF Outcome, FaultKind, Fault

-----------------------------------------------------------------------------
(* The initial states. *)

\* Startup: the process enforces what its first load found, or nothing, and goes on
\* only when that load found a policy or no policy at all.
LEMMA InitStoreInv == Init => StoreInv
<1> SUFFICES ASSUME Init PROVE StoreInv
  OBVIOUS
<1> USE DEF Init
<1> DEFINE loaded == Load(local, remote)
<1>1. /\ config \in Config
      /\ local \in Local \ LocalFault
      /\ remote \in Remote
  BY DEF Remote
<1>2. /\ loaded \in Outcome
      /\ config.attached /\ config.requireSigned => loaded.engine.from # "local"
  BY <1>1, LoadIsOutcome
<1>3. /\ loaded.kind \in {"Loaded", "Absent"}
      /\ engine = loaded.engine
      /\ availability = IF loaded.kind = "Loaded" THEN "Available" ELSE "Missing"
  OBVIOUS
<1>4. /\ task = [r \in Refresher |-> Idle]
      /\ reader = [x \in Reader |-> Idle]
      /\ due = FALSE
  OBVIOUS
<1> HIDE DEF loaded, Init
<1>5. \/ loaded.kind = "Loaded" /\ engine \in Engine /\ engine # NoEngine
      \/ loaded.kind = "Absent" /\ engine = NoEngine
  BY <1>2, <1>3, OutcomeKinds DEF FaultKind
<1>6. TypeOK
  <2>1. engine \in Engine
    BY <1>5 DEF Engine
  <2>2. availability \in PolicyAvailability
    BY <1>3 DEF PolicyAvailability
  <2>3. task \in [Refresher -> TaskState] /\ reader \in [Reader -> ReaderState]
    BY <1>4 DEF TaskState, ReaderState
  <2> QED
    BY <1>1, <1>4, <2>1, <2>2, <2>3 DEF TypeOK
<1>7. AvailabilityCoherent
  BY <1>3, <1>5 DEF AvailabilityCoherent, HasEngine
<1>8. SignedSourceOnly
  BY <1>2, <1>3, <1>4 DEF SignedSourceOnly, Idle
<1>9. LoadsAreSigned
  BY <1>4 DEF LoadsAreSigned, Idle
<1> QED
  BY <1>6, <1>7, <1>8, <1>9 DEF StoreInv

-----------------------------------------------------------------------------
(* The steps. *)

\* A refresher that goes on to another state of its own, where nothing else changes
\* but whether the interval has passed: refresh_if_stale up to its installation.
LEMMA RefresherGoesOn ==
  ASSUME StoreInv, NEW r \in Refresher, NEW t \in TaskState, Become(r, t),
         due' \in BOOLEAN,
         UNCHANGED <<config, local, remote, engine, availability, reader>>,
         config.attached /\ config.requireSigned =>
           (t.pc = "installing" => t.outcome.engine.from # "local")
  PROVE  StoreInv'
<1>1. task' = [task EXCEPT ![r] = t]
  BY DEF Become
<1>2. task \in [Refresher -> TaskState]
  BY DEF StoreInv, TypeOK
<1>3. TypeOK'
  <2>1. task' \in [Refresher -> TaskState]
    BY <1>1, <1>2
  <2> QED
    BY <2>1 DEF StoreInv, TypeOK
<1>4. AvailabilityCoherent'
  BY DEF StoreInv, AvailabilityCoherent
<1>5. SignedSourceOnly'
  BY DEF StoreInv, SignedSourceOnly
<1>6. LoadsAreSigned'
  <2> SUFFICES ASSUME config.attached, config.requireSigned, NEW q \in Refresher,
                      task'[q].pc = "installing"
               PROVE  task'[q].outcome.engine.from # "local"
    BY DEF LoadsAreSigned
  <2>1. CASE q = r
    BY <1>1, <1>2, <2>1
  <2>2. CASE q # r
    <3>1. task'[q] = task[q]
      BY <1>1, <1>2, <2>2
    <3> QED
      BY <3>1 DEF StoreInv, LoadsAreSigned
  <2> QED
    BY <2>1, <2>2
<1> QED
  BY <1>3, <1>4, <1>5, <1>6 DEF StoreInv

\* refresh_if_stale finds the interval passed.
LEMMA CheckDueStep == ASSUME StoreInv, NEW r \in Refresher, CheckDue(r) PROVE StoreInv'
<1> DEFINE t == [pc |-> "due"]
<1>1. t \in TaskState /\ t.pc # "installing"
  BY DEF TaskState
<1>2. Become(r, t) /\ due' \in BOOLEAN
       /\ UNCHANGED <<config, local, remote, engine, availability, reader>>
  BY DEF CheckDue, StoreInv, TypeOK
<1> HIDE DEF t
<1> QED
  BY <1>1, <1>2, RefresherGoesOn

\* It marks the interval and reads the local file.
LEMMA MarkStep == ASSUME StoreInv, NEW r \in Refresher, Mark(r) PROVE StoreInv'
<1> DEFINE failed == [pc |-> "installing", outcome |-> Fault(LocalError(local))]
           fetching == [pc |-> "fetching", local |-> local]
<1>1. due' \in BOOLEAN /\ UNCHANGED <<config, local, remote, engine, availability, reader>>
  BY DEF Mark
<1>2. Become(r, IF local \in LocalFault THEN failed ELSE fetching)
  BY DEF Mark
<1>3. CASE local \in LocalFault
  <2>1. LocalError(local) \in FaultKind
    BY DEF LocalError, FaultKind
  <2>2. /\ Fault(LocalError(local)) \in Outcome
        /\ Fault(LocalError(local)).engine.from # "local"
    BY <2>1, FaultIsOutcome DEF NoEngine
  <2>3. failed \in TaskState /\ failed.outcome.engine.from # "local"
    BY <2>2 DEF TaskState
  <2>4. Become(r, failed)
    BY <1>2, <1>3
  <2> HIDE DEF failed
  <2> QED
    BY <1>1, <2>3, <2>4, RefresherGoesOn
<1>4. CASE local \notin LocalFault
  <2>1. fetching \in TaskState /\ fetching.pc # "installing"
    BY <1>4 DEF TaskState, StoreInv, TypeOK
  <2>2. Become(r, fetching)
    BY <1>2, <1>4
  <2> HIDE DEF fetching
  <2> QED
    BY <1>1, <2>1, <2>2, RefresherGoesOn
<1> QED
  BY <1>3, <1>4

\* The control plane answers, and the load ends.
LEMMA FetchStep == ASSUME StoreInv, NEW r \in Refresher, Fetch(r) PROVE StoreInv'
<1> DEFINE o == Load(task[r].local, remote)
           t == [pc |-> "installing", outcome |-> o]
<1>1. task[r] \in TaskState /\ remote \in Remote /\ config \in Config
  BY DEF StoreInv, TypeOK
<1>2. task[r].local \in Local \ LocalFault
  BY <1>1, TaskShapes DEF Fetch
<1>3. /\ o \in Outcome
      /\ config.attached /\ config.requireSigned => o.engine.from # "local"
  BY <1>1, <1>2, LoadIsOutcome
<1>4. Become(r, t) /\ due' \in BOOLEAN
       /\ UNCHANGED <<config, local, remote, engine, availability, reader>>
  BY DEF Fetch, StoreInv, TypeOK
<1> HIDE DEF o
<1>5. t \in TaskState /\ t.outcome = o
  BY <1>3 DEF TaskState
<1> HIDE DEF t
<1> QED
  BY <1>3, <1>4, <1>5, RefresherGoesOn

\* What an installation leaves in the two locks, whichever load it installs and
\* whatever another one installed before: the engine and an availability that says
\* whether there is one.
LEMMA Installed ==
  ASSUME NEW o \in Outcome, engine \in Engine
  PROVE  /\ NextEngine(o) \in Engine
         /\ NextEngine(o) \in {engine, o.engine}
         /\ engine # NoEngine => NextEngine(o) # NoEngine
         /\ NextAvailability(o) \in PolicyAvailability
         /\ HasEngine(NextAvailability(o)) = (NextEngine(o) # NoEngine)
<1>1. CASE o.kind = "Loaded"
  <2>1. o.engine \in Engine /\ o.engine # NoEngine
    BY <1>1, OutcomeKinds DEF FaultKind
  <2>2. NextEngine(o) = o.engine
    BY <1>1 DEF NextEngine
  <2>3. NextAvailability(o) \in {"Available", "Stale"}
    BY <1>1 DEF NextAvailability
  <2> QED
    BY <2>1, <2>2, <2>3 DEF HasEngine, PolicyAvailability
<1>2. CASE o.kind # "Loaded"
  <2>1. o.kind \in FaultKind
    BY <1>2, OutcomeKinds
  <2>2. NextEngine(o) = engine
    BY <1>2 DEF NextEngine
  <2>3. CASE engine # NoEngine
    <3>1. NextAvailability(o) = "Stale"
      BY <1>2, <2>3 DEF NextAvailability
    <3> QED
      BY <2>2, <2>3, <3>1 DEF HasEngine, PolicyAvailability
  <2>4. CASE engine = NoEngine
    <3>1. NextAvailability(o) \in {"Missing", "Unreadable", "Invalid", "RemoteUnavailable"}
      BY <1>2, <2>1, <2>4 DEF NextAvailability, FaultKind
    <3> QED
      BY <2>2, <2>4, <3>1 DEF HasEngine, PolicyAvailability
  <2> QED
    BY <2>3, <2>4
<1> QED
  BY <1>1, <1>2

\* The installation under both write locks.
LEMMA InstallStep == ASSUME StoreInv, NEW r \in Refresher, Install(r) PROVE StoreInv'
<1> DEFINE o == task[r].outcome
<1>1. /\ task \in [Refresher -> TaskState]
      /\ task[r].pc = "installing"
      /\ engine \in Engine
  BY DEF Install, StoreInv, TypeOK
<1>2. o \in Outcome
  BY <1>1, TaskShapes
<1>3. /\ engine' = NextEngine(o)
      /\ availability' = NextAvailability(o)
      /\ task' = [task EXCEPT ![r] = Idle]
      /\ UNCHANGED <<config, local, remote, due, reader>>
  BY DEF Install, Become
<1>4. config.attached /\ config.requireSigned => o.engine.from # "local"
  BY <1>1 DEF StoreInv, LoadsAreSigned
<1> HIDE DEF o
<1>5. TypeOK'
  <2>1. engine' \in Engine /\ availability' \in PolicyAvailability
    BY <1>1, <1>2, <1>3, Installed
  <2>2. task' \in [Refresher -> TaskState]
    BY <1>1, <1>3 DEF TaskState
  <2> QED
    BY <1>3, <2>1, <2>2 DEF StoreInv, TypeOK
<1>6. AvailabilityCoherent'
  BY <1>1, <1>2, <1>3, Installed DEF AvailabilityCoherent, HasEngine
<1>7. SignedSourceOnly'
  <2>1. engine' \in {engine, o.engine}
    BY <1>1, <1>2, <1>3, Installed
  <2> QED
    BY <1>3, <1>4, <2>1 DEF StoreInv, SignedSourceOnly
<1>8. LoadsAreSigned'
  <2> SUFFICES ASSUME config.attached, config.requireSigned, NEW q \in Refresher,
                      task'[q].pc = "installing"
               PROVE  task'[q].outcome.engine.from # "local"
    BY <1>3 DEF LoadsAreSigned
  <2>1. q # r /\ task'[q] = task[q]
    BY <1>1, <1>3 DEF Idle
  <2> QED
    BY <2>1 DEF StoreInv, LoadsAreSigned
<1> QED
  BY <1>5, <1>6, <1>7, <1>8 DEF StoreInv

\* A reader that goes on with an engine that was the store's own when it read it:
\* snapshot(), availability() and the end of an evaluation.
LEMMA ReaderGoesOn ==
  ASSUME StoreInv, NEW x \in Reader, NEW state \in ReaderState, Hold(x, state),
         UNCHANGED <<config, local, remote, engine, availability, due, task>>,
         config.attached /\ config.requireSigned =>
           (state.pc # "idle" => state.engine.from # "local")
  PROVE  StoreInv'
<1>1. reader' = [reader EXCEPT ![x] = state]
  BY DEF Hold
<1>2. reader \in [Reader -> ReaderState]
  BY DEF StoreInv, TypeOK
<1>3. TypeOK'
  <2>1. reader' \in [Reader -> ReaderState]
    BY <1>1, <1>2
  <2> QED
    BY <2>1 DEF StoreInv, TypeOK
<1>4. AvailabilityCoherent' /\ LoadsAreSigned'
  BY DEF StoreInv, AvailabilityCoherent, LoadsAreSigned
<1>5. SignedSourceOnly'
  <2> SUFFICES ASSUME config.attached, config.requireSigned
               PROVE  /\ engine.from # "local"
                      /\ \A y \in Reader :
                           reader'[y].pc # "idle" => reader'[y].engine.from # "local"
    BY DEF SignedSourceOnly
  <2>1. \A y \in Reader : reader'[y] = IF y = x THEN state ELSE reader[y]
    BY <1>1, <1>2
  <2> QED
    BY <2>1 DEF StoreInv, SignedSourceOnly
<1> QED
  BY <1>3, <1>4, <1>5 DEF StoreInv

\* A reader's steps keep the invariant.
LEMMA ReaderStep ==
  ASSUME StoreInv, NEW x \in Reader, Snapshot(x) \/ Evaluate(x) \/ Done(x)
  PROVE  StoreInv'
<1>1. engine \in Engine /\ availability \in PolicyAvailability /\ reader[x] \in ReaderState
  BY DEF StoreInv, TypeOK
<1>2. CASE Snapshot(x)
  <2> DEFINE state == [pc |-> "holding", engine |-> engine]
  <2>1. state \in ReaderState /\ state.engine = engine
    BY <1>1 DEF ReaderState
  <2>2. Hold(x, state) /\ UNCHANGED <<config, local, remote, engine, availability, due, task>>
    BY <1>2 DEF Snapshot
  <2> HIDE DEF state
  <2> QED
    BY <2>1, <2>2, ReaderGoesOn DEF StoreInv, SignedSourceOnly
<1>3. CASE Evaluate(x)
  <2> DEFINE state == [pc |-> "evaluated", engine |-> reader[x].engine,
                       reported |-> Reported(reader[x].engine, availability)]
  <2>1. reader[x].pc = "holding" /\ reader[x].engine \in Engine
    BY <1>1, <1>3 DEF Evaluate, ReaderState, Idle
  <2>2. Reported(reader[x].engine, availability) \in PolicyAvailability
    BY <1>1 DEF Reported, EngineAvailability, PolicyAvailability
  <2>3. state \in ReaderState /\ state.engine = reader[x].engine
    BY <2>1, <2>2 DEF ReaderState
  <2>4. Hold(x, state) /\ UNCHANGED <<config, local, remote, engine, availability, due, task>>
    BY <1>3 DEF Evaluate
  <2> HIDE DEF state
  <2> QED
    BY <2>1, <2>3, <2>4, ReaderGoesOn DEF StoreInv, SignedSourceOnly
<1>4. CASE Done(x)
  <2>1. Idle \in ReaderState /\ Idle.pc = "idle"
    BY DEF ReaderState, Idle
  <2>2. Hold(x, Idle) /\ UNCHANGED <<config, local, remote, engine, availability, due, task>>
    BY <1>4 DEF Done
  <2> QED
    BY <2>1, <2>2, ReaderGoesOn
<1> QED
  BY <1>2, <1>3, <1>4

\* The file, the control plane and the clock may change at any moment.
LEMMA SurroundingsStep ==
  ASSUME StoreInv, EditLocal \/ ChangeRemote \/ Elapse
  PROVE  StoreInv'
<1>1. /\ UNCHANGED <<config, engine, availability, task, reader>>
      /\ local' \in Local /\ remote' \in Remote /\ due' \in BOOLEAN
  BY DEF EditLocal, ChangeRemote, Elapse, StoreInv, TypeOK
<1>2. TypeOK'
  BY <1>1 DEF StoreInv, TypeOK
<1>3. AvailabilityCoherent' /\ SignedSourceOnly' /\ LoadsAreSigned'
  BY <1>1 DEF StoreInv, AvailabilityCoherent, SignedSourceOnly, LoadsAreSigned
<1> QED
  BY <1>2, <1>3 DEF StoreInv

\* Every step of the store keeps the invariant.
LEMMA NextStoreInv == StoreInv /\ [Next]_vars => StoreInv'
<1> SUFFICES ASSUME StoreInv, [Next]_vars PROVE StoreInv'
  OBVIOUS
<1>1. CASE UNCHANGED vars
  BY <1>1 DEF vars, StoreInv, TypeOK, AvailabilityCoherent, SignedSourceOnly, LoadsAreSigned
<1>2. CASE \E r \in Refresher : Refreshes(r)
  BY <1>2, CheckDueStep, MarkStep, FetchStep, InstallStep DEF Refreshes
<1>3. CASE \E x \in Reader : Snapshot(x) \/ Evaluate(x) \/ Done(x)
  BY <1>3, ReaderStep
<1>4. CASE EditLocal \/ ChangeRemote \/ Elapse
  BY <1>4, SurroundingsStep
<1> QED
  BY <1>1, <1>2, <1>3, <1>4 DEF Next

-----------------------------------------------------------------------------
(* What an outcome reports. *)

\* Each of the two modes has one task that refreshes.
OneRefresher == \A r, q \in Refresher : r = q

\* With a control plane the process starts only with a policy, so that only a
\* deployment without one can have none.
AttachedHasEngine == config.attached => engine # NoEngine

\* Without a control plane a load comes from the local file: it is never stale.
LocalLoads ==
  ~config.attached =>
    \A r \in Refresher :
      task[r].pc = "installing" /\ task[r].outcome.kind = "Loaded"
        => task[r].outcome.source = "LocalYaml"

\* Without a control plane the next interval does not pass before a load ends.
LoadsAreShort ==
  ~config.attached =>
    \A r \in Refresher : task[r].pc \in {"fetching", "installing"} => ~due

\* A reader that read no engine, and whose availability is now that of an engine,
\* saw one installation go by and sees no other: the first installation of an
\* engine says Available, a second might say Stale.
OneInstallation ==
  \A x \in Reader :
    reader[x].pc = "holding" /\ reader[x].engine = NoEngine /\ engine # NoEngine =>
      /\ availability = "Available"
      /\ ~due
      /\ \A r \in Refresher : task[r] = Idle

ReportInv ==
  AttachedHasEngine /\ LocalLoads /\ LoadsAreShort /\ OneInstallation /\ ReportedIsEnforced

\* Where there is no control plane a load of an engine has the local file as source.
LEMMA LocalLoadSource ==
  ASSUME NEW l, NEW r, ~config.attached, Load(l, r).kind = "Loaded"
  PROVE  Load(l, r).source = "LocalYaml"
<1>1. Load(l, r) = ComposeLocal(l)
  BY DEF Load
<1>2. l # "Absent"
  BY <1>1 DEF ComposeLocal, Fault
<1>3. Load(l, r) = IF {l, "Absent"} \cap Broken # {} THEN Fault("Invalid")
                   ELSE Loaded("local", l, "Absent", "LocalYaml")
  BY <1>1, <1>2 DEF ComposeLocal, Compose
<1>4. Load(l, r) = Loaded("local", l, "Absent", "LocalYaml")
  BY <1>3 DEF Fault
<1> QED
  BY <1>4 DEF Loaded

\* With a control plane a load finds the policy missing only if it answers nothing
\* and there is no file: it is never "no policy".
LEMMA AttachedNeverAbsent ==
  ASSUME NEW l \in Local \ LocalFault, NEW r \in Remote, config.attached
  PROVE  Load(l, r).kind # "Absent"
<1>1. CASE FellBack(l, r)
  <2>1. Load(l, r) = Compose("local", l, "Absent", "LocalYaml")
    BY <1>1 DEF Load, ComposeLocal, FellBack
  <2> QED
    BY <2>1 DEF Compose, Fault, Loaded
<1>2. CASE ~FellBack(l, r) /\ r # Unreachable
  <2>1. Load(l, r) = Compose("remote", r.doc, l, r.source)
    BY <1>2 DEF Load
  <2> QED
    BY <2>1 DEF Compose, Fault, Loaded
<1>3. CASE ~FellBack(l, r) /\ r = Unreachable
  BY <1>3 DEF Load, Fault
<1> QED
  BY <1>1, <1>2, <1>3

\* Startup: nobody reads or refreshes yet.
LEMMA InitReportInv == Init => ReportInv
<1> SUFFICES ASSUME Init PROVE ReportInv
  OBVIOUS
<1> DEFINE loaded == Load(local, remote)
<1>1. /\ local \in Local \ LocalFault
      /\ remote \in Remote
      /\ config \in Config
      /\ loaded.kind \in {"Loaded", "Absent"}
      /\ engine = loaded.engine
      /\ task = [r \in Refresher |-> Idle]
      /\ reader = [x \in Reader |-> Idle]
  BY DEF Init, Remote
<1>2. AttachedHasEngine
  <2> SUFFICES ASSUME config.attached PROVE engine # NoEngine
    BY DEF AttachedHasEngine
  <2>1. loaded.kind = "Loaded"
    BY <1>1, AttachedNeverAbsent
  <2>2. loaded \in Outcome
    BY <1>1, LoadIsOutcome
  <2> HIDE DEF loaded
  <2> QED
    BY <1>1, <2>1, <2>2, OutcomeKinds DEF FaultKind
<1> QED
  BY <1>1, <1>2 DEF ReportInv, LocalLoads, LoadsAreShort, OneInstallation,
                    ReportedIsEnforced, Idle

\* A refresher up to its installation: what readers hold stays, and so does what they
\* were promised, since a task that goes on is not idle.
LEMMA RefresherReports ==
  ASSUME StoreInv, ReportInv, NEW r \in Refresher, NEW t \in TaskState, Become(r, t),
         OneRefresher,
         UNCHANGED <<config, engine, availability, reader>>,
         task[r] # Idle \/ due, due' => due,
         t.pc \in {"fetching", "installing"} => ~due' \/ config.attached,
         ~config.attached /\ t.pc = "installing" /\ t.outcome.kind = "Loaded"
           => t.outcome.source = "LocalYaml"
  PROVE  ReportInv'
<1>1. task' = [task EXCEPT ![r] = t] /\ task \in [Refresher -> TaskState]
  BY DEF Become, StoreInv, TypeOK
<1>2. \A q \in Refresher : q = r /\ task'[q] = t
  BY <1>1 DEF OneRefresher
<1>3. AttachedHasEngine' /\ ReportedIsEnforced'
  BY DEF ReportInv, AttachedHasEngine, ReportedIsEnforced
<1>4. LocalLoads' /\ LoadsAreShort'
  BY <1>2 DEF LocalLoads, LoadsAreShort
<1>5. OneInstallation'
  BY DEF ReportInv, OneInstallation
<1> QED
  BY <1>3, <1>4, <1>5 DEF ReportInv

\* A refresher's steps before it installs.
LEMMA PreparingReports ==
  ASSUME StoreInv, ReportInv, OneRefresher, NEW r \in Refresher,
         CheckDue(r) \/ Mark(r) \/ Fetch(r)
  PROVE  ReportInv'
<1>1. CASE CheckDue(r)
  <2> DEFINE t == [pc |-> "due"]
  <2>1. t \in TaskState /\ t.pc \notin {"fetching", "installing"}
    BY DEF TaskState
  <2>2. Become(r, t) /\ due /\ UNCHANGED <<config, engine, availability, reader>>
    BY <1>1 DEF CheckDue
  <2> HIDE DEF t
  <2> QED
    BY <2>1, <2>2, RefresherReports
<1>2. CASE Mark(r)
  <2> DEFINE failed == [pc |-> "installing", outcome |-> Fault(LocalError(local))]
             fetching == [pc |-> "fetching", local |-> local]
             t == IF local \in LocalFault THEN failed ELSE fetching
  <2>1. /\ task[r].pc = "due"
        /\ ~due'
        /\ Become(r, t)
        /\ UNCHANGED <<config, engine, availability, reader>>
    BY <1>2 DEF Mark
  <2>2. LocalError(local) \in FaultKind
    BY DEF LocalError, FaultKind
  <2>3. failed \in TaskState /\ failed.outcome.kind \in FaultKind
    <3>1. Fault(LocalError(local)) \in Outcome
      BY <2>2, FaultIsOutcome
    <3>2. Fault(LocalError(local)).kind \in FaultKind
      BY <2>2, FaultIsOutcome
    <3> QED
      BY <3>1, <3>2 DEF TaskState
  <2>4. local \notin LocalFault => fetching \in TaskState /\ fetching.pc # "installing"
    BY DEF TaskState, StoreInv, TypeOK
  <2> HIDE DEF failed, fetching
  <2>5. t \in TaskState /\ (t.pc = "installing" => t.outcome.kind \in FaultKind)
    BY <2>3, <2>4
  <2>6. task[r] # Idle
    BY <2>1 DEF Idle
  <2> HIDE DEF t
  <2> QED
    BY <2>1, <2>5, <2>6, RefresherReports DEF FaultKind
<1>3. CASE Fetch(r)
  <2> DEFINE o == Load(task[r].local, remote)
             t == [pc |-> "installing", outcome |-> o]
  <2>1. task[r] \in TaskState /\ remote \in Remote /\ config \in Config
    BY DEF StoreInv, TypeOK
  <2>2. task[r].pc = "fetching" /\ task[r] # Idle
    BY <1>3 DEF Fetch, Idle
  <2>3. o \in Outcome
    BY <2>1, <2>2, TaskShapes, LoadIsOutcome
  <2>4. ~config.attached /\ o.kind = "Loaded" => o.source = "LocalYaml"
    BY LocalLoadSource
  <2>5. Become(r, t) /\ UNCHANGED <<config, engine, availability, reader, due>>
    BY <1>3 DEF Fetch
  <2>6. ~due \/ config.attached
    BY <2>2 DEF ReportInv, LoadsAreShort
  <2> HIDE DEF o
  <2>7. t \in TaskState /\ t.outcome = o
    BY <2>3 DEF TaskState
  <2> HIDE DEF t
  <2> QED
    BY <2>2, <2>4, <2>5, <2>6, <2>7, RefresherReports
<1> QED
  BY <1>1, <1>2, <1>3

\* The installation: the one a reader without an engine may see go by.
LEMMA InstallReports ==
  ASSUME StoreInv, ReportInv, OneRefresher, NEW r \in Refresher, Install(r)
  PROVE  ReportInv'
<1> DEFINE o == task[r].outcome
<1>1. /\ task \in [Refresher -> TaskState]
      /\ task[r].pc = "installing"
      /\ engine \in Engine
      /\ config \in Config
  BY DEF Install, StoreInv, TypeOK
<1>2. o \in Outcome
  BY <1>1, TaskShapes
<1>3. /\ engine' = NextEngine(o)
      /\ availability' = NextAvailability(o)
      /\ task' = [task EXCEPT ![r] = Idle]
      /\ UNCHANGED <<config, due, reader>>
  BY DEF Install, Become
<1>4. /\ ~config.attached => ~due
      /\ ~config.attached /\ o.kind = "Loaded" => o.source = "LocalYaml"
  BY <1>1 DEF ReportInv, LoadsAreShort, LocalLoads
<1> HIDE DEF o
<1>5. \A q \in Refresher : q = r /\ task'[q] = Idle
  BY <1>1, <1>3 DEF OneRefresher
<1>6. AttachedHasEngine'
  BY <1>1, <1>2, <1>3, Installed DEF ReportInv, AttachedHasEngine
<1>7. LocalLoads' /\ LoadsAreShort' /\ ReportedIsEnforced'
  BY <1>3, <1>5 DEF LocalLoads, LoadsAreShort, ReportInv, ReportedIsEnforced, Idle
<1>8. OneInstallation'
  <2> SUFFICES ASSUME NEW x \in Reader, reader[x].pc = "holding",
                      reader[x].engine = NoEngine, engine' # NoEngine
               PROVE  /\ availability' = "Available"
                      /\ ~due
                      /\ \A q \in Refresher : task'[q] = Idle
    BY <1>3 DEF OneInstallation
  <2>1. engine = NoEngine
    <3>1. task[r] # Idle
      BY <1>1 DEF Idle
    <3> QED
      BY <3>1 DEF ReportInv, OneInstallation
  <2>2. ~config.attached
    BY <2>1 DEF ReportInv, AttachedHasEngine
  <2>3. o.kind = "Loaded"
    BY <1>3, <2>1 DEF NextEngine
  <2>4. availability' = "Available"
    BY <1>3, <1>4, <2>2, <2>3 DEF NextAvailability
  <2> QED
    BY <1>4, <1>5, <2>2, <2>4
<1> QED
  BY <1>6, <1>7, <1>8 DEF ReportInv

\* A reader's two reads, and its evaluation under the pair.
LEMMA ReaderReports ==
  ASSUME StoreInv, ReportInv, NEW x \in Reader, Snapshot(x) \/ Evaluate(x) \/ Done(x)
  PROVE  ReportInv'
<1>1. /\ UNCHANGED <<config, engine, availability, due, task>>
      /\ reader \in [Reader -> ReaderState]
  BY DEF Snapshot, Evaluate, Done, StoreInv, TypeOK
<1>2. AttachedHasEngine' /\ LocalLoads' /\ LoadsAreShort'
  BY <1>1 DEF ReportInv, AttachedHasEngine, LocalLoads, LoadsAreShort
<1>3. PICK state : Hold(x, state) /\ state.pc \in {"holding", "evaluated", "idle"}
        /\ (state.pc = "holding" => state.engine = engine)
        /\ (state.pc = "evaluated" =>
              HasEngine(state.reported) = (state.engine # NoEngine))
  <2>1. CASE Snapshot(x)
    <3> WITNESS [pc |-> "holding", engine |-> engine]
    <3> QED
      BY <2>1 DEF Snapshot
  <2>2. CASE Evaluate(x)
    <3> DEFINE e == reader[x].engine
               said == Reported(e, availability)
    <3>1. HasEngine(said) = (e # NoEngine)
      <4>1. CASE e # NoEngine
        BY <4>1 DEF Reported, EngineAvailability, HasEngine
      <4>2. CASE e = NoEngine
        <5>1. availability = "Available" \/ ~HasEngine(availability)
          BY <2>2, <4>2 DEF Evaluate, StoreInv, AvailabilityCoherent, ReportInv,
                            OneInstallation
        <5> QED
          BY <4>2, <5>1 DEF Reported, HasEngine
      <4> QED
        BY <4>1, <4>2
    <3>2. Hold(x, [pc |-> "evaluated", engine |-> e, reported |-> said])
      BY <2>2 DEF Evaluate
    <3> HIDE DEF e, said
    <3> WITNESS [pc |-> "evaluated", engine |-> e, reported |-> said]
    <3> QED
      BY <3>1, <3>2
  <2>3. CASE Done(x)
    <3> WITNESS Idle
    <3> QED
      BY <2>3 DEF Done, Idle
  <2> QED
    BY <2>1, <2>2, <2>3
<1>4. \A y \in Reader : reader'[y] = IF y = x THEN state ELSE reader[y]
  BY <1>1, <1>3 DEF Hold
<1>5. OneInstallation'
  BY <1>1, <1>3, <1>4 DEF ReportInv, OneInstallation
<1>6. ReportedIsEnforced'
  BY <1>3, <1>4 DEF ReportInv, ReportedIsEnforced
<1> QED
  BY <1>2, <1>5, <1>6 DEF ReportInv

\* The file and the control plane may change at any moment; the interval passes only
\* between a reader's reads and those of the next, and not under a local load.
LEMMA SurroundingsReport ==
  ASSUME StoreInv, ReportInv, EditLocal \/ ChangeRemote \/ Elapse
  PROVE  ReportInv'
<1>1. UNCHANGED <<config, engine, availability, task, reader>>
  BY DEF EditLocal, ChangeRemote, Elapse
<1>2. AttachedHasEngine' /\ LocalLoads' /\ ReportedIsEnforced'
  BY <1>1 DEF ReportInv, AttachedHasEngine, LocalLoads, ReportedIsEnforced
<1>3. CASE UNCHANGED due
  BY <1>1, <1>2, <1>3 DEF ReportInv, LoadsAreShort, OneInstallation
<1>4. CASE Elapse
  BY <1>1, <1>2, <1>4 DEF Elapse, ReportInv, LoadsAreShort, OneInstallation, Idle
<1> QED
  BY <1>3, <1>4 DEF EditLocal, ChangeRemote

\* Every step keeps what readers are promised.
LEMMA NextReportInv == OneRefresher /\ StoreInv /\ ReportInv /\ [Next]_vars => ReportInv'
<1> SUFFICES ASSUME OneRefresher, StoreInv, ReportInv, [Next]_vars PROVE ReportInv'
  OBVIOUS
<1>1. CASE UNCHANGED vars
  BY <1>1 DEF vars, ReportInv, AttachedHasEngine, LocalLoads, LoadsAreShort,
              OneInstallation, ReportedIsEnforced
<1>2. CASE \E r \in Refresher : Refreshes(r)
  BY <1>2, PreparingReports, InstallReports DEF Refreshes
<1>3. CASE \E x \in Reader : Snapshot(x) \/ Evaluate(x) \/ Done(x)
  BY <1>3, ReaderReports
<1>4. CASE EditLocal \/ ChangeRemote \/ Elapse
  BY <1>4, SurroundingsReport
<1> QED
  BY <1>1, <1>2, <1>3, <1>4 DEF Next

-----------------------------------------------------------------------------
(* The theorems. *)

\* The inductive invariant holds of every reachable state.
THEOREM StoreInvariant == Spec => []StoreInv
<1>1. StoreInv /\ [Next]_vars => StoreInv'
  BY NextStoreInv
<1> QED
  BY InitStoreInv, <1>1, PTL DEF Spec

\* Every lock and every task holds a value of its declared type.
THEOREM TypeCorrect == Spec => []TypeOK
<1>1. StoreInv => TypeOK
  BY DEF StoreInv
<1> QED
  BY StoreInvariant, <1>1, PTL

\* The availability agrees with the engine it is stored next to, in whatever order
\* any number of overlapping refreshes install (posture.rs, has_engine).
THEOREM Coherent == Spec => []AvailabilityCoherent
<1>1. StoreInv => AvailabilityCoherent
  BY DEF StoreInv
<1> QED
  BY StoreInvariant, <1>1, PTL

\* Where signed policy is required and a control plane is configured, neither the
\* store nor a task that reads it ever holds the local file by itself.
THEOREM SignedOnly == Spec => []SignedSourceOnly
<1>1. StoreInv => SignedSourceOnly
  BY DEF StoreInv
<1> QED
  BY StoreInvariant, <1>1, PTL

\* A process that enforces a policy enforces one from then on (refresh_if_stale keeps
\* the last engine whatever its load found).
THEOREM Protected == Spec => NeverUnprotected
<1>1. ASSUME StoreInv, [Next]_vars
      PROVE  [engine # NoEngine => engine' # NoEngine]_vars
  <2> SUFFICES ASSUME Next, engine # NoEngine PROVE engine' # NoEngine
    BY <1>1
  <2>1. CASE \E r \in Refresher : Install(r)
    <3>1. PICK r \in Refresher : Install(r)
      BY <2>1
    <3>2. /\ task[r] \in TaskState /\ task[r].pc = "installing"
          /\ engine \in Engine
          /\ engine' = NextEngine(task[r].outcome)
      BY <1>1, <3>1 DEF Install, StoreInv, TypeOK
    <3> QED
      BY <3>2, TaskShapes, Installed
  <2>2. CASE ~ \E r \in Refresher : Install(r)
    <3>1. UNCHANGED engine
      BY <2>2 DEF Next, Refreshes, CheckDue, Mark, Fetch, Snapshot, Evaluate, Done,
                  EditLocal, ChangeRemote, Elapse
    <3> QED
      BY <3>1
  <2> QED
    BY <2>1, <2>2
<1> QED
  BY StoreInvariant, <1>1, PTL DEF Spec, NeverUnprotected

\* With the one refresher a process has, the availability an outcome reports says
\* whether the evaluation ran a policy, although engine and availability were read
\* under two locks with an installation between them (gateway.rs, PolicyStage: the
\* snapshot, then availability()).
THEOREM ReportsAreEnforced == ASSUME OneRefresher PROVE Spec => []ReportedIsEnforced
<1>1. StoreInv /\ ReportInv /\ [Next]_vars => ReportInv'
  BY NextReportInv
<1>2. ReportInv => ReportedIsEnforced
  BY DEF ReportInv
<1> QED
  BY StoreInvariant, InitReportInv, <1>1, <1>2, PTL DEF Spec
=============================================================================
