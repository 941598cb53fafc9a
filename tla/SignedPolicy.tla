---------------------------- MODULE SignedPolicy ----------------------------
(***************************************************************************)
(* Signed managed policy (policy/signed.rs): when a document from the      *)
(* control plane or from the cache is activated, and what survives on      *)
(* disk.                                                                   *)
(*                                                                         *)
(* Envelopes circulate: genuine ones, old ones served again, ones changed  *)
(* on the way.  Activation checks one against the keys, the enrolment, the *)
(* clock and the acceptance state; envelope and acceptance state are then  *)
(* written one after the other, each through a temporary file, and the     *)
(* process may stop between any two of these steps.                        *)
(*                                                                         *)
(* The caller that sequences activation, persistence and restart belongs   *)
(* to the cloud client, which the open-core build only stubs.  It is taken *)
(* from the order integrity_tests.rs uses: activate, persist the envelope, *)
(* persist the acceptance state; a restart loads both and activates again. *)
(***************************************************************************)
EXTENDS Naturals, Functions

CONSTANTS
  Envelope,         \* envelopes in circulation
  Key,              \* verification keys
  Org, Digest,      \* organizations; digests of policy documents
  Body,             \* policy documents
  Valid,            \* documents that validate and compile
  WireDigest,       \* Body -> Digest: the digest covers the wire fields only
  Fleet,            \* sets of enrolments a machine may be started under
  NoOrg,            \* no organization is configured
  AcceptanceFile,   \* enrolment -> the name of its acceptance file
  PinnedKey,        \* the keys compiled in, by key id
  KeySettings,      \* environments the key set is built from
  MaxTime

ENVELOPE_SCHEMA_VERSION == 1

\* now + 60 < not_before: the skew, in the model's unit of time.
Skew == 1

Enrolment == Org \cup {NoOrg}

File == {AcceptanceFile[o] : o \in Enrolment}

PinnedKeyId == {"sqreen-policy-ed25519-1", "sqreen-policy-ed25519-2"}

TestKeyId == "sqreen-policy-ed25519-test"

\* The fields the signature covers: everything but the body and the signature itself.
\* (policy_id, issued_at and previous_revision are signed and otherwise unused.)
signing_payload(env) ==
  [ schema |-> env.schema, key_id |-> env.key_id, org |-> env.org,
    revision |-> env.revision, not_before |-> env.not_before,
    expires_at |-> env.expires_at, digest |-> env.digest ]

VARIABLES
  settings,   \* the key environment of the machine
  fleet,      \* the enrolments of this machine
  now,        \* the wall clock
  cache,      \* the signed envelope on disk
  accepted,   \* the acceptance files
  proc,       \* the process: enrolment, acceptance state it holds, envelope in hand
  enforced,   \* the envelope whose policy the process runs
  replaced    \* whether somebody wrote the cache file by hand

vars == <<settings, fleet, now, cache, accepted, proc, enforced, replaced>>

None == [form |-> "none"]

\* A file a crash left half written.
Torn == [form |-> "torn"]

AcceptanceState == INSTANCE AcceptedRevision WITH accepted <- accepted

DefaultAcceptance == AcceptanceState!Nothing

ASSUME SignedPolicyAssumption ==
  /\ Valid \subseteq Body
  /\ WireDigest \in [Body -> Digest]
  /\ NoOrg \notin Org
  /\ "" \notin Org
  /\ None \notin Envelope /\ Torn \notin Envelope
  /\ \A e \in Envelope :
       /\ e.org \in Org /\ e.digest \in Digest /\ e.body \in Body
       /\ e.revision \in Nat /\ e.not_before \in Nat
  /\ \A f \in Fleet : f \subseteq Enrolment

\* The test key is neither pinned nor an extra key of a production environment.
ASSUME TestKeyAssumption ==
  /\ \A kid \in PinnedKeyId : PinnedKey[kid] # PinnedKey[TestKeyId]
  /\ \A s \in KeySettings : s.production =>
       \A kid \in DOMAIN s.extra : s.extra[kid] # PinnedKey[TestKeyId]
-----------------------------------------------------------------------------
(* The trusted keys by key id: the pinned pair, the test key where it is    *)
(* allowed, and the extra keys of the environment, which replace neither.   *)

TestKeyAllowed == settings.allowTest /\ ~settings.production

BuiltInKeyId == PinnedKeyId \cup (IF TestKeyAllowed THEN {TestKeyId} ELSE {})

trusted_keys ==
  [ kid \in BuiltInKeyId \cup DOMAIN settings.extra |->
      IF kid \in BuiltInKeyId THEN PinnedKey[kid] ELSE settings.extra[kid] ]

-----------------------------------------------------------------------------
(* Verification and activation: the first check that fails names the reason. *)

\* ed25519: only the holder of a key makes a signature that verifies under it.
Signed(env, key) ==
  env.signature.form = "signed" /\ env.signature.by = key
    /\ env.signature.over = signing_payload(env)

\* Mutant of verify_signature: the document is not hashed again.
verify_signature_trusting(env) ==
  IF env.schema # ENVELOPE_SCHEMA_VERSION THEN "UnsupportedSchema"
  ELSE IF env.signature.form = "missing" THEN "MissingSignature"
  ELSE IF env.key_id \notin DOMAIN trusted_keys THEN "UnknownKeyId"
  ELSE IF env.signature.form = "malformed" THEN "MalformedSignature"
  ELSE IF ~Signed(env, trusted_keys[env.key_id]) THEN "InvalidSignature"
  ELSE "Verified"

verify_signature(env) ==
  IF env.schema # ENVELOPE_SCHEMA_VERSION THEN "UnsupportedSchema"
  ELSE IF env.signature.form = "missing" THEN "MissingSignature"
  ELSE IF WireDigest[env.body] # env.digest THEN "DigestMismatch"
  ELSE IF env.key_id \notin DOMAIN trusted_keys THEN "UnknownKeyId"
  ELSE IF env.signature.form = "malformed" THEN "MalformedSignature"
  ELSE IF ~Signed(env, trusted_keys[env.key_id]) THEN "InvalidSignature"
  ELSE "Verified"

\* The acceptance state binds the organization once a revision above zero is on
\* record.
ForeignTo(env, acceptance) ==
  acceptance # DefaultAcceptance /\ acceptance.org # env.org /\ acceptance.revision > 0

SameRevisionOtherDocument(env, acceptance) ==
  /\ env.revision = acceptance.revision
  /\ acceptance.revision > 0
  /\ env.digest # acceptance.digest

\* Mutant of activate_signed_policy: the acceptance state is not consulted.
activate_any(env, acceptance, enrolment, composes) ==
  IF verify_signature(env) # "Verified" THEN verify_signature(env)
  ELSE IF enrolment # NoOrg /\ env.org # enrolment THEN "WrongOrganization"
  ELSE "Activated"

\* composes: the local document of the moment goes with this one.  Expiry is only an
\* event (policy_expired, stale_policy_in_use).
activate_signed_policy(env, acceptance, enrolment, composes) ==
  IF verify_signature(env) # "Verified" THEN verify_signature(env)
  ELSE IF enrolment # NoOrg /\ env.org # enrolment THEN "WrongOrganization"
  ELSE IF now + Skew < env.not_before THEN "NotYetValid"
  ELSE IF ForeignTo(env, acceptance) THEN "WrongOrganization"
  ELSE IF env.revision < acceptance.revision THEN "Rollback"
  ELSE IF SameRevisionOtherDocument(env, acceptance) THEN "SameRevisionDigestMismatch"
  ELSE IF ~(composes /\ env.body \in Valid) THEN "InvalidPolicy"
  ELSE "Activated"

acceptance_from_envelope(env) ==
  [org |-> env.org, revision |-> env.revision, digest |-> env.digest]

-----------------------------------------------------------------------------
(* The process. *)

Down == [pc |-> "down"]

Running(enrolment, acceptance) ==
  [pc |-> "running", enrolment |-> enrolment, acceptance |-> acceptance]

Init ==
  /\ settings \in KeySettings
  /\ fleet \in Fleet
  /\ now = 0
  /\ cache = None
  /\ accepted = [f \in File |-> DefaultAcceptance]
  /\ proc = Down
  /\ enforced = None
  /\ replaced = FALSE

\* load_acceptance: a file that does not exist is the default state.
Start(enrolment) ==
  /\ proc = Down
  /\ enrolment \in fleet
  /\ proc' = Running(enrolment, accepted[AcceptanceFile[enrolment]])
  /\ UNCHANGED <<settings, fleet, now, cache, accepted, enforced, replaced>>

\* What a later step of the same process does with the envelope it activated.
Continue(pc) == proc' = [proc EXCEPT !.pc = pc]

Take(env, pc) ==
  \E composes \in BOOLEAN :
    /\ activate_signed_policy(env, proc.acceptance, proc.enrolment, composes) = "Activated"
    /\ proc' = [ pc |-> pc, enrolment |-> proc.enrolment,
                 acceptance |-> proc.acceptance, env |-> env ]

\* The control plane, or whoever answers for it, serves an envelope.  One that is
\* rejected leaves everything as it was.
Download(env) ==
  /\ proc.pc = "running"
  /\ Take(env, "caching")
  /\ UNCHANGED <<settings, fleet, now, cache, accepted, enforced, replaced>>

\* load_signed_envelope and the same activation; the file is there already.
Reload ==
  /\ proc.pc = "running"
  /\ cache \notin {None, Torn}
  /\ Take(cache, "accepting")
  /\ UNCHANGED <<settings, fleet, now, cache, accepted, enforced, replaced>>

\* Mutant of PersistEnvelope: the file itself is opened and written.
PersistEnvelopeInPlace ==
  \/ /\ proc.pc = "caching"
     /\ cache' = Torn
     /\ Continue("cacheWritten")
     /\ UNCHANGED <<settings, fleet, now, accepted, enforced, replaced>>
  \/ /\ proc.pc = "cacheWritten"
     /\ cache' = proc.env
     /\ Continue("accepting")
     /\ UNCHANGED <<settings, fleet, now, accepted, enforced, replaced>>

\* fs::write of the temporary file, then fs::rename.  What a crash leaves in the
\* temporary file is never read: the next write truncates it.
PersistEnvelope ==
  \/ /\ proc.pc = "caching"
     /\ Continue("cacheWritten")
     /\ UNCHANGED <<settings, fleet, now, cache, accepted, enforced, replaced>>
  \/ /\ proc.pc = "cacheWritten"
     /\ cache' = proc.env
     /\ Continue("accepting")
     /\ UNCHANGED <<settings, fleet, now, accepted, enforced, replaced>>

\* Mutant of MyFile: one acceptance file for every enrolment.
MyFileShared == AcceptanceFile[NoOrg]

\* acceptance_path_beside_cache.
MyFile == AcceptanceFile[proc.enrolment]

PersistAcceptance ==
  \/ /\ proc.pc = "accepting"
     /\ Continue("acceptanceWritten")
     /\ UNCHANGED <<settings, fleet, now, cache, accepted, enforced, replaced>>
  \/ /\ proc.pc = "acceptanceWritten"
     /\ accepted' = [accepted EXCEPT ![MyFile] = acceptance_from_envelope(proc.env)]
     /\ Continue("installing")
     /\ UNCHANGED <<settings, fleet, now, cache, enforced, replaced>>

\* The store takes the engine (PolicyStore!Install).
Install ==
  /\ proc.pc = "installing"
  /\ enforced' = proc.env
  /\ proc' = Running(proc.enrolment, acceptance_from_envelope(proc.env))
  /\ UNCHANGED <<settings, fleet, now, cache, accepted, replaced>>

\* A write or a rename fails: the update is given up, nothing is installed.
PersistFails ==
  /\ proc.pc \notin {"down", "running", "installing"}
  /\ proc' = Running(proc.enrolment, proc.acceptance)
  /\ UNCHANGED <<settings, fleet, now, cache, accepted, enforced, replaced>>

\* The process stops, wherever it is; the machine may be enrolled elsewhere next.
Crash ==
  /\ proc # Down
  /\ proc' = Down
  /\ enforced' = None
  /\ UNCHANGED <<settings, fleet, now, cache, accepted, replaced>>

\* Somebody puts another envelope where the cache is.
ReplaceCache(env) ==
  /\ cache' = env
  /\ replaced' = TRUE
  /\ UNCHANGED <<settings, fleet, now, accepted, proc, enforced>>

Tick ==
  /\ now < MaxTime
  /\ now' = now + 1
  /\ UNCHANGED <<settings, fleet, cache, accepted, proc, enforced, replaced>>

Next ==
  \/ \E o \in Enrolment : Start(o)
  \/ \E env \in Envelope : Download(env) \/ ReplaceCache(env)
  \/ Reload \/ PersistEnvelope \/ PersistAcceptance \/ Install
  \/ PersistFails \/ Crash \/ Tick

Spec == Init /\ [][Next]_vars

-----------------------------------------------------------------------------
(* What signed policy promises. *)

\* The policy that runs was signed, with the digest of this very document, under a
\* pinned key or under one the environment may add, for the organization of the
\* enrolment, whatever was downloaded and whoever wrote to the cache in between.
EnforcedIsAuthentic ==
  enforced # None =>
    /\ WireDigest[enforced.body] = enforced.digest
    /\ enforced.key_id \in PinnedKeyId => Signed(enforced, PinnedKey[enforced.key_id])
    /\ settings.production => ~Signed(enforced, PinnedKey[TestKeyId])
    /\ proc.enrolment # NoOrg => enforced.org = proc.enrolment

\* Anti-rollback across crashes: whatever is enforced was recorded first, so the
\* acceptance file never knows less than what ran.
EnforcedIsRecorded ==
  enforced # None =>
    AcceptanceState!Advances(acceptance_from_envelope(enforced),
                             accepted[AcceptanceFile[proc.enrolment]])

\* The acceptance files implement registers that only move forward, over restarts,
\* torn writes, failed writes and replayed envelopes.
MovesForward == AcceptanceState!Spec

\* Last known good: on a machine whose starts are all enrolled, and unless the cache was
\* replaced by hand, what the cache holds activates again for the enrolment that wrote
\* it, crash or not ("last-known-good signed cache if re-verify succeeds").
LastKnownGood ==
  ~replaced /\ cache # None /\ NoOrg \notin fleet =>
    /\ cache # Torn
    /\ \A o \in fleet :
         cache.org = o =>
           activate_signed_policy(cache, accepted[AcceptanceFile[o]], o, TRUE) = "Activated"
=============================================================================
