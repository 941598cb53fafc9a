------------------------- MODULE SignedPolicy_proofs -------------------------
(***************************************************************************)
(* What signed policy promises over crashes and restarts, for any keys,    *)
(* organizations, documents and envelopes: the acceptance files are        *)
(* registers that only move forward (AcceptedRevision), nothing is         *)
(* enforced before it is on record, and what is enforced is authentic.     *)
(***************************************************************************)
EXTENDS SignedPolicy, TLAPS

Entries == AcceptanceState!Entry

Idle == [pc : {"running"}, enrolment : Enrolment, acceptance : Entries]

Busy == {"caching", "cacheWritten", "accepting", "acceptanceWritten", "installing"}
Working == [pc : Busy, enrolment : Enrolment, acceptance : Entries, env : Envelope]

\* What activation establishes of an envelope and what the clock does not take away:
\* all the checks but the time and the local document's.
Verified == {e \in Envelope : verify_signature(e) = "Verified"}

Authentic(env, enrolment) ==
  /\ env \in Verified
  /\ enrolment # NoOrg => env.org = enrolment

Typed ==
  /\ settings \in KeySettings
  /\ accepted \in [File -> Entries]
  /\ cache \in Envelope \cup {None, Torn}
  /\ proc \in {Down} \cup Idle \cup Working

\* The process holds the state its file holds, until it has written the one of the
\* envelope in hand.
HoldsItsFile ==
  /\ proc # Down /\ proc.pc # "installing" => proc.acceptance = accepted[MyFile]
  /\ proc.pc = "installing" => accepted[MyFile] = acceptance_from_envelope(proc.env)

\* The envelope in hand was activated against that state.
InHandIsActivated ==
  proc.pc \in Busy =>
    /\ Authentic(proc.env, proc.enrolment)
    /\ AcceptanceState!Advances(accepted[MyFile], acceptance_from_envelope(proc.env))

\* What is enforced was activated, and the file has caught up with it.
EnforcedWasActivated ==
  enforced # None =>
    /\ proc # Down
    /\ Authentic(enforced, proc.enrolment)
    /\ AcceptanceState!Advances(acceptance_from_envelope(enforced), accepted[MyFile])

SignedInv ==
  /\ Typed
  /\ HoldsItsFile
  /\ InHandIsActivated
  /\ EnforcedWasActivated

-----------------------------------------------------------------------------
(* The register, and what activation establishes. *)

\* AcceptedRevision!Entry counts revisions from zero.
LEMMA RevisionsAreNumbers ==
  ASSUME NEW a \in Entries
  PROVE  a.revision \in Nat
<1>1. CASE a = AcceptanceState!Nothing
  BY <1>1 DEF AcceptanceState!Nothing
<1>2. CASE a \in [org : Org, revision : Nat, digest : Digest]
  BY <1>2
<1> QED
  BY <1>1, <1>2 DEF Entries, AcceptanceState!Entry

\* A register that stays where it is has not moved back (AcceptedRevision!Advances).
LEMMA AdvancesReflexive ==
  ASSUME NEW a \in Entries
  PROVE  AcceptanceState!Advances(a, a)
BY RevisionsAreNumbers DEF AcceptanceState!Advances

\* Moves forward add up (AcceptedRevision!Advances).
LEMMA AdvancesTransitive ==
  ASSUME NEW a \in Entries, NEW b \in Entries, NEW c \in Entries,
         AcceptanceState!Advances(a, b), AcceptanceState!Advances(b, c)
  PROVE  AcceptanceState!Advances(a, c)
BY RevisionsAreNumbers DEF AcceptanceState!Advances

\* What persist_acceptance writes is an entry, and never the default one.
LEMMA RecordIsAnEntry ==
  ASSUME NEW env \in Envelope
  PROVE  acceptance_from_envelope(env) \in Entries \ {AcceptanceState!Nothing}
<1>1. /\ env.org \in Org /\ env.digest \in Digest /\ env.revision \in Nat
      /\ "" \notin Org
  BY SignedPolicyAssumption
<1>2. acceptance_from_envelope(env).org = env.org
  BY DEF acceptance_from_envelope
<1> QED
  BY <1>1, <1>2 DEF Entries, AcceptanceState!Entry, AcceptanceState!Nothing, acceptance_from_envelope

\* activate_signed_policy accepts authentic envelopes that move the register forward.
LEMMA ActivationAdvances ==
  ASSUME NEW env \in Envelope, NEW acceptance \in Entries, NEW enrolment, NEW composes,
         activate_signed_policy(env, acceptance, enrolment, composes) = "Activated"
  PROVE  /\ Authentic(env, enrolment)
         /\ AcceptanceState!Advances(acceptance, acceptance_from_envelope(env))
<1>1. verify_signature(env) # "Activated"
  BY DEF verify_signature
<1>2. /\ verify_signature(env) = "Verified"
      /\ ~(enrolment # NoOrg /\ env.org # enrolment)
      /\ ~ForeignTo(env, acceptance)
      /\ ~(env.revision < acceptance.revision)
      /\ ~SameRevisionOtherDocument(env, acceptance)
  BY <1>1 DEF activate_signed_policy
<1>3. env.revision \in Nat /\ acceptance.revision \in Nat
  BY SignedPolicyAssumption, RevisionsAreNumbers
<1>4. acceptance.revision > 0 => acceptance # DefaultAcceptance
  <2>1. DefaultAcceptance.revision = 0
    BY DEF DefaultAcceptance, AcceptanceState!Nothing
  <2> QED
    BY <1>3, <2>1
<1>5. acceptance.revision > 0 => acceptance.org = env.org
  BY <1>2, <1>4 DEF ForeignTo
<1>6. acceptance.revision > 0 /\ env.revision = acceptance.revision
        => env.digest = acceptance.digest
  BY <1>2 DEF SameRevisionOtherDocument
<1>7. AcceptanceState!Advances(acceptance, acceptance_from_envelope(env))
  BY <1>2, <1>3, <1>5, <1>6 DEF AcceptanceState!Advances, acceptance_from_envelope
<1> QED
  BY <1>2, <1>7 DEF Authentic, Verified

\* The keys are those of the start (trusted_keys), so what verifies keeps verifying.
LEMMA VerifiedIsKept ==
  ASSUME settings' = settings
  PROVE  Verified' = Verified
BY DEF Verified, verify_signature, trusted_keys, BuiltInKeyId, TestKeyAllowed, Signed

-----------------------------------------------------------------------------
(* The invariant. *)

\* The invariant holds of a fleet that has accepted nothing yet.
LEMMA InitSigned == Init => SignedInv
<1> SUFFICES ASSUME Init PROVE SignedInv
  OBVIOUS
<1>1. Typed
  BY DEF Init, Typed, DefaultAcceptance, Entries, AcceptanceState!Entry
<1>2. proc = Down /\ enforced = None
  BY DEF Init
<1>3. HoldsItsFile /\ InHandIsActivated /\ EnforcedWasActivated
  BY <1>2 DEF HoldsItsFile, InHandIsActivated, EnforcedWasActivated, Down, Busy
<1> QED
  BY <1>1, <1>3 DEF SignedInv

\* A process that starts holds what its file holds (load_acceptance).
LEMMA StartSigned ==
  ASSUME NEW o \in Enrolment, SignedInv, Start(o)
  PROVE  SignedInv'
<1>1. /\ proc = Down /\ o \in Enrolment
      /\ proc' = [pc |-> "running", enrolment |-> o, acceptance |-> accepted[AcceptanceFile[o]]]
      /\ UNCHANGED <<settings, fleet, now, cache, accepted, enforced, replaced>>
  BY DEF Start, Running
<1>2. accepted[AcceptanceFile[o]] \in Entries
  BY DEF SignedInv, Typed, File
<1>3. Typed'
  BY <1>1, <1>2 DEF SignedInv, Typed, Idle
<1>4. enforced = None
  BY <1>1 DEF SignedInv, EnforcedWasActivated
<1>5. HoldsItsFile' /\ InHandIsActivated' /\ EnforcedWasActivated'
  BY <1>1, <1>4 DEF HoldsItsFile, InHandIsActivated, EnforcedWasActivated, Busy, MyFile
<1> QED
  BY <1>3, <1>5 DEF SignedInv

\* Whatever envelope a running process activates, the file has not moved since
\* (activate_signed_policy, from a download or from the cache).
LEMMA TakeSigned ==
  ASSUME NEW env \in Envelope, NEW pc \in {"caching", "accepting"},
         SignedInv, proc.pc = "running", Take(env, pc),
         UNCHANGED <<settings, fleet, now, cache, accepted, enforced, replaced>>
  PROVE  SignedInv'
<1>1. proc \in Idle
  BY DEF SignedInv, Typed, Down, Working, Busy
<1>2. /\ proc.enrolment \in Enrolment /\ proc.acceptance \in Entries /\ proc # Down
      /\ proc.acceptance = accepted[MyFile]
  BY <1>1 DEF SignedInv, HoldsItsFile, Idle, Down
<1>3. /\ proc' = [ pc |-> pc, enrolment |-> proc.enrolment,
                   acceptance |-> proc.acceptance, env |-> env ]
      /\ Authentic(env, proc.enrolment)
      /\ AcceptanceState!Advances(proc.acceptance, acceptance_from_envelope(env))
  BY <1>2, ActivationAdvances DEF Take
<1>4. Typed'
  BY <1>2, <1>3 DEF SignedInv, Typed, Working, Busy
<1>5. Verified' = Verified
  BY VerifiedIsKept
<1>6. proc'.pc = pc /\ proc'.enrolment = proc.enrolment /\ proc'.env = env
      /\ proc'.acceptance = proc.acceptance /\ proc' # Down
  BY <1>3 DEF Down
<1>7. MyFile' = MyFile
  BY <1>6 DEF MyFile
<1>8. HoldsItsFile'
  BY <1>2, <1>6, <1>7 DEF HoldsItsFile
<1>9. InHandIsActivated'
  BY <1>2, <1>3, <1>5, <1>6, <1>7 DEF InHandIsActivated, Authentic
<1>10. EnforcedWasActivated'
  BY <1>2, <1>5, <1>6, <1>7 DEF SignedInv, EnforcedWasActivated, Authentic
<1> QED
  BY <1>4, <1>8, <1>9, <1>10 DEF SignedInv

\* A process that goes on to its next write keeps what it has in hand.
LEMMA ContinueSigned ==
  ASSUME NEW pc \in Busy \ {"installing"}, SignedInv,
         proc.pc \in Busy \ {"installing"}, Continue(pc),
         cache' \in Envelope \cup {None, Torn},
         UNCHANGED <<settings, accepted, enforced>>
  PROVE  SignedInv'
<1>1. proc \in Working
  BY DEF SignedInv, Typed, Down, Idle, Busy
<1>2. /\ proc'.pc = pc /\ proc'.enrolment = proc.enrolment /\ proc'.env = proc.env
      /\ proc'.acceptance = proc.acceptance /\ proc' \in Working
  BY <1>1 DEF Continue, Working
<1>3. proc # Down /\ proc' # Down
  BY <1>2 DEF Down, Busy
<1>4. Typed'
  BY <1>2 DEF SignedInv, Typed
<1>5. Verified' = Verified /\ MyFile' = MyFile
  BY <1>2, VerifiedIsKept DEF MyFile
<1>6. HoldsItsFile'
  BY <1>2, <1>3, <1>5 DEF SignedInv, HoldsItsFile
<1>7. InHandIsActivated'
  BY <1>2, <1>5 DEF SignedInv, InHandIsActivated, Authentic
<1>8. EnforcedWasActivated'
  BY <1>2, <1>3, <1>5 DEF SignedInv, EnforcedWasActivated, Authentic
<1> QED
  BY <1>4, <1>6, <1>7, <1>8 DEF SignedInv

\* Writing the envelope moves nothing but the cache (persist_signed_envelope).
LEMMA PersistEnvelopeSigned ==
  ASSUME SignedInv, PersistEnvelope
  PROVE  SignedInv'
<1>1. proc \in Working
  BY DEF SignedInv, Typed, Down, Idle, PersistEnvelope
<1>2. cache \in Envelope \cup {None, Torn} /\ proc.env \in Envelope
  BY <1>1 DEF SignedInv, Typed, Working
<1>3. CASE proc.pc = "caching"
  BY <1>2, <1>3, ContinueSigned DEF PersistEnvelope, Busy
<1>4. CASE proc.pc = "cacheWritten"
  BY <1>2, <1>4, ContinueSigned DEF PersistEnvelope, Busy
<1> QED
  BY <1>3, <1>4 DEF PersistEnvelope

\* The register moves to the envelope in hand (persist_acceptance).
LEMMA RegisterMoves ==
  ASSUME SignedInv, proc.pc = "acceptanceWritten",
         accepted' = [accepted EXCEPT ![MyFile] = acceptance_from_envelope(proc.env)]
  PROVE  /\ MyFile \in File
         /\ accepted'[MyFile] = acceptance_from_envelope(proc.env)
         /\ accepted'[MyFile] \in Entries \ {AcceptanceState!Nothing}
         /\ AcceptanceState!Advances(accepted[MyFile], accepted'[MyFile])
         /\ accepted' \in [File -> Entries]
<1>1. proc \in Working
  BY DEF SignedInv, Typed, Down, Idle
<1>2. MyFile \in File
  BY <1>1 DEF Working, MyFile, File
<1>3. acceptance_from_envelope(proc.env) \in Entries \ {AcceptanceState!Nothing}
  BY <1>1, RecordIsAnEntry DEF Working
<1>4. accepted \in [File -> Entries]
  BY DEF SignedInv, Typed
<1>5. AcceptanceState!Advances(accepted[MyFile], acceptance_from_envelope(proc.env))
  BY DEF SignedInv, InHandIsActivated, Busy
<1> QED
  BY <1>2, <1>3, <1>4, <1>5

\* Writing the acceptance state brings the file to the envelope in hand, past what is
\* enforced (persist_acceptance).
LEMMA PersistAcceptanceSigned ==
  ASSUME SignedInv, PersistAcceptance
  PROVE  SignedInv'
<1>1. CASE proc.pc = "accepting"
  <2>1. cache \in Envelope \cup {None, Torn}
    BY DEF SignedInv, Typed
  <2> QED
    BY <1>1, <2>1, ContinueSigned DEF PersistAcceptance, Busy
<1>2. CASE proc.pc = "acceptanceWritten"
  <2>1. /\ accepted' = [accepted EXCEPT ![MyFile] = acceptance_from_envelope(proc.env)]
        /\ proc' = [proc EXCEPT !.pc = "installing"]
        /\ UNCHANGED <<settings, fleet, now, cache, enforced, replaced>>
    BY <1>2 DEF PersistAcceptance, Continue
  <2>2. proc \in Working
    BY <1>2 DEF SignedInv, Typed, Down, Idle
  <2>3. /\ proc'.pc = "installing" /\ proc'.enrolment = proc.enrolment
        /\ proc'.env = proc.env /\ proc' \in Working
    BY <2>1, <2>2 DEF Working, Busy
  <2>4. proc # Down /\ proc' # Down
    BY <1>2, <2>3 DEF Down
  <2>5. Verified' = Verified /\ MyFile' = MyFile
    BY <2>1, <2>3, VerifiedIsKept DEF MyFile
  <2>6. /\ accepted'[MyFile] = acceptance_from_envelope(proc.env)
        /\ accepted'[MyFile] \in Entries
        /\ AcceptanceState!Advances(accepted[MyFile], accepted'[MyFile])
        /\ accepted' \in [File -> Entries] /\ MyFile \in File
    BY <1>2, <2>1, RegisterMoves
  <2>7. Typed'
    BY <2>1, <2>3, <2>6 DEF SignedInv, Typed
  <2>8. HoldsItsFile'
    BY <2>3, <2>5, <2>6 DEF HoldsItsFile
  <2>9. InHandIsActivated'
    <3>1. Authentic(proc.env, proc.enrolment)
      BY <1>2 DEF SignedInv, InHandIsActivated, Busy
    <3>2. AcceptanceState!Advances(accepted'[MyFile], acceptance_from_envelope(proc.env))
      BY <2>6, AdvancesReflexive
    <3> QED
      BY <2>3, <2>5, <3>1, <3>2 DEF InHandIsActivated, Authentic
  <2>10. EnforcedWasActivated'
    <3> SUFFICES ASSUME enforced # None PROVE EnforcedWasActivated'
      BY <2>1 DEF EnforcedWasActivated
    <3>1. /\ Authentic(enforced, proc.enrolment)
          /\ AcceptanceState!Advances(acceptance_from_envelope(enforced), accepted[MyFile])
      BY DEF SignedInv, EnforcedWasActivated
    <3>2. acceptance_from_envelope(enforced) \in Entries
      BY <3>1, RecordIsAnEntry DEF Authentic, Verified
    <3>3. accepted[MyFile] \in Entries
      BY <2>6 DEF SignedInv, Typed
    <3>4. AcceptanceState!Advances(acceptance_from_envelope(enforced), accepted'[MyFile])
      BY <2>6, <3>1, <3>2, <3>3, AdvancesTransitive
    <3> QED
      BY <2>1, <2>3, <2>4, <2>5, <3>1, <3>4 DEF EnforcedWasActivated, Authentic
  <2> QED
    BY <2>7, <2>8, <2>9, <2>10 DEF SignedInv
<1> QED
  BY <1>1, <1>2 DEF PersistAcceptance

\* What is installed is what the file holds.
LEMMA InstallSigned ==
  ASSUME SignedInv, Install
  PROVE  SignedInv'
<1>1. /\ proc.pc = "installing" /\ enforced' = proc.env
      /\ proc' = [ pc |-> "running", enrolment |-> proc.enrolment,
                   acceptance |-> acceptance_from_envelope(proc.env) ]
      /\ UNCHANGED <<settings, fleet, now, cache, accepted, replaced>>
  BY DEF Install, Running
<1>2. proc \in Working
  BY <1>1 DEF SignedInv, Typed, Down, Idle
<1>3. acceptance_from_envelope(proc.env) \in Entries
  BY <1>2, RecordIsAnEntry DEF Working
<1>4. proc' \in Idle /\ proc'.pc = "running" /\ proc'.enrolment = proc.enrolment
      /\ proc'.acceptance = acceptance_from_envelope(proc.env)
  BY <1>1, <1>2, <1>3 DEF Working, Idle
<1>5. Typed'
  BY <1>1, <1>4 DEF SignedInv, Typed
<1>6. Verified' = Verified /\ MyFile' = MyFile
  BY <1>1, <1>4, VerifiedIsKept DEF MyFile
<1>7. accepted[MyFile] = acceptance_from_envelope(proc.env)
  BY <1>1 DEF SignedInv, HoldsItsFile
<1>8. HoldsItsFile' /\ InHandIsActivated'
  BY <1>1, <1>4, <1>6, <1>7 DEF HoldsItsFile, InHandIsActivated, Busy
<1>9. EnforcedWasActivated'
  <2>1. Authentic(proc.env, proc.enrolment)
    BY <1>1 DEF SignedInv, InHandIsActivated, Busy
  <2>2. AcceptanceState!Advances(acceptance_from_envelope(proc.env), accepted[MyFile])
    BY <1>3, <1>7, AdvancesReflexive
  <2>3. proc' # Down
    BY <1>4 DEF Down
  <2> QED
    BY <1>1, <1>4, <1>6, <2>1, <2>2, <2>3 DEF EnforcedWasActivated, Authentic
<1> QED
  BY <1>5, <1>8, <1>9 DEF SignedInv

\* A write that fails leaves the process with the state its file still has.
LEMMA PersistFailsSigned ==
  ASSUME SignedInv, PersistFails
  PROVE  SignedInv'
<1>1. /\ proc.pc \notin {"down", "running", "installing"}
      /\ proc' = [ pc |-> "running", enrolment |-> proc.enrolment,
                   acceptance |-> proc.acceptance ]
      /\ UNCHANGED <<settings, fleet, now, cache, accepted, enforced, replaced>>
  BY DEF PersistFails, Running
<1>2. proc \in Working /\ proc # Down
  BY <1>1 DEF SignedInv, Typed, Down, Idle
<1>3. /\ proc' \in Idle /\ proc'.pc = "running" /\ proc'.enrolment = proc.enrolment
      /\ proc'.acceptance = proc.acceptance
  BY <1>1, <1>2 DEF Working, Idle
<1>4. Typed' /\ proc' # Down
  BY <1>1, <1>3 DEF SignedInv, Typed, Down
<1>5. Verified' = Verified /\ MyFile' = MyFile
  BY <1>1, <1>3, VerifiedIsKept DEF MyFile
<1>6. HoldsItsFile' /\ InHandIsActivated'
  BY <1>1, <1>2, <1>3, <1>5 DEF SignedInv, HoldsItsFile, InHandIsActivated, Busy
<1>7. EnforcedWasActivated'
  BY <1>1, <1>3, <1>4, <1>5 DEF SignedInv, EnforcedWasActivated, Authentic
<1> QED
  BY <1>4, <1>6, <1>7 DEF SignedInv

\* A crash leaves both files as they are.
LEMMA CrashSigned ==
  ASSUME SignedInv, Crash
  PROVE  SignedInv'
<1>1. proc' = Down /\ enforced' = None /\ UNCHANGED <<settings, cache, accepted>>
  BY DEF Crash
<1>2. Typed'
  BY <1>1 DEF SignedInv, Typed
<1>3. HoldsItsFile' /\ InHandIsActivated' /\ EnforcedWasActivated'
  BY <1>1 DEF HoldsItsFile, InHandIsActivated, EnforcedWasActivated, Down, Busy
<1> QED
  BY <1>2, <1>3 DEF SignedInv

\* The clock, and whoever writes to the cache, move neither process nor register.
LEMMA SurroundingsSigned ==
  ASSUME SignedInv, UNCHANGED <<settings, accepted, proc, enforced>>,
         cache' \in Envelope \cup {None, Torn}
  PROVE  SignedInv'
<1>1. Verified' = Verified /\ MyFile' = MyFile
  BY VerifiedIsKept DEF MyFile
<1>2. Typed'
  BY DEF SignedInv, Typed
<1>3. HoldsItsFile' /\ InHandIsActivated' /\ EnforcedWasActivated'
  BY <1>1 DEF SignedInv, HoldsItsFile, InHandIsActivated, EnforcedWasActivated, Authentic
<1> QED
  BY <1>2, <1>3 DEF SignedInv

\* Every step of the specification keeps the invariant.
LEMMA StepSigned == SignedInv /\ [Next]_vars => SignedInv'
<1> SUFFICES ASSUME SignedInv, [Next]_vars PROVE SignedInv'
  OBVIOUS
<1>1. cache \in Envelope \cup {None, Torn}
  BY DEF SignedInv, Typed
<1>2. ASSUME NEW o \in Enrolment, Start(o) PROVE SignedInv'
  BY <1>2, StartSigned
<1>3. ASSUME NEW env \in Envelope, Download(env) PROVE SignedInv'
  BY <1>3, TakeSigned DEF Download
<1>4. ASSUME NEW env \in Envelope, ReplaceCache(env) PROVE SignedInv'
  BY <1>4, SurroundingsSigned DEF ReplaceCache
<1>5. ASSUME Reload PROVE SignedInv'
  BY <1>1, <1>5, TakeSigned DEF Reload
<1>6. ASSUME Tick PROVE SignedInv'
  BY <1>1, <1>6, SurroundingsSigned DEF Tick
<1>7. ASSUME UNCHANGED vars PROVE SignedInv'
  BY <1>1, <1>7, SurroundingsSigned DEF vars
<1> QED
  BY <1>2, <1>3, <1>4, <1>5, <1>6, <1>7, PersistEnvelopeSigned, PersistAcceptanceSigned,
     InstallSigned, PersistFailsSigned, CrashSigned DEF Next

\* The process, its file and what it enforces stay in step (policy/signed.rs).
THEOREM SignedInvariant == Spec => []SignedInv
BY InitSigned, StepSigned, PTL DEF Spec

-----------------------------------------------------------------------------
(* What follows. *)

\* Whatever is enforced was recorded first, so a crash at any moment leaves an
\* acceptance file that knows at least as much (EnforcedIsRecorded; persist_acceptance
\* before the engine is replaced).
THEOREM RecordedFirst == Spec => []EnforcedIsRecorded
<1>1. SignedInv => EnforcedIsRecorded
  BY DEF SignedInv, EnforcedWasActivated, EnforcedIsRecorded, MyFile
<1> QED
  BY <1>1, SignedInvariant, PTL

\* A step writes at most one acceptance file, and moves it forward.
LEMMA StepRecords ==
  ASSUME SignedInv, [Next]_vars
  PROVE  [AcceptanceState!Next]_accepted
<1> SUFFICES ASSUME accepted' # accepted PROVE AcceptanceState!Next
  OBVIOUS
<1>1. PersistAcceptance /\ proc.pc = "acceptanceWritten"
  BY DEF Next, vars, Start, Download, ReplaceCache, Reload, PersistEnvelope,
         PersistAcceptance, Install, PersistFails, Crash, Tick
<1>2. accepted' = [accepted EXCEPT ![MyFile] = acceptance_from_envelope(proc.env)]
  BY <1>1 DEF PersistAcceptance
<1>3. /\ MyFile \in File
      /\ accepted'[MyFile] = acceptance_from_envelope(proc.env)
      /\ accepted'[MyFile] \in Entries \ {AcceptanceState!Nothing}
      /\ AcceptanceState!Advances(accepted[MyFile], accepted'[MyFile])
  BY <1>1, <1>2, RegisterMoves
<1>4. AcceptanceState!Record(MyFile)
  BY <1>2, <1>3 DEF AcceptanceState!Record, Entries
<1> QED
  BY <1>3, <1>4 DEF AcceptanceState!Next

\* The detailed specification implements the abstract one: every acceptance file is a
\* register that only moves forward (MovesForward; activate_signed_policy against the
\* state persist_acceptance wrote).
THEOREM RegistersMoveForward == Spec => MovesForward
<1>1. Init => AcceptanceState!Init
  BY DEF Init, AcceptanceState!Init, DefaultAcceptance
<1> QED
  BY <1>1, SignedInvariant, StepRecords, PTL DEF Spec, MovesForward, AcceptanceState!Spec

\* What verifies covers its document, under the key its id names (verify_signature).
LEMMA VerifiedIsSigned ==
  ASSUME NEW env \in Verified
  PROVE  /\ WireDigest[env.body] = env.digest
         /\ env.key_id \in DOMAIN trusted_keys
         /\ Signed(env, trusted_keys[env.key_id])
BY DEF Verified, verify_signature

\* In production no trusted key is the test key, whatever the environment adds
\* (trusted_keys).
LEMMA TestKeyIsNotTrusted ==
  ASSUME settings \in KeySettings, settings.production, NEW kid \in DOMAIN trusted_keys
  PROVE  trusted_keys[kid] # PinnedKey[TestKeyId]
<1>1. BuiltInKeyId = PinnedKeyId
  BY DEF BuiltInKeyId, TestKeyAllowed
<1>2. kid \in PinnedKeyId \cup DOMAIN settings.extra
  BY <1>1 DEF trusted_keys
<1>3. trusted_keys[kid] = IF kid \in PinnedKeyId THEN PinnedKey[kid] ELSE settings.extra[kid]
  BY <1>1, <1>2 DEF trusted_keys
<1> QED
  BY <1>2, <1>3, TestKeyAssumption

\* What is enforced covers its document, is signed under the pinned key its id names,
\* never under the test key in production, and belongs to the enrolled organization
\* (EnforcedIsAuthentic; verify_signature and activate_signed_policy).
THEOREM AuthenticOnly == Spec => []EnforcedIsAuthentic
<1>1. SignedInv => EnforcedIsAuthentic
  <2> SUFFICES ASSUME SignedInv, enforced # None PROVE EnforcedIsAuthentic
    BY DEF EnforcedIsAuthentic
  <2>1. /\ enforced \in Verified
        /\ proc.enrolment # NoOrg => enforced.org = proc.enrolment
    BY DEF SignedInv, EnforcedWasActivated, Authentic
  <2>2. /\ WireDigest[enforced.body] = enforced.digest
        /\ enforced.key_id \in DOMAIN trusted_keys
        /\ Signed(enforced, trusted_keys[enforced.key_id])
    BY <2>1, VerifiedIsSigned
  <2>3. enforced.key_id \in PinnedKeyId => Signed(enforced, PinnedKey[enforced.key_id])
    <3>1. enforced.key_id \in PinnedKeyId =>
            trusted_keys[enforced.key_id] = PinnedKey[enforced.key_id]
      BY DEF trusted_keys, BuiltInKeyId
    <3> QED
      BY <2>2, <3>1
  <2>4. settings.production => ~Signed(enforced, PinnedKey[TestKeyId])
    <3>1. settings \in KeySettings
      BY DEF SignedInv, Typed
    <3>2. enforced.signature.by = trusted_keys[enforced.key_id]
      BY <2>2 DEF Signed
    <3> QED
      BY <2>2, <3>1, <3>2, TestKeyIsNotTrusted DEF Signed
  <2> QED
    BY <2>1, <2>2, <2>3, <2>4 DEF EnforcedIsAuthentic
<1> QED
  BY <1>1, SignedInvariant, PTL

-----------------------------------------------------------------------------
(* The cache after a crash.  SignedInv says nothing of it: what is added is *)
(* that an envelope stays activatable as the clock goes on, and that the    *)
(* cache is written by enrolments whose own file decides on it.             *)

\* What activation establishes when the local document composes, the state aside.
Activatable ==
  {e \in Verified : e.body \in Valid /\ ~(now + Skew < e.not_before)}

CacheInv ==
  /\ now \in Nat
  /\ fleet \subseteq Enrolment
  /\ proc # Down => proc.enrolment \in fleet
  /\ proc.pc \in Busy => proc.env \in Activatable
  /\ ~replaced /\ proc.pc \in {"accepting", "acceptanceWritten", "installing"} =>
       cache = proc.env
  /\ ~replaced /\ cache # None /\ NoOrg \notin fleet =>
       /\ cache \in Activatable /\ cache.org \in fleet
       /\ AcceptanceState!Advances(accepted[AcceptanceFile[cache.org]],
                                   acceptance_from_envelope(cache))

\* Time only makes more envelopes activatable (activate_signed_policy: not_before; expiry
\* is an event).
LEMMA ActivatableIsKept ==
  ASSUME settings' = settings, now \in Nat, now' \in Nat, now' >= now
  PROVE  Activatable \subseteq Activatable'
<1>1. Verified' = Verified
  BY VerifiedIsKept
<1>2. \A e \in Verified : e.not_before \in Nat
  BY SignedPolicyAssumption DEF Verified
<1>3. ASSUME NEW e \in Verified, ~(now + Skew < e.not_before)
      PROVE  ~(now' + Skew < e.not_before)
  BY <1>2, <1>3 DEF Skew
<1> QED
  BY <1>1, <1>3 DEF Activatable

\* The checks of activate_signed_policy that only read the envelope and the clock.
LEMMA ActivatedIsActivatable ==
  ASSUME NEW env \in Envelope, NEW acceptance, NEW enrolment, NEW composes,
         activate_signed_policy(env, acceptance, enrolment, composes) = "Activated"
  PROVE  env \in Activatable
<1>1. verify_signature(env) # "Activated"
  BY DEF verify_signature
<1>2. verify_signature(env) = "Verified" /\ env.body \in Valid /\ ~(now + Skew < env.not_before)
  BY <1>1 DEF activate_signed_policy
<1> QED
  BY <1>2 DEF Activatable, Verified

\* Conversely, an activatable envelope the state does not stand against is activated
\* (activate_signed_policy).
LEMMA ActivatableIsActivated ==
  ASSUME NEW env \in Activatable, NEW acceptance \in Entries, NEW enrolment,
         enrolment = NoOrg \/ env.org = enrolment,
         AcceptanceState!Advances(acceptance, acceptance_from_envelope(env))
  PROVE  activate_signed_policy(env, acceptance, enrolment, TRUE) = "Activated"
<1>1. /\ env \in Envelope /\ verify_signature(env) = "Verified" /\ env.body \in Valid
      /\ ~(now + Skew < env.not_before)
  BY DEF Activatable, Verified
<1>2. env.revision \in Nat /\ acceptance.revision \in Nat
  BY <1>1, SignedPolicyAssumption, RevisionsAreNumbers
<1>3. /\ ~(env.revision < acceptance.revision)
      /\ acceptance.revision > 0 => env.org = acceptance.org
      /\ acceptance.revision > 0 /\ env.revision = acceptance.revision
           => env.digest = acceptance.digest
  BY <1>2 DEF AcceptanceState!Advances, acceptance_from_envelope
<1>4. ~ForeignTo(env, acceptance) /\ ~SameRevisionOtherDocument(env, acceptance)
  BY <1>3 DEF ForeignTo, SameRevisionOtherDocument
<1> QED
  BY <1>1, <1>3, <1>4 DEF activate_signed_policy

\* The cache of the start holds nothing.
LEMMA InitCache == Init => CacheInv
<1> SUFFICES ASSUME Init PROVE CacheInv
  OBVIOUS
<1>1. proc = Down /\ cache = None /\ now = 0 /\ fleet \in Fleet
  BY DEF Init
<1>2. proc.pc = "down"
  BY <1>1 DEF Down
<1>3. fleet \subseteq Enrolment
  BY <1>1, SignedPolicyAssumption
<1>4. now \in Nat
  BY <1>1
<1> QED
  BY <1>1, <1>2, <1>3, <1>4 DEF CacheInv, Busy

\* Steps that leave cache and files alone, or replace the cache by hand, keep the
\* invariant as long as what the process goes on with was activated.
LEMMA QuietCache ==
  ASSUME SignedInv, CacheInv,
         UNCHANGED <<settings, fleet, accepted>>,
         now' \in Nat, now' >= now,
         replaced' \/ (cache' = cache /\ replaced' = replaced),
         proc' # Down => proc'.enrolment \in fleet,
         proc'.pc \in Busy => proc'.env \in Activatable,
         ~replaced' /\ proc'.pc \in {"accepting", "acceptanceWritten", "installing"} =>
           cache = proc'.env
  PROVE  CacheInv'
<1>1. Activatable \subseteq Activatable'
  BY ActivatableIsKept DEF CacheInv
<1>2. fleet' \subseteq Enrolment'
  BY DEF CacheInv, Enrolment
<1>3. (proc # Down => proc.enrolment \in fleet)'
  OBVIOUS
<1>4. (proc.pc \in Busy => proc.env \in Activatable)'
  BY <1>1
<1>5. (~replaced /\ proc.pc \in {"accepting", "acceptanceWritten", "installing"} =>
         cache = proc.env)'
  OBVIOUS
<1>6. ASSUME ~replaced', cache' # None, NoOrg \notin fleet'
      PROVE  /\ cache' \in Activatable' /\ cache'.org \in fleet'
             /\ AcceptanceState!Advances(accepted'[AcceptanceFile[cache'.org]],
                                         acceptance_from_envelope(cache'))
  BY <1>1, <1>6 DEF CacheInv
<1> QED
  BY <1>2, <1>3, <1>4, <1>5, <1>6 DEF CacheInv

\* The two steps that write a file.  The cache takes the envelope in hand, which was
\* activated against the file of the enrolment it names (persist_signed_envelope).
LEMMA CacheIsWritten ==
  ASSUME SignedInv, CacheInv, PersistEnvelope, proc.pc = "cacheWritten"
  PROVE  CacheInv'
<1>1. /\ cache' = proc.env /\ proc' = [proc EXCEPT !.pc = "accepting"]
      /\ UNCHANGED <<settings, fleet, now, accepted, enforced, replaced>>
  BY DEF PersistEnvelope, Continue
<1>2. proc \in Working
  BY DEF SignedInv, Typed, Down, Idle
<1>3. proc'.pc = "accepting" /\ proc'.env = proc.env /\ proc'.enrolment = proc.enrolment
  BY <1>1, <1>2 DEF Working
<1>4. /\ proc.enrolment \in fleet /\ proc.env \in Activatable
      /\ now \in Nat /\ fleet \subseteq Enrolment
  BY DEF CacheInv, Busy, Down
<1>5. Activatable' = Activatable
  BY <1>1, VerifiedIsKept DEF Activatable
<1>6. /\ Authentic(proc.env, proc.enrolment)
      /\ AcceptanceState!Advances(accepted[AcceptanceFile[proc.enrolment]],
                                  acceptance_from_envelope(proc.env))
  BY DEF SignedInv, InHandIsActivated, Busy, MyFile
<1>7. NoOrg \notin fleet => proc.env.org = proc.enrolment
  BY <1>4, <1>6 DEF Authentic
<1> QED
  BY <1>1, <1>3, <1>4, <1>5, <1>6, <1>7 DEF CacheInv, Enrolment

\* The file of that enrolment takes the same envelope, and no other enrolment's cache is
\* at stake: the cache is this one's (persist_acceptance).
LEMMA FileIsWritten ==
  ASSUME SignedInv, CacheInv, PersistAcceptance, proc.pc = "acceptanceWritten"
  PROVE  CacheInv'
<1>1. /\ accepted' = [accepted EXCEPT ![MyFile] = acceptance_from_envelope(proc.env)]
      /\ proc' = [proc EXCEPT !.pc = "installing"]
      /\ UNCHANGED <<settings, fleet, now, cache, enforced, replaced>>
  BY DEF PersistAcceptance, Continue
<1>2. proc \in Working
  BY DEF SignedInv, Typed, Down, Idle
<1>3. proc'.pc = "installing" /\ proc'.env = proc.env /\ proc'.enrolment = proc.enrolment
  BY <1>1, <1>2 DEF Working
<1>4. /\ proc.enrolment \in fleet /\ proc.env \in Activatable
      /\ now \in Nat /\ fleet \subseteq Enrolment
      /\ ~replaced => cache = proc.env
  BY DEF CacheInv, Busy, Down
<1>5. Activatable' = Activatable
  BY <1>1, VerifiedIsKept DEF Activatable
<1>6. Authentic(proc.env, proc.enrolment)
  BY DEF SignedInv, InHandIsActivated, Busy
<1>7. NoOrg \notin fleet => proc.env.org = proc.enrolment
  BY <1>4, <1>6 DEF Authentic
<1>8. accepted'[AcceptanceFile[proc.enrolment]] = acceptance_from_envelope(proc.env)
  BY <1>1, RegisterMoves DEF MyFile
<1>9. AcceptanceState!Advances(acceptance_from_envelope(proc.env),
                               acceptance_from_envelope(proc.env))
  BY <1>2, RecordIsAnEntry, AdvancesReflexive DEF Working
<1> QED
  BY <1>1, <1>3, <1>4, <1>5, <1>7, <1>8, <1>9 DEF CacheInv, Enrolment

\* A process that activates an envelope, from the control plane or from the cache.
LEMMA TakeCache ==
  ASSUME NEW env \in Envelope, NEW pc \in {"caching", "accepting"},
         SignedInv, CacheInv, proc.pc = "running", Take(env, pc),
         pc = "accepting" => env = cache,
         UNCHANGED <<settings, fleet, now, cache, accepted, enforced, replaced>>
  PROVE  CacheInv'
<1>1. /\ proc' = [ pc |-> pc, enrolment |-> proc.enrolment,
                   acceptance |-> proc.acceptance, env |-> env ]
      /\ env \in Activatable
  BY ActivatedIsActivatable DEF Take
<1>2. proc'.pc = pc /\ proc'.enrolment = proc.enrolment /\ proc'.env = env
  BY <1>1
<1>3. proc # Down
  BY DEF Down
<1>4. proc.enrolment \in fleet /\ now \in Nat
  BY <1>3 DEF CacheInv
<1>5. proc'.pc \in {"accepting", "acceptanceWritten", "installing"} => cache = proc'.env
  BY <1>2
<1> QED
  BY <1>1, <1>2, <1>4, <1>5, QuietCache

\* The steps of the process that write neither file.
LEMMA ProcessCache ==
  ASSUME SignedInv, CacheInv, UNCHANGED <<settings, fleet, now, cache, accepted, replaced>>,
         \/ \E o \in Enrolment : Start(o)
         \/ PersistEnvelope /\ proc.pc = "caching"
         \/ PersistAcceptance /\ proc.pc = "accepting"
         \/ Install \/ PersistFails \/ Crash
  PROVE  CacheInv'
<1>1. now \in Nat /\ now' = now
  BY DEF CacheInv
<1>2. CASE \E o \in Enrolment : Start(o)
  <2>1. PICK o \in fleet : proc' = Running(o, accepted[AcceptanceFile[o]])
    BY <1>2 DEF Start
  <2>2. proc'.pc = "running" /\ proc'.enrolment \in fleet
    BY <2>1 DEF Running
  <2> QED
    BY <1>1, <2>2, QuietCache DEF Busy
<1>3. CASE PersistEnvelope /\ proc.pc = "caching"
  <2>1. proc \in Working /\ proc # Down /\ proc' = [proc EXCEPT !.pc = "cacheWritten"]
    BY <1>3 DEF SignedInv, Typed, Down, Idle, PersistEnvelope, Continue
  <2>2. /\ proc'.pc = "cacheWritten" /\ proc'.enrolment = proc.enrolment
        /\ proc'.env = proc.env
    BY <2>1 DEF Working
  <2>3. proc.enrolment \in fleet /\ proc.env \in Activatable
    BY <1>3, <2>1 DEF CacheInv, Busy
  <2> QED
    BY <1>1, <2>2, <2>3, QuietCache
<1>4. CASE PersistAcceptance /\ proc.pc = "accepting"
  <2>1. proc \in Working /\ proc # Down /\ proc' = [proc EXCEPT !.pc = "acceptanceWritten"]
    BY <1>4 DEF SignedInv, Typed, Down, Idle, PersistAcceptance, Continue
  <2>2. /\ proc'.pc = "acceptanceWritten" /\ proc'.enrolment = proc.enrolment
        /\ proc'.env = proc.env
    BY <2>1 DEF Working
  <2>3. /\ proc.enrolment \in fleet /\ proc.env \in Activatable
        /\ ~replaced => cache = proc.env
    BY <1>4, <2>1 DEF CacheInv, Busy
  <2> QED
    BY <1>1, <2>2, <2>3, QuietCache
<1>5. CASE Install
  <2>1. /\ proc.pc = "installing"
        /\ proc' = Running(proc.enrolment, acceptance_from_envelope(proc.env))
    BY <1>5 DEF Install
  <2>2. proc # Down /\ proc'.pc = "running" /\ proc'.enrolment = proc.enrolment
    BY <2>1 DEF Down, Running
  <2>3. proc.enrolment \in fleet
    BY <2>2 DEF CacheInv
  <2> QED
    BY <1>1, <2>2, <2>3, QuietCache DEF Busy
<1>6. CASE PersistFails
  <2>1. proc.pc # "down" /\ proc' = Running(proc.enrolment, proc.acceptance)
    BY <1>6 DEF PersistFails
  <2>2. proc # Down /\ proc'.pc = "running" /\ proc'.enrolment = proc.enrolment
    BY <2>1 DEF Down, Running
  <2>3. proc.enrolment \in fleet
    BY <2>2 DEF CacheInv
  <2> QED
    BY <1>1, <2>2, <2>3, QuietCache DEF Busy
<1>7. CASE Crash
  <2>1. proc' = Down /\ proc'.pc = "down"
    BY <1>7 DEF Crash, Down
  <2> QED
    BY <1>1, <2>1, QuietCache DEF Busy
<1> QED
  BY <1>2, <1>3, <1>4, <1>5, <1>6, <1>7

\* The clock, the hand that replaces the cache, and stuttering.
LEMMA SurroundingsCache ==
  ASSUME SignedInv, CacheInv, UNCHANGED <<settings, fleet, accepted, proc>>,
         now' = now \/ now' = now + 1,
         replaced' \/ (cache' = cache /\ replaced' = replaced)
  PROVE  CacheInv'
<1>1. now' \in Nat /\ now' >= now
  BY DEF CacheInv
<1>2. /\ proc' # Down => proc'.enrolment \in fleet
      /\ proc'.pc \in Busy => proc'.env \in Activatable
      /\ ~replaced' /\ ~replaced
           /\ proc'.pc \in {"accepting", "acceptanceWritten", "installing"} =>
             cache = proc'.env
  BY DEF CacheInv
<1> QED
  BY <1>1, <1>2, QuietCache

\* Every step of the specification keeps the cache usable.
LEMMA StepCache == SignedInv /\ CacheInv /\ [Next]_vars => CacheInv'
<1> SUFFICES ASSUME SignedInv, CacheInv, [Next]_vars PROVE CacheInv'
  OBVIOUS
<1>1. ASSUME NEW o \in Enrolment, Start(o) PROVE CacheInv'
  BY <1>1, ProcessCache DEF Start
<1>2. ASSUME NEW env \in Envelope, Download(env) PROVE CacheInv'
  BY <1>2, TakeCache DEF Download
<1>3. ASSUME NEW env \in Envelope, ReplaceCache(env) PROVE CacheInv'
  BY <1>3, SurroundingsCache DEF ReplaceCache
<1>4. ASSUME Reload PROVE CacheInv'
  BY <1>4, TakeCache DEF Reload, SignedInv, Typed
<1>5. ASSUME PersistEnvelope PROVE CacheInv'
  BY <1>5, CacheIsWritten, ProcessCache DEF PersistEnvelope
<1>6. ASSUME PersistAcceptance PROVE CacheInv'
  BY <1>6, FileIsWritten, ProcessCache DEF PersistAcceptance
<1>7. ASSUME Install PROVE CacheInv'
  BY <1>7, ProcessCache DEF Install
<1>8. ASSUME PersistFails PROVE CacheInv'
  BY <1>8, ProcessCache DEF PersistFails
<1>9. ASSUME Crash PROVE CacheInv'
  BY <1>9, ProcessCache DEF Crash
<1>10. ASSUME Tick PROVE CacheInv'
  BY <1>10, SurroundingsCache DEF Tick
<1>11. ASSUME UNCHANGED vars PROVE CacheInv'
  BY <1>11, SurroundingsCache DEF vars
<1> QED
  BY <1>1, <1>2, <1>3, <1>4, <1>5, <1>6, <1>7, <1>8, <1>9, <1>10, <1>11 DEF Next

\* Where every start is enrolled, a crash at any moment leaves a cache the next start can
\* activate (LastKnownGood; persist_signed_envelope through a temporary file, and
\* activate_signed_policy again at the start).
THEOREM KnownGoodIsKept == Spec => []LastKnownGood
<1>1. SignedInv /\ CacheInv => LastKnownGood
  <2> SUFFICES ASSUME SignedInv, CacheInv, ~replaced, cache # None, NoOrg \notin fleet
               PROVE  LastKnownGood
    BY DEF LastKnownGood
  <2>1. /\ cache \in Activatable /\ cache.org \in fleet /\ fleet \subseteq Enrolment
        /\ AcceptanceState!Advances(accepted[AcceptanceFile[cache.org]],
                                    acceptance_from_envelope(cache))
    BY DEF CacheInv
  <2>2. cache # Torn
    BY <2>1, SignedPolicyAssumption DEF Activatable, Verified
  <2>3. accepted[AcceptanceFile[cache.org]] \in Entries
    BY <2>1 DEF SignedInv, Typed, File
  <2>4. activate_signed_policy(cache, accepted[AcceptanceFile[cache.org]], cache.org, TRUE)
          = "Activated"
    BY <2>1, <2>3, ActivatableIsActivated
  <2> QED
    BY <2>2, <2>4 DEF LastKnownGood
<1>2. Spec => []CacheInv
  BY InitCache, StepCache, SignedInvariant, PTL DEF Spec
<1> QED
  BY <1>1, <1>2, SignedInvariant, PTL
=============================================================================
