----------------------------- MODULE GrantStore -----------------------------
(***************************************************************************)
(* The grant vault of gateway/approval/grant.rs as a value.                *)
(*                                                                         *)
(* StoreInner is one record; every method that runs under its mutex is an  *)
(* operator from a store to a store.  ApprovalGrants and Gateway hold such *)
(* a record in a variable and apply the operators in their actions.        *)
(*                                                                         *)
(* A digest is modelled as what it digests: two bindings have the same     *)
(* fingerprint exactly when every field they hash is the same.             *)
(***************************************************************************)
EXTENDS Integers, Sequences

CONSTANTS
  UsesLimit,   \* where saturating_add stops counting uses (u32::MAX in the code)
  HistoryCap   \* entries the audit ring keeps (HISTORY_CAP in the code)

ASSUME UsesLimitAssumption == UsesLimit \in Nat \ {0}
ASSUME HistoryCapAssumption == HistoryCap \in Nat \ {0}

(***************************************************************************)
(* Actions and what a grant binds.  An action under review is a record of  *)
(* its tool, arguments, target (resource and destination), caller identity *)
(* (label, bound id, trust, device, organization), session, environment    *)
(* and its security classification; level is the risk level it scored.     *)
(* The empty string stands for an identifier that is absent.               *)
(***************************************************************************)
Fingerprint(a) ==
  [ tool |-> a.tool, args |-> a.args, target |-> a.target,
    agent |-> a.agent, bound |-> a.bound, trust |-> a.trust,
    device |-> a.device, org |-> a.org, session |-> a.session, env |-> a.env ]

SessionScopeKey(a) ==
  [ principal |-> IF a.bound = "" THEN a.agent ELSE a.bound,
    device |-> a.device, session |-> a.session, tool |-> a.tool, env |-> a.env ]

UnsafeTraits ==
  { "destructive", "external_destination", "credential_access", "irreversible",
    "privileged" }
UnsafeResources == { "Credential", "Secret" }
UnsafeCategories ==
  { "Delete", "Deploy", "Escalate", "Execute", "Authenticate", "Send", "NetworkRequest" }

SessionApprovalSafe(a, level) ==
  /\ level \in {"Low", "Medium"}
  /\ a.traits \cap UnsafeTraits = {}
  /\ a.resources \cap UnsafeResources = {}
  /\ a.category \notin UnsafeCategories

(***************************************************************************)
(* Grants.  A grant without a use limit has a limit its counter never      *)
(* reaches.                                                                *)
(***************************************************************************)
Unlimited == UsesLimit + 1

NewGrant(scope, a, expiresAt, maxUses) ==
  [ scope |-> scope, action |-> a, expiresAt |-> expiresAt, maxUses |-> maxUses,
    uses |-> 0, consumed |-> FALSE ]

Covers(g, a) ==
  IF g.scope = "ExactAction"
    THEN Fingerprint(g.action) = Fingerprint(a)
    ELSE SessionScopeKey(g.action) = SessionScopeKey(a)

-----------------------------------------------------------------------------
(* The store. *)

NoEntries == [x \in {} |-> 0]
Put(f, k, v) == [x \in DOMAIN f \cup {k} |-> IF x = k THEN v ELSE f[x]]

EmptyStore ==
  [ byToken |-> NoEntries, exactIndex |-> NoEntries, sessionIndex |-> NoEntries,
    history |-> << >> ]

\* An entry of the audit ring; its time is left out, nothing reads it.
Entry(event, token) == [event |-> event, token |-> token]

\* Appends to the ring and drains what overflows the cap, oldest first.
PushHistory(s, entry) ==
  LET h == Append(s.history, entry)
  IN  [s EXCEPT !.history = IF Len(h) > HistoryCap
                              THEN SubSeq(h, Len(h) - HistoryCap + 1, Len(h))
                              ELSE h]

\* Mutant of Forget: the entry goes whichever grant it names.
ForgetKey(index, key, token) == [k \in DOMAIN index \ {key} |-> index[k]]

\* An index loses its entry for key only while that entry still names token.
Forget(index, key, token) ==
  [k \in {x \in DOMAIN index : x # key \/ index[x] # token} |-> index[k]]

PurgeIndexes(s, t) ==
  LET g == s.byToken[t]
  IN  IF g.scope = "ExactAction"
        THEN [s EXCEPT !.exactIndex = Forget(@, Fingerprint(g.action), t)]
        ELSE [s EXCEPT !.sessionIndex = Forget(@, SessionScopeKey(g.action), t)]

\* The insertions issue_with_expiry makes under the lock; a newer grant takes
\* over the index entry, the one it replaces stays redeemable by its token.
Insert(s, t, g) ==
  LET indexed ==
        IF g.scope = "ExactAction"
          THEN [s EXCEPT !.exactIndex = Put(@, Fingerprint(g.action), t)]
          ELSE [s EXCEPT !.sessionIndex = Put(@, SessionScopeKey(g.action), t)]
  IN  PushHistory([indexed EXCEPT !.byToken = Put(@, t, g)],
                  Entry("GrantIssued", t))

\* Mutant of Presentable: take_use without the consumed check.
PresentableAgain(s, t, scope) == t \in DOMAIN s.byToken /\ s.byToken[t].scope = scope

\* The order of take_use's early returns: unknown, scope, consumed, expired, binding.
Presentable(s, t, scope) ==
  /\ t \in DOMAIN s.byToken
  /\ s.byToken[t].scope = scope
  /\ ~s.byToken[t].consumed

\* Mutant of Usable: the binding is not compared.
UsableByAnyAction(s, t, a, at, scope) ==
  Presentable(s, t, scope) /\ at < s.byToken[t].expiresAt

Usable(s, t, a, at, scope) ==
  /\ Presentable(s, t, scope)
  /\ at < s.byToken[t].expiresAt
  /\ Covers(s.byToken[t], a)

FoundExpired(s, t, at, scope) ==
  /\ Presentable(s, t, scope)
  /\ at >= s.byToken[t].expiresAt

\* Mutant of Used: the last use does not consume the grant.
UsedNeverConsumed(g) ==
  [g EXCEPT !.uses = IF g.uses < UsesLimit THEN g.uses + 1 ELSE g.uses]

Used(g) ==
  LET uses == IF g.uses < UsesLimit THEN g.uses + 1 ELSE g.uses
  IN  [g EXCEPT !.uses = uses, !.consumed = uses >= g.maxUses]

\* take_use when it returns Ok.
Spend(s, t) ==
  LET g == Used(s.byToken[t])
      spent == [s EXCEPT !.byToken = Put(@, t, g)]
  IN  IF g.consumed THEN PurgeIndexes(spent, t) ELSE spent

\* take_use when it returns Err: an expired grant is retired on the way.
Refuse(s, t, at, scope) ==
  IF FoundExpired(s, t, at, scope)
    THEN PurgeIndexes([s EXCEPT !.byToken = Put(@, t, [s.byToken[t] EXCEPT !.consumed = TRUE])], t)
    ELSE s

NoteReject(s, t) == PushHistory(s, Entry("GrantRejected", t))

-----------------------------------------------------------------------------
(* authorize: the exact index first, then, for a session-safe action, the
   session index.  ExactHit and SessionHit are the tokens that authorize. *)

ExactIndexed(s, a) == Fingerprint(a) \in DOMAIN s.exactIndex
SessionIndexed(s, a) ==
  /\ SessionApprovalSafe(a, "Medium")
  /\ SessionScopeKey(a) \in DOMAIN s.sessionIndex

ExactHit(s, a, at) ==
  { t \in {s.exactIndex[k] : k \in DOMAIN s.exactIndex \cap {Fingerprint(a)}} :
      Usable(s, t, a, at, "ExactAction") }

\* The store after the exact lookup found nothing it could use.
AfterExactMiss(s, a, at) ==
  IF ExactIndexed(s, a)
    THEN LET t == s.exactIndex[Fingerprint(a)]
         IN  NoteReject(Refuse(s, t, at, "ExactAction"), t)
    ELSE s

SessionHit(s, a, at) ==
  { t \in {s.sessionIndex[k] : k \in DOMAIN s.sessionIndex \cap {SessionScopeKey(a)}} :
      SessionIndexed(s, a) /\ Usable(s, t, a, at, "SessionTool") }

AfterSessionMiss(s, a, at) ==
  IF SessionIndexed(s, a)
    THEN LET t == s.sessionIndex[SessionScopeKey(a)]
         IN  NoteReject(Refuse(s, t, at, "SessionTool"), t)
    ELSE s
=============================================================================
