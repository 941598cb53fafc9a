--------------------------- MODULE ApprovalGrants ---------------------------
(***************************************************************************)
(* ApprovalGrantStore shared by concurrent callers                         *)
(* (gateway/approval/grant.rs).                                            *)
(*                                                                         *)
(* Every method samples the clock, and issue_* also draws its sequence     *)
(* number, before it waits for the mutex, and authorize writes its audit   *)
(* entry under a second acquisition.  A call is therefore up to three      *)
(* steps, and the calls of other callers and the clock run between them.   *)
(***************************************************************************)
EXTENDS GrantStore, FiniteSets

CONSTANTS
  Caller,       \* threads that share the store
  Action,       \* the actions they present
  MaxGrants,    \* bound: grants issued in a behaviour
  MaxTime,      \* bound: the last instant the clock reaches
  OnceTtl,      \* DEFAULT_ONCE_TTL
  SessionTtl    \* DEFAULT_SESSION_TTL

ASSUME BoundsAssumption ==
  /\ MaxGrants \in Nat /\ MaxTime \in Nat
  /\ OnceTtl \in Nat /\ SessionTtl \in Nat

VARIABLES
  now,    \* the wall clock (Utc::now)
  seq,    \* the AtomicU64 that numbers grants
  inner,  \* StoreInner, guarded by the mutex
  call,   \* what each caller is in the middle of
  spent   \* ghost: how many calls each grant has authorized (counted up to UsesLimit)

vars == <<now, seq, inner, call, spent>>

Token == 1 .. MaxGrants
NoToken == 0

Idle == [pc |-> "idle"]

Init ==
  /\ now = 0
  /\ seq = 0
  /\ inner = EmptyStore
  /\ call = [c \in Caller |-> Idle]
  /\ spent = [t \in Token |-> 0]

Become(c, state) == call' = [call EXCEPT ![c] = state]

CountUse(t) ==
  spent' = [spent EXCEPT ![t] = IF @ < UsesLimit THEN @ + 1 ELSE @]

-----------------------------------------------------------------------------
(* Issuing. *)

\* Mutant of BeginIssue: the sequence number is read, not advanced.
BeginIssueStaleSeq(c, scope, a, expiresAt, maxUses) ==
  /\ call[c] = Idle
  /\ seq < MaxGrants
  /\ Become(c, [pc |-> "issuing", token |-> seq + 1,
                grant |-> NewGrant(scope, a, expiresAt, maxUses)])
  /\ UNCHANGED <<now, seq, inner, spent>>

\* issue_*: expiry and token are fixed before the lock is taken.
BeginIssue(c, scope, a, expiresAt, maxUses) ==
  /\ call[c] = Idle
  /\ seq < MaxGrants
  /\ seq' = seq + 1
  /\ Become(c, [pc |-> "issuing", token |-> seq + 1,
                grant |-> NewGrant(scope, a, expiresAt, maxUses)])
  /\ UNCHANGED <<now, inner, spent>>

IssueOnce(c, a) == BeginIssue(c, "ExactAction", a, now + OnceTtl, 1)

\* The callers of issue_session hold an eligible brief (mint_grants_for_verdict).
IssueSession(c, a) ==
  /\ a.session # ""
  /\ SessionApprovalSafe(a, a.level)
  /\ BeginIssue(c, "SessionTool", a, now + SessionTtl, Unlimited)

IssueUntil(c, a) ==
  \E expiresAt \in now + 1 .. MaxTime :
    BeginIssue(c, "ExactAction", a, expiresAt, Unlimited)

CommitIssue(c) ==
  /\ call[c].pc = "issuing"
  /\ inner' = Insert(inner, call[c].token, call[c].grant)
  /\ Become(c, Idle)
  /\ UNCHANGED <<now, seq, spent>>

-----------------------------------------------------------------------------
(* authorize. *)

BeginAuthorize(c, a) ==
  /\ call[c] = Idle
  /\ Become(c, [pc |-> "authorizing", action |-> a, at |-> now])
  /\ UNCHANGED <<now, seq, inner, spent>>

\* Mutant of Authorized: the use is not recorded.
AuthorizedUnrecorded(c, t, store) ==
  /\ inner' = Spend(store, t)
  /\ CountUse(t)
  /\ Become(c, Idle)
  /\ UNCHANGED <<now, seq>>

\* A grant is found and used; its audit entry waits for a second lock.
Authorized(c, t, store) ==
  /\ inner' = Spend(store, t)
  /\ CountUse(t)
  /\ Become(c, [pc |-> "recording", event |-> "GrantConsumed", token |-> t])
  /\ UNCHANGED <<now, seq>>

AuthorizeExact(c) ==
  /\ call[c].pc = "authorizing"
  /\ \E t \in ExactHit(inner, call[c].action, call[c].at) : Authorized(c, t, inner)

AuthorizeSession(c) ==
  /\ call[c].pc = "authorizing"
  /\ ExactHit(inner, call[c].action, call[c].at) = {}
  /\ LET missed == AfterExactMiss(inner, call[c].action, call[c].at)
     IN  \E t \in SessionHit(missed, call[c].action, call[c].at) :
           Authorized(c, t, missed)

AuthorizeNone(c) ==
  /\ call[c].pc = "authorizing"
  /\ ExactHit(inner, call[c].action, call[c].at) = {}
  /\ LET a == call[c].action
         missed == AfterExactMiss(inner, a, call[c].at)
     IN  /\ SessionHit(missed, a, call[c].at) = {}
         /\ inner' = AfterSessionMiss(missed, a, call[c].at)
  /\ Become(c, Idle)
  /\ UNCHANGED <<now, seq, spent>>

-----------------------------------------------------------------------------
(* redeem: one acquisition, audit entry included. *)

BeginRedeem(c, t, a) ==
  /\ call[c] = Idle
  /\ Become(c, [pc |-> "redeeming", token |-> t, action |-> a, at |-> now])
  /\ UNCHANGED <<now, seq, inner, spent>>

Redeemable(t, a, at) ==
  t \in DOMAIN inner.byToken /\ Usable(inner, t, a, at, inner.byToken[t].scope)

RedeemOk(c) ==
  /\ call[c].pc = "redeeming"
  /\ LET t == call[c].token
     IN  /\ Redeemable(t, call[c].action, call[c].at)
         /\ inner' = PushHistory(Spend(inner, t), Entry("GrantConsumed", t))
         /\ CountUse(t)
  /\ Become(c, Idle)
  /\ UNCHANGED <<now, seq>>

RedeemErr(c) ==
  /\ call[c].pc = "redeeming"
  /\ LET t == call[c].token
     IN  /\ ~Redeemable(t, call[c].action, call[c].at)
         /\ inner' = IF t \in DOMAIN inner.byToken
                       THEN NoteReject(Refuse(inner, t, call[c].at, inner.byToken[t].scope), t)
                       ELSE NoteReject(inner, NoToken)
  /\ Become(c, Idle)
  /\ UNCHANGED <<now, seq, spent>>

-----------------------------------------------------------------------------
(* The audit ring. *)

\* record_decision, whether the approver allowed or denied.
RecordDecision(c) ==
  /\ call[c] = Idle
  /\ Become(c, [pc |-> "recording", event |-> "Decided", token |-> NoToken])
  /\ UNCHANGED <<now, seq, inner, spent>>

\* push_history.
Record(c) ==
  /\ call[c].pc = "recording"
  /\ inner' = PushHistory(inner, Entry(call[c].event, call[c].token))
  /\ Become(c, Idle)
  /\ UNCHANGED <<now, seq, spent>>

Tick ==
  /\ now < MaxTime
  /\ now' = now + 1
  /\ UNCHANGED <<seq, inner, call, spent>>

Step(c) ==
  \/ \E a \in Action :
       \/ IssueOnce(c, a)
       \/ IssueSession(c, a)
       \/ IssueUntil(c, a)
       \/ BeginAuthorize(c, a)
       \/ \E t \in Token \cup {NoToken} : BeginRedeem(c, t, a)
  \/ CommitIssue(c)
  \/ AuthorizeExact(c)
  \/ AuthorizeSession(c)
  \/ AuthorizeNone(c)
  \/ RedeemOk(c)
  \/ RedeemErr(c)
  \/ RecordDecision(c)
  \/ Record(c)

Next == Tick \/ \E c \in Caller : Step(c)

Spec == Init /\ [][Next]_vars

-----------------------------------------------------------------------------
(* What the store promises. *)

Event == {"Decided", "GrantIssued", "GrantConsumed", "GrantRejected"}

Grant ==
  [ scope : {"ExactAction", "SessionTool"}, action : Action, expiresAt : Nat,
    maxUses : {1, Unlimited}, uses : 0 .. UsesLimit, consumed : BOOLEAN ]

AuditEntry == [event : Event, token : Token \cup {NoToken}]

IsMap(f, S, T) == DOMAIN f \subseteq S /\ f \in [DOMAIN f -> T]

IsStore(s) ==
  /\ s = [ byToken |-> s.byToken, exactIndex |-> s.exactIndex,
           sessionIndex |-> s.sessionIndex, history |-> s.history ]
  /\ IsMap(s.byToken, Token, Grant)
  /\ IsMap(s.exactIndex, {Fingerprint(a) : a \in Action}, Token)
  /\ IsMap(s.sessionIndex, {SessionScopeKey(a) : a \in Action}, Token)
  /\ s.history \in Seq(AuditEntry)
  /\ Len(s.history) <= HistoryCap

CallState ==
  {Idle}
    \cup [pc : {"issuing"}, token : Token, grant : Grant]
    \cup [pc : {"authorizing"}, action : Action, at : Nat]
    \cup [pc : {"redeeming"}, token : Token \cup {NoToken}, action : Action, at : Nat]
    \cup [pc : {"recording"}, event : Event, token : Token \cup {NoToken}]

\* Every variable holds a value of the type the code declares for it, and the audit
\* ring never holds more than its cap, whichever path appended last.
TypeOK ==
  /\ now \in Nat
  /\ seq \in 0 .. MaxGrants
  /\ IsStore(inner)
  /\ call \in [Caller -> CallState]
  /\ spent \in [Token -> 0 .. UsesLimit]

\* What either index of a store names can still be used: the grant is in the
\* vault, is not consumed, has the scope of that index and is filed under its key.
IndexesLiveIn(s) ==
  /\ \A f \in DOMAIN s.exactIndex :
       /\ Presentable(s, s.exactIndex[f], "ExactAction")
       /\ Fingerprint(s.byToken[s.exactIndex[f]].action) = f
  /\ \A k \in DOMAIN s.sessionIndex :
       /\ Presentable(s, s.sessionIndex[k], "SessionTool")
       /\ SessionScopeKey(s.byToken[s.sessionIndex[k]].action) = k

\* No index entry outlives its grant: a stale one would make authorize reject an
\* action and hide whatever else covers it (issue_with_expiry, take_use,
\* purge_indexes, over every order in which callers reach the lock).
IndexesLive == IndexesLiveIn(inner)

\* A single-use grant authorizes at most one call, over authorize and redeem, in
\* whatever order concurrent callers reach the lock ("single-use grants are
\* consumed on first successful match").
SingleUse ==
  \A t \in DOMAIN inner.byToken :
    inner.byToken[t].maxUses = 1 => spent[t] <= 1

\* The strengthening SingleUse and IndexesLive need to be inductive: a token
\* under issue is new, belongs to one caller, and carries an unused grant ...
IssuesAreFresh ==
  /\ \A t \in DOMAIN inner.byToken : t <= seq
  /\ \A c \in Caller :
       call[c].pc = "issuing" =>
         /\ call[c].token <= seq
         /\ call[c].token \notin DOMAIN inner.byToken
         /\ ~call[c].grant.consumed
         /\ \A d \in Caller :
              call[d].pc = "issuing" /\ call[d].token = call[c].token => c = d

\* ... a grant outside the vault has authorized nothing, and a single-use grant
\* that is not consumed has authorized nothing yet.
UsesAreCounted ==
  \A t \in Token :
    /\ t \notin DOMAIN inner.byToken => spent[t] = 0
    /\ t \in DOMAIN inner.byToken /\ inner.byToken[t].maxUses = 1 =>
         /\ spent[t] <= 1
         /\ ~inner.byToken[t].consumed => spent[t] = 0

IndInv == TypeOK /\ IndexesLive /\ IssuesAreFresh /\ UsesAreCounted

\* Once a grant is consumed, by its last use or by being found expired, it stays
\* in the vault, stays consumed, and authorizes nothing more.
ConsumedIsFinal ==
  [][ \A t \in DOMAIN inner.byToken :
        inner.byToken[t].consumed =>
          /\ t \in DOMAIN inner'.byToken
          /\ inner'.byToken[t].consumed
          /\ spent'[t] = spent[t] ]_vars

\* Retiring a grant never takes away the index entry of the grant that replaced
\* it: an entry disappears only in the step that consumes the grant it names, and
\* changes only to a grant that was not there before.
IndexesFollowTheirGrants ==
  [][ /\ \A f \in DOMAIN inner.exactIndex :
           \/ /\ f \notin DOMAIN inner'.exactIndex
              /\ inner'.byToken[inner.exactIndex[f]].consumed
           \/ /\ f \in DOMAIN inner'.exactIndex
              /\ \/ inner'.exactIndex[f] = inner.exactIndex[f]
                 \/ inner'.exactIndex[f] \notin DOMAIN inner.byToken
      /\ \A k \in DOMAIN inner.sessionIndex :
           \/ /\ k \notin DOMAIN inner'.sessionIndex
              /\ inner'.byToken[inner.sessionIndex[k]].consumed
           \/ /\ k \in DOMAIN inner'.sessionIndex
              /\ \/ inner'.sessionIndex[k] = inner.sessionIndex[k]
                 \/ inner'.sessionIndex[k] \notin DOMAIN inner.byToken ]_vars

\* A use is always of a grant that covers the presented action and had not
\* expired when the call began; a call that rides on a session grant through
\* authorize presents an action that is session-safe by itself.
UsesAreCovered ==
  [][ \A t \in Token :
        spent'[t] # spent[t] =>
          \E c \in Caller :
            /\ call[c].pc \in {"authorizing", "redeeming"}
            /\ Covers(inner.byToken[t], call[c].action)
            /\ call[c].at < inner.byToken[t].expiresAt
            /\ \/ call[c].pc = "redeeming"
               \/ inner.byToken[t].scope = "ExactAction"
               \/ SessionApprovalSafe(call[c].action, "Medium") ]_vars

AuditedUses(t) ==
  Cardinality({i \in 1 .. Len(inner.history) :
                 inner.history[i] = Entry("GrantConsumed", t)})
  + Cardinality({c \in Caller : call[c].pc = "recording" /\ call[c].token = t})

\* No use is audited twice, and until the ring starts to trim every use has its audit
\* entry or a caller that is about to write it: the entry authorize writes under
\* its second lock is neither lost nor invented.
UsesAreAudited ==
  \A t \in Token :
    spent[t] < UsesLimit =>
      /\ AuditedUses(t) <= spent[t]
      /\ Len(inner.history) < HistoryCap => AuditedUses(t) = spent[t]

-----------------------------------------------------------------------------
(* The store implements GrantVault: the terms of a grant are what its      *)
(* counters leave alone, it is open until it is consumed, and a caller     *)
(* waits from the moment it samples the clock until it holds the lock.     *)

TermsOf(g) ==
  [scope |-> g.scope, action |-> g.action, expiresAt |-> g.expiresAt, maxUses |-> g.maxUses]

GrantTerms == [t \in DOMAIN inner.byToken |-> TermsOf(inner.byToken[t])]

OpenGrants == {t \in DOMAIN inner.byToken : ~inner.byToken[t].consumed}

RequestOf(state) ==
  IF state.pc \in {"authorizing", "redeeming"}
    THEN [ kind |-> state.pc, action |-> state.action, at |-> state.at,
           token |-> IF state.pc = "redeeming" THEN state.token ELSE NoToken ]
    ELSE [kind |-> "none"]

Requests == [c \in Caller |-> RequestOf(call[c])]

SessionEligible(a) == a.session # "" /\ SessionApprovalSafe(a, a.level)
SessionSafe(a) == SessionApprovalSafe(a, "Medium")

Vault ==
  INSTANCE GrantVault
    WITH terms <- GrantTerms, open <- OpenGrants, uses <- spent, request <- Requests

\* Whatever the indexes and the two locks do, each call sees a vault in which grants
\* are issued, used and closed in one step: a grant is closed by its last use or by
\* a call made after its expiry and never before, stays closed, and a call that
\* redeems a grant that is good for it is not refused.
VaultImplemented == Vault!Spec

=============================================================================
