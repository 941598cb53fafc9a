------------------------ MODULE ApprovalGrants_proofs ------------------------
(***************************************************************************)
(* Proofs about ApprovalGrants for every set of callers and actions and    *)
(* every value of the bounds.                                              *)
(*                                                                         *)
(* The store operators come first: each maps a well-formed store whose     *)
(* indexes are live to another such store, and says what it does to the    *)
(* vault.  The invariant and the action properties follow by cases on      *)
(* Next, with one lemma cited per operator.  The refinement of GrantVault  *)
(* comes last: which grants each operator closes, then each step.          *)
(***************************************************************************)
EXTENDS ApprovalGrants, SequenceTheorems, FiniteSetTheorems, TLAPS

StoreOk(s) == IsStore(s) /\ IndexesLiveIn(s)

\* Appending to the audit ring touches nothing else in the store.
LEMMA PushHistoryFrame ==
  ASSUME NEW s, IsStore(s), NEW e \in AuditEntry
  PROVE  /\ IsStore(PushHistory(s, e))
         /\ PushHistory(s, e).byToken = s.byToken
         /\ PushHistory(s, e).exactIndex = s.exactIndex
         /\ PushHistory(s, e).sessionIndex = s.sessionIndex
<1> DEFINE h == Append(s.history, e)
           kept == IF Len(h) > HistoryCap
                     THEN SubSeq(h, Len(h) - HistoryCap + 1, Len(h)) ELSE h
<1>1. h \in Seq(AuditEntry)
  BY DEF IsStore
<1>2. kept \in Seq(AuditEntry) /\ Len(kept) <= HistoryCap
  <2>1. CASE Len(h) > HistoryCap
    <3>1. Len(h) - HistoryCap + 1 \in 1 .. Len(h) /\ Len(h) \in 1 .. Len(h)
      BY <1>1, <2>1, LenProperties, HistoryCapAssumption
    <3>. HIDE DEF h
    <3>2. \A i \in Len(h) - HistoryCap + 1 .. Len(h) : i \in 1 .. Len(h)
      BY <1>1, <3>1, LenProperties, HistoryCapAssumption
    <3>3. /\ kept \in Seq(AuditEntry)
          /\ Len(kept) = Len(h) - (Len(h) - HistoryCap + 1) + 1
      BY <1>1, <2>1, <3>1, <3>2, LenProperties, HistoryCapAssumption, SubSeqProperties
    <3>. QED  BY <1>1, <3>3, LenProperties, HistoryCapAssumption
  <2>2. CASE ~(Len(h) > HistoryCap)
    BY <1>1, <2>2, LenProperties, HistoryCapAssumption
  <2>. QED  BY <2>1, <2>2
<1>3. PushHistory(s, e) = [s EXCEPT !.history = kept]
  BY DEF PushHistory
<1>. HIDE DEF kept, h
<1>. QED  BY <1>2, <1>3 DEF IsStore

\* An operator on the audit ring alone keeps the indexes live.
LEMMA PushHistoryOk ==
  ASSUME NEW s, StoreOk(s), NEW e \in AuditEntry
  PROVE  StoreOk(PushHistory(s, e))
BY PushHistoryFrame DEF StoreOk, IndexesLiveIn, Presentable

\* Replacing a grant by one with the same scope and action, and retiring it from
\* its index when the new one is consumed, keeps the indexes live.
LEMMA ReplaceOk ==
  ASSUME NEW s, StoreOk(s), NEW t \in DOMAIN s.byToken, NEW g \in Grant,
         g.scope = s.byToken[t].scope, g.action = s.byToken[t].action,
         NEW r,
         r = LET new == [s EXCEPT !.byToken = Put(@, t, g)]
             IN  IF g.consumed THEN PurgeIndexes(new, t) ELSE new
  PROVE  /\ StoreOk(r)
         /\ r.byToken = Put(s.byToken, t, g)
         /\ r.history = s.history
<1> DEFINE new == [s EXCEPT !.byToken = Put(@, t, g)]
<1>1. /\ new.byToken = Put(s.byToken, t, g)
      /\ new.exactIndex = s.exactIndex
      /\ new.sessionIndex = s.sessionIndex
      /\ new.history = s.history
      /\ new = [ byToken |-> new.byToken, exactIndex |-> new.exactIndex,
                 sessionIndex |-> new.sessionIndex, history |-> new.history ]
  BY DEF StoreOk, IsStore
<1>2. /\ IsMap(new.byToken, Token, Grant)
      /\ DOMAIN new.byToken = DOMAIN s.byToken
      /\ new.byToken[t] = g
      /\ \A x \in DOMAIN s.byToken : x # t => new.byToken[x] = s.byToken[x]
  <2>1. t \in Token /\ IsMap(s.byToken, Token, Grant)
    BY DEF StoreOk, IsStore, IsMap
  <2>2. DOMAIN s.byToken \cup {t} = DOMAIN s.byToken
    OBVIOUS
  <2>. HIDE DEF new
  <2>. QED  BY <1>1, <2>1, <2>2 DEF IsMap, Put
<1>3. IsStore(new)
  BY <1>1, <1>2 DEF StoreOk, IsStore
<1>. HIDE DEF new
<1>4. CASE ~g.consumed
  <2>1. r = new
    BY <1>4 DEF new
  <2>2. ASSUME NEW x, NEW scope, Presentable(s, x, scope)
        PROVE  Presentable(new, x, scope) /\ new.byToken[x].action = s.byToken[x].action
    BY <1>2, <1>4, <2>2 DEF Presentable
  <2>3. /\ \A f \in DOMAIN s.exactIndex :
             /\ Presentable(s, s.exactIndex[f], "ExactAction")
             /\ Fingerprint(s.byToken[s.exactIndex[f]].action) = f
        /\ \A k \in DOMAIN s.sessionIndex :
             /\ Presentable(s, s.sessionIndex[k], "SessionTool")
             /\ SessionScopeKey(s.byToken[s.sessionIndex[k]].action) = k
    BY DEF StoreOk, IndexesLiveIn
  <2>4. IndexesLiveIn(new)
    BY <1>1, <2>2, <2>3 DEF IndexesLiveIn
  <2>. QED  BY <1>1, <1>3, <2>1, <2>4 DEF StoreOk
<1>5. CASE g.consumed /\ g.scope = "ExactAction"
  <2> DEFINE index == Forget(s.exactIndex, Fingerprint(g.action), t)
  <2>1. r = [new EXCEPT !.exactIndex = index]
    BY <1>1, <1>2, <1>5 DEF new, PurgeIndexes
  <2>2. /\ IsMap(index, {Fingerprint(a) : a \in Action}, Token)
        /\ DOMAIN index = {x \in DOMAIN s.exactIndex :
                             x # Fingerprint(g.action) \/ s.exactIndex[x] # t}
        /\ \A x \in DOMAIN index : index[x] = s.exactIndex[x]
    BY DEF StoreOk, IsStore, IsMap, Forget
  <2>. HIDE DEF index
  <2>3. /\ IsStore(r)
        /\ r.byToken = new.byToken
        /\ r.exactIndex = index
        /\ r.sessionIndex = s.sessionIndex
        /\ r.history = s.history
    BY <1>1, <1>3, <2>1, <2>2 DEF IsStore
  <2>4. ASSUME NEW f \in DOMAIN index
        PROVE  /\ Presentable(r, index[f], "ExactAction")
               /\ Fingerprint(r.byToken[index[f]].action) = f
    <3>1. /\ Presentable(s, s.exactIndex[f], "ExactAction")
          /\ Fingerprint(s.byToken[s.exactIndex[f]].action) = f
      BY <2>2, <2>4 DEF StoreOk, IndexesLiveIn
    <3>2. PICK x : x = s.exactIndex[f] /\ x = index[f]
      BY <2>2, <2>4
    <3>3. x # t /\ x \in DOMAIN s.byToken
      BY <2>2, <2>4, <3>1, <3>2 DEF Presentable
    <3>4. x \in DOMAIN r.byToken /\ r.byToken[x] = s.byToken[x]
      BY <1>2, <2>3, <3>3
    <3>. QED  BY <3>1, <3>2, <3>4 DEF Presentable
  <2>5. ASSUME NEW k \in DOMAIN s.sessionIndex
        PROVE  /\ Presentable(r, s.sessionIndex[k], "SessionTool")
               /\ SessionScopeKey(r.byToken[s.sessionIndex[k]].action) = k
    <3>1. /\ Presentable(s, s.sessionIndex[k], "SessionTool")
          /\ SessionScopeKey(s.byToken[s.sessionIndex[k]].action) = k
      BY <2>5 DEF StoreOk, IndexesLiveIn
    <3>2. s.sessionIndex[k] # t
      BY <1>5, <3>1 DEF Presentable
    <3>. QED  BY <1>2, <2>3, <3>1, <3>2 DEF Presentable
  <2>. QED  BY <1>1, <2>3, <2>4, <2>5 DEF StoreOk, IndexesLiveIn
<1>6. CASE g.consumed /\ g.scope = "SessionTool"
  <2> DEFINE index == Forget(s.sessionIndex, SessionScopeKey(g.action), t)
  <2>1. r = [new EXCEPT !.sessionIndex = index]
    BY <1>1, <1>2, <1>6 DEF new, PurgeIndexes
  <2>2. /\ IsMap(index, {SessionScopeKey(a) : a \in Action}, Token)
        /\ DOMAIN index = {x \in DOMAIN s.sessionIndex :
                             x # SessionScopeKey(g.action) \/ s.sessionIndex[x] # t}
        /\ \A x \in DOMAIN index : index[x] = s.sessionIndex[x]
    BY DEF StoreOk, IsStore, IsMap, Forget
  <2>. HIDE DEF index
  <2>3. /\ IsStore(r)
        /\ r.byToken = new.byToken
        /\ r.sessionIndex = index
        /\ r.exactIndex = s.exactIndex
        /\ r.history = s.history
    BY <1>1, <1>3, <2>1, <2>2 DEF IsStore
  <2>4. ASSUME NEW k \in DOMAIN index
        PROVE  /\ Presentable(r, index[k], "SessionTool")
               /\ SessionScopeKey(r.byToken[index[k]].action) = k
    <3>1. /\ Presentable(s, s.sessionIndex[k], "SessionTool")
          /\ SessionScopeKey(s.byToken[s.sessionIndex[k]].action) = k
      BY <2>2, <2>4 DEF StoreOk, IndexesLiveIn
    <3>2. PICK x : x = s.sessionIndex[k] /\ x = index[k]
      BY <2>2, <2>4
    <3>3. x # t /\ x \in DOMAIN s.byToken
      BY <2>2, <2>4, <3>1, <3>2 DEF Presentable
    <3>4. x \in DOMAIN r.byToken /\ r.byToken[x] = s.byToken[x]
      BY <1>2, <2>3, <3>3
    <3>. QED  BY <3>1, <3>2, <3>4 DEF Presentable
  <2>5. ASSUME NEW f \in DOMAIN s.exactIndex
        PROVE  /\ Presentable(r, s.exactIndex[f], "ExactAction")
               /\ Fingerprint(r.byToken[s.exactIndex[f]].action) = f
    <3>1. /\ Presentable(s, s.exactIndex[f], "ExactAction")
          /\ Fingerprint(s.byToken[s.exactIndex[f]].action) = f
      BY <2>5 DEF StoreOk, IndexesLiveIn
    <3>2. s.exactIndex[f] # t
      BY <1>6, <3>1 DEF Presentable
    <3>. QED  BY <1>2, <2>3, <3>1, <3>2 DEF Presentable
  <2>. QED  BY <1>1, <2>3, <2>4, <2>5 DEF StoreOk, IndexesLiveIn
<1>. QED  BY <1>4, <1>5, <1>6 DEF Grant

\* Counting a use keeps a grant well-formed; a single-use grant is then consumed.
LEMMA UsedGrant ==
  ASSUME NEW h \in Grant
  PROVE  /\ Used(h) \in Grant
         /\ Used(h).scope = h.scope
         /\ Used(h).action = h.action
         /\ Used(h).maxUses = h.maxUses
         /\ Used(h).expiresAt = h.expiresAt
         /\ h.maxUses = 1 => Used(h).consumed
<1> DEFINE uses == IF h.uses < UsesLimit THEN h.uses + 1 ELSE h.uses
           over == uses >= h.maxUses
<1>1. h.uses \in 0 .. UsesLimit /\ h.maxUses \in {1, Unlimited}
  BY DEF Grant
<1>2. uses \in 0 .. UsesLimit /\ uses >= 1
  BY <1>1, UsesLimitAssumption
<1>3. over \in BOOLEAN
  OBVIOUS
<1>4. h.maxUses = 1 => over
  BY <1>2
<1>5. Used(h) = [h EXCEPT !.uses = uses, !.consumed = over]
  BY DEF Used
<1>. HIDE DEF uses, over
<1>. QED  BY <1>2, <1>3, <1>4, <1>5 DEF Grant

\* take_use on success: one more use, and the vault otherwise as it was.
LEMMA SpendOk ==
  ASSUME NEW s, StoreOk(s), NEW t \in DOMAIN s.byToken, ~s.byToken[t].consumed
  PROVE  /\ StoreOk(Spend(s, t))
         /\ DOMAIN Spend(s, t).byToken = DOMAIN s.byToken
         /\ Spend(s, t).byToken[t] = Used(s.byToken[t])
         /\ \A x \in DOMAIN s.byToken : x # t => Spend(s, t).byToken[x] = s.byToken[x]
<1> DEFINE g == Used(s.byToken[t])
<1>1. s.byToken[t] \in Grant
  BY DEF StoreOk, IsStore, IsMap
<1>2. g \in Grant /\ g.scope = s.byToken[t].scope /\ g.action = s.byToken[t].action
  BY <1>1, UsedGrant
<1>3. Spend(s, t) = LET new == [s EXCEPT !.byToken = Put(@, t, g)]
                    IN  IF g.consumed THEN PurgeIndexes(new, t) ELSE new
  BY DEF Spend
<1>. HIDE DEF g
<1>4. StoreOk(Spend(s, t)) /\ Spend(s, t).byToken = Put(s.byToken, t, g)
  BY <1>2, <1>3, ReplaceOk
<1>. QED  BY <1>4 DEF Put, g

\* take_use on failure: at most it marks an expired grant consumed.
LEMMA RefuseOk ==
  ASSUME NEW s, StoreOk(s), NEW t, NEW at, NEW scope
  PROVE  /\ StoreOk(Refuse(s, t, at, scope))
         /\ DOMAIN Refuse(s, t, at, scope).byToken = DOMAIN s.byToken
         /\ \A x \in DOMAIN s.byToken :
              \/ Refuse(s, t, at, scope).byToken[x] = s.byToken[x]
              \/ Refuse(s, t, at, scope).byToken[x] = [s.byToken[x] EXCEPT !.consumed = TRUE]
<1>1. CASE ~FoundExpired(s, t, at, scope)
  BY <1>1 DEF Refuse
<1>2. CASE FoundExpired(s, t, at, scope)
  <2> DEFINE g == [s.byToken[t] EXCEPT !.consumed = TRUE]
             r == Refuse(s, t, at, scope)
  <2>1. t \in DOMAIN s.byToken /\ s.byToken[t] \in Grant
    BY <1>2 DEF FoundExpired, Presentable, StoreOk, IsStore, IsMap
  <2>2. g \in Grant /\ g.consumed
        /\ g.scope = s.byToken[t].scope /\ g.action = s.byToken[t].action
    BY <2>1 DEF Grant
  <2>3. r = LET new == [s EXCEPT !.byToken = Put(@, t, g)]
            IN  IF g.consumed THEN PurgeIndexes(new, t) ELSE new
    BY <1>2, <2>2 DEF Refuse
  <2>. HIDE DEF g, r
  <2>4. StoreOk(r) /\ r.byToken = Put(s.byToken, t, g)
    BY <2>1, <2>2, <2>3, ReplaceOk
  <2>. QED  BY <2>1, <2>4 DEF Put, g, r
<1>. QED  BY <1>1, <1>2

\* The insertions of issue_with_expiry: the new grant takes the index entry.
LEMMA InsertOk ==
  ASSUME NEW s, StoreOk(s), NEW t \in Token, t \notin DOMAIN s.byToken,
         NEW g \in Grant, ~g.consumed
  PROVE  /\ StoreOk(Insert(s, t, g))
         /\ DOMAIN Insert(s, t, g).byToken = DOMAIN s.byToken \cup {t}
         /\ Insert(s, t, g).byToken[t] = g
         /\ \A x \in DOMAIN s.byToken : Insert(s, t, g).byToken[x] = s.byToken[x]
<1> DEFINE indexed == IF g.scope = "ExactAction"
                        THEN [s EXCEPT !.exactIndex = Put(@, Fingerprint(g.action), t)]
                        ELSE [s EXCEPT !.sessionIndex = Put(@, SessionScopeKey(g.action), t)]
           new == [indexed EXCEPT !.byToken = Put(@, t, g)]
           e == Entry("GrantIssued", t)
<1>1. e \in AuditEntry
  BY DEF Entry, AuditEntry, Event
<1>2. g.action \in Action /\ g.scope \in {"ExactAction", "SessionTool"}
  BY DEF Grant
<1>3. /\ new.byToken = Put(s.byToken, t, g)
      /\ new.history = s.history
      /\ new.exactIndex = IF g.scope = "ExactAction"
                            THEN Put(s.exactIndex, Fingerprint(g.action), t)
                            ELSE s.exactIndex
      /\ new.sessionIndex = IF g.scope = "ExactAction"
                              THEN s.sessionIndex
                              ELSE Put(s.sessionIndex, SessionScopeKey(g.action), t)
      /\ new = [ byToken |-> new.byToken, exactIndex |-> new.exactIndex,
                 sessionIndex |-> new.sessionIndex, history |-> new.history ]
  BY DEF StoreOk, IsStore
<1>4. Insert(s, t, g) = PushHistory(new, e)
  BY DEF Insert
<1>. HIDE DEF new, e, indexed
<1>5. IsStore(new)
  <2>1. IsMap(new.byToken, Token, Grant)
    BY <1>3 DEF StoreOk, IsStore, IsMap, Put
  <2>2. IsMap(new.exactIndex, {Fingerprint(a) : a \in Action}, Token)
    <3>1. CASE g.scope = "ExactAction"
      BY <1>2, <1>3, <3>1 DEF StoreOk, IsStore, IsMap, Put
    <3>2. CASE g.scope # "ExactAction"
      BY <1>3, <3>2 DEF StoreOk, IsStore
    <3>. QED  BY <3>1, <3>2
  <2>3. IsMap(new.sessionIndex, {SessionScopeKey(a) : a \in Action}, Token)
    <3>1. CASE g.scope = "ExactAction"
      BY <1>3, <3>1 DEF StoreOk, IsStore
    <3>2. CASE g.scope # "ExactAction"
      BY <1>2, <1>3, <3>2 DEF StoreOk, IsStore, IsMap, Put
    <3>. QED  BY <3>1, <3>2
  <2>. QED  BY <1>3, <2>1, <2>2, <2>3 DEF StoreOk, IsStore
<1>6. /\ DOMAIN new.byToken = DOMAIN s.byToken \cup {t}
      /\ new.byToken[t] = g
      /\ \A x \in DOMAIN s.byToken : new.byToken[x] = s.byToken[x]
  BY <1>3 DEF Put
<1>7. IndexesLiveIn(new)
  <2>1. ASSUME NEW f \in DOMAIN new.exactIndex
        PROVE  /\ Presentable(new, new.exactIndex[f], "ExactAction")
               /\ Fingerprint(new.byToken[new.exactIndex[f]].action) = f
    <3>1. CASE f \in DOMAIN s.exactIndex /\ new.exactIndex[f] = s.exactIndex[f]
      <4>1. /\ Presentable(s, s.exactIndex[f], "ExactAction")
            /\ Fingerprint(s.byToken[s.exactIndex[f]].action) = f
        BY <3>1 DEF StoreOk, IndexesLiveIn
      <4>. QED  BY <1>6, <3>1, <4>1 DEF Presentable
    <3>2. CASE g.scope = "ExactAction" /\ f = Fingerprint(g.action) /\ new.exactIndex[f] = t
      BY <1>6, <3>2 DEF Presentable
    <3>. QED  BY <1>2, <1>3, <2>1, <3>1, <3>2 DEF Put
  <2>2. ASSUME NEW k \in DOMAIN new.sessionIndex
        PROVE  /\ Presentable(new, new.sessionIndex[k], "SessionTool")
               /\ SessionScopeKey(new.byToken[new.sessionIndex[k]].action) = k
    <3>1. CASE k \in DOMAIN s.sessionIndex /\ new.sessionIndex[k] = s.sessionIndex[k]
      <4>1. /\ Presentable(s, s.sessionIndex[k], "SessionTool")
            /\ SessionScopeKey(s.byToken[s.sessionIndex[k]].action) = k
        BY <3>1 DEF StoreOk, IndexesLiveIn
      <4>. QED  BY <1>6, <3>1, <4>1 DEF Presentable
    <3>2. CASE g.scope = "SessionTool" /\ k = SessionScopeKey(g.action)
               /\ new.sessionIndex[k] = t
      BY <1>6, <3>2 DEF Presentable
    <3>. QED  BY <1>2, <1>3, <2>2, <3>1, <3>2 DEF Put
  <2>. QED  BY <2>1, <2>2 DEF IndexesLiveIn
<1>. QED  BY <1>1, <1>4, <1>5, <1>6, <1>7, PushHistoryFrame, PushHistoryOk DEF StoreOk

\* What a lookup that authorizes nothing may do to the vault: retire grants.
Retires(s, r) ==
  /\ DOMAIN r.byToken = DOMAIN s.byToken
  /\ \A x \in DOMAIN s.byToken :
       \/ r.byToken[x] = s.byToken[x]
       \/ r.byToken[x] = [s.byToken[x] EXCEPT !.consumed = TRUE]

\* take_use when it fails retires one grant at most.
LEMMA RefusalRetires ==
  ASSUME NEW s, StoreOk(s), NEW t, NEW at, NEW scope
  PROVE  StoreOk(Refuse(s, t, at, scope)) /\ Retires(s, Refuse(s, t, at, scope))
<1>1. PICK r : r = Refuse(s, t, at, scope)
  OBVIOUS
<1>2. /\ StoreOk(r)
      /\ DOMAIN r.byToken = DOMAIN s.byToken
      /\ \A x \in DOMAIN s.byToken :
           \/ r.byToken[x] = s.byToken[x]
           \/ r.byToken[x] = [s.byToken[x] EXCEPT !.consumed = TRUE]
  BY <1>1, RefuseOk
<1>3. Retires(s, r)
  BY <1>2 DEF Retires
<1>. QED  BY <1>1, <1>2, <1>3

\* What a lookup may do to a grant: everything but its consumed mark stays.
LEMMA RetiresFields ==
  ASSUME NEW s, NEW r, Retires(s, r), StoreOk(s)
  PROVE  \A x \in DOMAIN s.byToken :
           /\ r.byToken[x].scope = s.byToken[x].scope
           /\ r.byToken[x].action = s.byToken[x].action
           /\ r.byToken[x].expiresAt = s.byToken[x].expiresAt
           /\ r.byToken[x].maxUses = s.byToken[x].maxUses
           /\ s.byToken[x].consumed => r.byToken[x].consumed
<1>. SUFFICES ASSUME NEW x \in DOMAIN s.byToken,
                     r.byToken[x] = [s.byToken[x] EXCEPT !.consumed = TRUE]
              PROVE  /\ r.byToken[x].scope = s.byToken[x].scope
                     /\ r.byToken[x].action = s.byToken[x].action
                     /\ r.byToken[x].expiresAt = s.byToken[x].expiresAt
                     /\ r.byToken[x].maxUses = s.byToken[x].maxUses
                     /\ r.byToken[x].consumed
  BY DEF Retires
<1>1. s.byToken[x] \in Grant
  BY DEF StoreOk, IsStore, IsMap
<1>. QED  BY <1>1 DEF Grant

\* note_reject writes an audit entry and leaves grants and indexes alone.
LEMMA NoteRejectOk ==
  ASSUME NEW s, StoreOk(s), NEW t \in Token \cup {NoToken}
  PROVE  /\ StoreOk(NoteReject(s, t))
         /\ NoteReject(s, t).byToken = s.byToken
<1>1. Entry("GrantRejected", t) \in AuditEntry
  BY DEF Entry, AuditEntry, Event
<1>. QED  BY <1>1, PushHistoryFrame, PushHistoryOk DEF NoteReject, StoreOk

\* The exact part of authorize on a miss: it may retire one grant, drops its index
\* entry, and the indexes stay live.
LEMMA ExactMissOk ==
  ASSUME NEW s, StoreOk(s), NEW a, NEW at
  PROVE  /\ StoreOk(AfterExactMiss(s, a, at))
         /\ Retires(s, AfterExactMiss(s, a, at))
<1>1. CASE ExactIndexed(s, a)
  <2> DEFINE t == s.exactIndex[Fingerprint(a)]
             r == Refuse(s, t, at, "ExactAction")
  <2>1. t \in Token
    BY <1>1 DEF ExactIndexed, StoreOk, IsStore, IsMap
  <2>2. AfterExactMiss(s, a, at) = NoteReject(r, t)
    BY <1>1 DEF AfterExactMiss
  <2>3. StoreOk(r) /\ Retires(s, r)
    BY RefusalRetires
  <2>. HIDE DEF t, r
  <2>. QED  BY <2>1, <2>2, <2>3, NoteRejectOk DEF Retires
<1>2. CASE ~ExactIndexed(s, a)
  BY <1>2 DEF AfterExactMiss, Retires
<1>. QED  BY <1>1, <1>2

\* The session part of authorize on a miss, likewise.
LEMMA SessionMissOk ==
  ASSUME NEW s, StoreOk(s), NEW a, NEW at
  PROVE  /\ StoreOk(AfterSessionMiss(s, a, at))
         /\ Retires(s, AfterSessionMiss(s, a, at))
<1>1. CASE SessionIndexed(s, a)
  <2> DEFINE t == s.sessionIndex[SessionScopeKey(a)]
             r == Refuse(s, t, at, "SessionTool")
  <2>1. t \in Token
    BY <1>1 DEF SessionIndexed, StoreOk, IsStore, IsMap
  <2>2. AfterSessionMiss(s, a, at) = NoteReject(r, t)
    BY <1>1 DEF AfterSessionMiss
  <2>3. StoreOk(r) /\ Retires(s, r)
    BY RefusalRetires
  <2>. HIDE DEF t, r
  <2>. QED  BY <2>1, <2>2, <2>3, NoteRejectOk DEF Retires
<1>2. CASE ~SessionIndexed(s, a)
  BY <1>2 DEF AfterSessionMiss, Retires
<1>. QED  BY <1>1, <1>2

\* The tokens a lookup returns can be used.
LEMMA HitUsable ==
  ASSUME NEW s, NEW a, NEW at
  PROVE  /\ \A t \in ExactHit(s, a, at) : Usable(s, t, a, at, "ExactAction")
         /\ \A t \in SessionHit(s, a, at) :
              /\ Usable(s, t, a, at, "SessionTool")
              /\ SessionApprovalSafe(a, "Medium")
BY DEF ExactHit, SessionHit, SessionIndexed

-----------------------------------------------------------------------------
(* The invariant. *)

\* ApprovalGrantStore::new: an empty store satisfies the invariant.
LEMMA InitIndInv == Init => IndInv
<1>. SUFFICES ASSUME Init PROVE IndInv
  OBVIOUS
<1>. USE UsesLimitAssumption, BoundsAssumption DEF Init
<1>1. IsStore(EmptyStore)
  <2>1. << >> \in Seq(AuditEntry) /\ Len(<< >>) <= HistoryCap
    BY HistoryCapAssumption
  <2>2. NoEntries \in [{} -> Token] /\ NoEntries \in [{} -> Grant] /\ DOMAIN NoEntries = {}
    BY DEF NoEntries
  <2>. HIDE DEF NoEntries
  <2>. QED  BY <2>1, <2>2 DEF EmptyStore, IsStore, IsMap
<1>2. DOMAIN EmptyStore.byToken = {} /\ IndexesLiveIn(EmptyStore)
  BY DEF EmptyStore, NoEntries, IndexesLiveIn
<1>3. TypeOK
  BY <1>1 DEF TypeOK, CallState, Idle
<1>4. IssuesAreFresh
  BY <1>2 DEF IssuesAreFresh, Idle
<1>5. UsesAreCounted
  BY <1>2 DEF UsesAreCounted
<1>. QED  BY <1>2, <1>3, <1>4, <1>5 DEF IndInv, IndexesLive

\* Grants stay in the vault; a consumed one stays consumed and unused.
VaultKept ==
  \A x \in DOMAIN inner.byToken :
    /\ x \in DOMAIN inner'.byToken
    /\ inner.byToken[x].consumed =>
         inner'.byToken[x].consumed /\ spent'[x] = spent[x]

\* A step that leaves the vault's counters alone: it may retire grants, and the
\* caller goes to a state that is not an issue.
LEMMA RetiringStep ==
  ASSUME IndInv, NEW c \in Caller, NEW r, StoreOk(r), Retires(inner, r),
         inner' = r, NEW state \in CallState, state.pc # "issuing", Become(c, state),
         UNCHANGED <<now, seq, spent>>
  PROVE  IndInv' /\ VaultKept
<1>. USE DEF IndInv
<1>1. TypeOK'
  BY DEF TypeOK, Become, StoreOk
<1>2. IndexesLive'
  BY DEF IndexesLive, StoreOk
<1>3. IssuesAreFresh'
  BY DEF IssuesAreFresh, Retires, Become, TypeOK
<1>4. \A x \in DOMAIN inner.byToken :
        /\ r.byToken[x].maxUses = inner.byToken[x].maxUses
        /\ inner.byToken[x].consumed => r.byToken[x].consumed
  <2>1. StoreOk(inner)
    BY DEF TypeOK, IndexesLive, StoreOk
  <2>. QED  BY <2>1, RetiresFields
<1>5. UsesAreCounted'
  BY <1>4 DEF UsesAreCounted, Retires
<1>6. VaultKept
  BY <1>4 DEF VaultKept, Retires
<1>. QED  BY <1>1, <1>2, <1>3, <1>5, <1>6

\* A step that spends a grant of a store into which lookups retired others.
LEMMA SpendingStep ==
  ASSUME IndInv, NEW c \in Caller, NEW s, StoreOk(s), Retires(inner, s),
         NEW t \in DOMAIN s.byToken, ~s.byToken[t].consumed,
         NEW r, StoreOk(r), r.byToken = Spend(s, t).byToken, inner' = r,
         NEW state \in CallState, state.pc # "issuing", Become(c, state),
         CountUse(t), UNCHANGED <<now, seq>>
  PROVE  IndInv' /\ VaultKept
<1>. USE DEF IndInv
<1>1. /\ DOMAIN r.byToken = DOMAIN inner.byToken
      /\ r.byToken[t] = Used(s.byToken[t])
      /\ \A x \in DOMAIN s.byToken : x # t => r.byToken[x] = s.byToken[x]
  BY SpendOk DEF Retires
<1>2. /\ DOMAIN s.byToken = DOMAIN inner.byToken
      /\ \A x \in DOMAIN inner.byToken : inner.byToken[x] \in Grant
      /\ \A x \in DOMAIN s.byToken : s.byToken[x] \in Grant
      /\ DOMAIN inner.byToken \subseteq Token
  BY DEF Retires, TypeOK, StoreOk, IsStore, IsMap
<1>3. \A x \in DOMAIN inner.byToken :
        /\ s.byToken[x].maxUses = inner.byToken[x].maxUses
        /\ inner.byToken[x].consumed => s.byToken[x].consumed
  <2>1. StoreOk(inner)
    BY DEF TypeOK, IndexesLive, StoreOk
  <2>. QED  BY <2>1, RetiresFields
<1>4. t \in Token /\ spent[t] \in 0 .. UsesLimit
  BY <1>2 DEF TypeOK
<1>5. TypeOK'
  <2>1. spent' \in [Token -> 0 .. UsesLimit]
    BY <1>4, UsesLimitAssumption DEF TypeOK, CountUse
  <2>. QED  BY <2>1 DEF TypeOK, Become, StoreOk
<1>6. IndexesLive'
  BY DEF IndexesLive, StoreOk
<1>7. IssuesAreFresh'
  BY <1>1 DEF IssuesAreFresh, Become, TypeOK
<1>8. UsesAreCounted'
  <2>. SUFFICES ASSUME NEW x \in Token
                PROVE  /\ x \notin DOMAIN r.byToken => spent'[x] = 0
                       /\ x \in DOMAIN r.byToken /\ r.byToken[x].maxUses = 1 =>
                            /\ spent'[x] <= 1
                            /\ ~r.byToken[x].consumed => spent'[x] = 0
    BY DEF UsesAreCounted
  <2>1. CASE x = t
    <3>1. /\ Used(s.byToken[t]).maxUses = s.byToken[t].maxUses
          /\ s.byToken[t].maxUses = 1 => Used(s.byToken[t]).consumed
      BY <1>2, UsedGrant
    <3>2. s.byToken[t].maxUses = inner.byToken[t].maxUses /\ ~inner.byToken[t].consumed
      BY <1>2, <1>3
    <3>3. inner.byToken[t].maxUses = 1 => spent[t] = 0
      BY <1>2, <3>2 DEF UsesAreCounted
    <3>4. spent[t] = 0 => spent'[t] = 1
      BY <1>2, UsesLimitAssumption DEF CountUse, TypeOK
    <3>. QED  BY <1>1, <1>2, <2>1, <3>1, <3>2, <3>3, <3>4
  <2>2. CASE x # t
    <3>1. spent'[x] = spent[x]
      BY <2>2 DEF CountUse, TypeOK
    <3>2. x \in DOMAIN inner.byToken =>
            /\ r.byToken[x].maxUses = inner.byToken[x].maxUses
            /\ inner.byToken[x].consumed => r.byToken[x].consumed
      BY <1>1, <1>2, <1>3, <2>2
    <3>. QED  BY <1>1, <2>2, <3>1, <3>2 DEF UsesAreCounted
  <2>. QED  BY <2>1, <2>2
<1>9. VaultKept
  <2>. SUFFICES ASSUME NEW x \in DOMAIN inner.byToken, inner.byToken[x].consumed
                PROVE  r.byToken[x].consumed /\ spent'[x] = spent[x]
    BY <1>1 DEF VaultKept
  <2>1. s.byToken[x].consumed /\ x # t
    BY <1>3
  <2>. QED  BY <1>1, <1>2, <2>1 DEF CountUse, TypeOK
<1>. QED  BY <1>5, <1>6, <1>7, <1>8, <1>9

\* What a caller carries from one lock to the next, by its control state.
LEMMA StateShapes ==
  ASSUME NEW x \in CallState
  PROVE  /\ x.pc = "issuing" => x.token \in Token /\ x.grant \in Grant
         /\ x.pc = "authorizing" => x.action \in Action /\ x.at \in Nat
         /\ x.pc = "redeeming" =>
              x.token \in Token \cup {NoToken} /\ x.action \in Action /\ x.at \in Nat
         /\ x.pc = "recording" =>
              x.event \in Event /\ x.token \in Token \cup {NoToken}
BY DEF CallState, Idle

\* A caller outside the store is in a declared state.
LEMMA IdleState == Idle \in CallState /\ Idle.pc = "idle"
BY DEF CallState, Idle

\* A store with the same grants retires none.
LEMMA RetiresNothing == ASSUME NEW s, NEW r, r.byToken = s.byToken PROVE Retires(s, r)
BY DEF Retires

\* Every issue_* prepares a fresh grant under a token nobody else has.
LEMMA BeginIssueStep ==
  ASSUME IndInv, NEW c \in Caller, NEW scope \in {"ExactAction", "SessionTool"},
         NEW a \in Action, NEW e \in Nat, NEW m \in {1, Unlimited},
         BeginIssue(c, scope, a, e, m)
  PROVE  IndInv' /\ VaultKept
<1> DEFINE g == NewGrant(scope, a, e, m)
           state == [pc |-> "issuing", token |-> seq + 1, grant |-> g]
<1>. USE DEF IndInv, BeginIssue
<1>1. g \in Grant /\ ~g.consumed
  BY UsesLimitAssumption DEF NewGrant, Grant
<1>2. seq + 1 \in Token /\ seq \in Nat /\ seq + 1 \in 0 .. MaxGrants
  BY BoundsAssumption DEF TypeOK, Token
<1>. HIDE DEF g
<1>3. state \in CallState /\ state.pc = "issuing" /\ state.token = seq + 1 /\ state.grant = g
  BY <1>1, <1>2 DEF CallState
<1>4. call' = [call EXCEPT ![c] = state]
  BY DEF Become, g
<1>. HIDE DEF state
<1>5. TypeOK'
  BY <1>2, <1>3, <1>4 DEF TypeOK
<1>6. IndexesLive' /\ UsesAreCounted'
  BY DEF IndexesLive, UsesAreCounted
<1>7. DOMAIN inner.byToken \subseteq Nat
  BY DEF TypeOK, IsStore, IsMap, Token
<1>8. \A d \in Caller : call[d].pc = "issuing" => call[d].token \in Nat
  BY StateShapes DEF TypeOK, Token
<1>9. IssuesAreFresh'
  BY <1>1, <1>2, <1>3, <1>4, <1>7, <1>8 DEF IssuesAreFresh, TypeOK
<1>10. VaultKept
  BY DEF VaultKept
<1>. QED  BY <1>5, <1>6, <1>9, <1>10

\* issue_with_expiry under its lock: the fresh grant is inserted and indexed.
LEMMA CommitIssueStep ==
  ASSUME IndInv, NEW c \in Caller, CommitIssue(c)
  PROVE  IndInv' /\ VaultKept
<1> DEFINE t == call[c].token
           g == call[c].grant
<1>. USE DEF IndInv, CommitIssue
<1>1. t \in Token /\ g \in Grant /\ now \in Nat /\ StoreOk(inner)
  BY StateShapes DEF TypeOK, IndexesLive, StoreOk
<1>2. t \notin DOMAIN inner.byToken /\ ~g.consumed /\ t <= seq
  BY DEF IssuesAreFresh
<1>3. inner' = Insert(inner, t, g)
  OBVIOUS
<1>. HIDE DEF t, g
<1>4. /\ StoreOk(inner')
      /\ DOMAIN inner'.byToken = DOMAIN inner.byToken \cup {t}
      /\ inner'.byToken[t] = g
      /\ \A x \in DOMAIN inner.byToken : inner'.byToken[x] = inner.byToken[x]
  BY <1>1, <1>2, <1>3, InsertOk
<1>5. TypeOK'
  BY <1>4, IdleState DEF TypeOK, StoreOk, Become
<1>6. IndexesLive'
  BY <1>4 DEF IndexesLive, StoreOk
<1>7. IssuesAreFresh'
  BY <1>2, <1>4, IdleState DEF IssuesAreFresh, TypeOK, Become, t
<1>8. UsesAreCounted'
  BY <1>1, <1>2, <1>4 DEF UsesAreCounted
<1>9. VaultKept
  BY <1>4 DEF VaultKept
<1>. QED  BY <1>5, <1>6, <1>7, <1>8, <1>9

\* The three outcomes of authorize.
LEMMA AuthorizedStep ==
  ASSUME IndInv, NEW c \in Caller, NEW s, StoreOk(s), Retires(inner, s),
         NEW t \in DOMAIN s.byToken, ~s.byToken[t].consumed, Authorized(c, t, s)
  PROVE  IndInv' /\ VaultKept
<1> DEFINE state == [pc |-> "recording", event |-> "GrantConsumed", token |-> t]
<1>1. t \in Token /\ now \in Nat
  BY DEF IndInv, TypeOK, StoreOk, IsStore, IsMap
<1>2. state \in CallState /\ state.pc # "issuing"
  BY <1>1 DEF CallState, Event
<1>3. StoreOk(Spend(s, t))
  BY SpendOk
<1>4. inner' = Spend(s, t) /\ CountUse(t) /\ UNCHANGED <<now, seq>> /\ Become(c, state)
  BY DEF Authorized
<1>. HIDE DEF state
<1>. QED  BY <1>2, <1>3, <1>4, SpendingStep

\* authorize under its lock, whichever index it finds the grant in.
LEMMA AuthorizeStep ==
  ASSUME IndInv, NEW c \in Caller,
         AuthorizeExact(c) \/ AuthorizeSession(c) \/ AuthorizeNone(c)
  PROVE  IndInv' /\ VaultKept
<1> DEFINE a == call[c].action
           at == call[c].at
           missed == AfterExactMiss(inner, a, at)
<1>1. StoreOk(inner) /\ now \in Nat
  BY DEF IndInv, TypeOK, IndexesLive, StoreOk
<1>2. StoreOk(missed) /\ Retires(inner, missed)
  BY <1>1, ExactMissOk
<1>3. CASE AuthorizeExact(c)
  <2>1. PICK t \in ExactHit(inner, a, at) : Authorized(c, t, inner)
    BY <1>3 DEF AuthorizeExact
  <2>2. t \in DOMAIN inner.byToken /\ ~inner.byToken[t].consumed
    BY <2>1, HitUsable DEF Usable, Presentable
  <2>. QED  BY <1>1, <2>1, <2>2, AuthorizedStep, RetiresNothing
<1>4. CASE AuthorizeSession(c)
  <2>1. PICK t \in SessionHit(missed, a, at) : Authorized(c, t, missed)
    BY <1>4 DEF AuthorizeSession
  <2>2. t \in DOMAIN missed.byToken /\ ~missed.byToken[t].consumed
    BY <2>1, HitUsable DEF Usable, Presentable
  <2>. HIDE DEF missed
  <2>. QED  BY <1>2, <2>1, <2>2, AuthorizedStep
<1>5. CASE AuthorizeNone(c)
  <2> DEFINE r == AfterSessionMiss(missed, a, at)
  <2>1. inner' = r /\ Become(c, Idle) /\ UNCHANGED <<now, seq, spent>>
    BY <1>5 DEF AuthorizeNone
  <2>. HIDE DEF missed
  <2>2. StoreOk(r) /\ Retires(missed, r)
    BY <1>1, <1>2, SessionMissOk
  <2>. HIDE DEF r
  <2>3. Retires(inner, r)
    <3>1. \A x \in DOMAIN inner.byToken : inner.byToken[x] \in Grant
      BY <1>1 DEF StoreOk, IsStore, IsMap
    <3>2. \A h \in Grant :
            [[h EXCEPT !.consumed = TRUE] EXCEPT !.consumed = TRUE] = [h EXCEPT !.consumed = TRUE]
      BY DEF Grant
    <3>. QED  BY <1>2, <2>2, <3>1, <3>2 DEF Retires
  <2>. QED  BY <2>1, <2>2, <2>3, IdleState, RetiringStep
<1>. QED  BY <1>3, <1>4, <1>5

\* redeem under its lock.
LEMMA RedeemStep ==
  ASSUME IndInv, NEW c \in Caller, RedeemOk(c) \/ RedeemErr(c)
  PROVE  IndInv' /\ VaultKept
<1> DEFINE t == call[c].token
           at == call[c].at
<1>1. StoreOk(inner) /\ now \in Nat
  BY DEF IndInv, TypeOK, IndexesLive, StoreOk
<1>2. t \in Token \cup {NoToken}
  BY StateShapes DEF IndInv, TypeOK, RedeemOk, RedeemErr
<1>3. CASE RedeemOk(c)
  <2> DEFINE r == PushHistory(Spend(inner, t), Entry("GrantConsumed", t))
  <2>1. t \in DOMAIN inner.byToken /\ ~inner.byToken[t].consumed
    BY <1>3 DEF RedeemOk, Redeemable, Usable, Presentable
  <2>2. Entry("GrantConsumed", t) \in AuditEntry
    BY <1>1, <1>2 DEF Entry, AuditEntry, Event
  <2>3. StoreOk(Spend(inner, t))
    BY <1>1, <2>1, SpendOk
  <2>4. StoreOk(r) /\ r.byToken = Spend(inner, t).byToken
    BY <2>2, <2>3, PushHistoryFrame, PushHistoryOk DEF StoreOk
  <2>5. inner' = r /\ CountUse(t) /\ UNCHANGED <<now, seq>> /\ Become(c, Idle)
    BY <1>3 DEF RedeemOk
  <2>. HIDE DEF r, t
  <2>6. Retires(inner, inner)
    BY RetiresNothing
  <2>7. StoreOk(inner)
    BY <1>1
  <2>8. Idle \in CallState /\ Idle.pc # "issuing"
    BY IdleState
  <2>9. StoreOk(r) /\ inner' = r /\ r.byToken = Spend(inner, t).byToken
    BY <2>4, <2>5
  <2>10. Become(c, Idle) /\ CountUse(t) /\ UNCHANGED <<now, seq>>
    BY <2>5
  <2>. QED  BY <2>1, <2>6, <2>7, <2>8, <2>9, <2>10, SpendingStep
<1>4. CASE RedeemErr(c) /\ t \in DOMAIN inner.byToken
  <2> DEFINE refused == Refuse(inner, t, at, inner.byToken[t].scope)
             r == NoteReject(refused, t)
  <2>1. inner' = r /\ UNCHANGED <<now, seq, spent>> /\ Become(c, Idle)
    BY <1>4 DEF RedeemErr
  <2>2. StoreOk(refused) /\ Retires(inner, refused)
    BY <1>1, RefusalRetires
  <2>. HIDE DEF refused
  <2>3. StoreOk(r) /\ Retires(inner, r)
    BY <1>1, <1>2, <2>2, NoteRejectOk DEF Retires
  <2>. HIDE DEF r
  <2>. QED  BY <2>1, <2>3, IdleState, RetiringStep
<1>5. CASE RedeemErr(c) /\ t \notin DOMAIN inner.byToken
  <2> DEFINE r == NoteReject(inner, NoToken)
  <2>1. inner' = r /\ UNCHANGED <<now, seq, spent>> /\ Become(c, Idle)
    BY <1>5 DEF RedeemErr
  <2>2. StoreOk(r) /\ Retires(inner, r)
    BY <1>1, NoteRejectOk, RetiresNothing
  <2>. HIDE DEF r
  <2>. QED  BY <2>1, <2>2, IdleState, RetiringStep
<1>. QED  BY <1>3, <1>4, <1>5

\* The audit entry written under a later lock.
LEMMA RecordStep ==
  ASSUME IndInv, NEW c \in Caller, Record(c)
  PROVE  IndInv' /\ VaultKept
<1>1. StoreOk(inner) /\ now \in Nat
  BY DEF IndInv, TypeOK, IndexesLive, StoreOk
<1>2. call[c].event \in Event /\ call[c].token \in Token \cup {NoToken}
  BY StateShapes DEF IndInv, TypeOK, Record
<1>3. inner' = PushHistory(inner, Entry(call[c].event, call[c].token))
  BY DEF Record
<1> DEFINE e == Entry(call[c].event, call[c].token)
           r == PushHistory(inner, e)
<1>4. e \in AuditEntry
  BY <1>1, <1>2 DEF Entry, AuditEntry
<1>. HIDE DEF e
<1>5. StoreOk(r) /\ Retires(inner, r)
  BY <1>1, <1>4, PushHistoryFrame, PushHistoryOk DEF Retires, StoreOk
<1>6. inner' = r /\ Become(c, Idle) /\ UNCHANGED <<now, seq, spent>>
  BY <1>3 DEF Record, e
<1>. HIDE DEF r
<1>. QED  BY <1>5, <1>6, IdleState, RetiringStep

\* Steps that only change what one caller is about to do.
LEMMA BeginStep ==
  ASSUME IndInv, NEW c \in Caller, NEW a \in Action,
         \/ BeginAuthorize(c, a)
         \/ \E t \in Token \cup {NoToken} : BeginRedeem(c, t, a)
  PROVE  IndInv' /\ VaultKept
<1>1. StoreOk(inner) /\ now \in Nat /\ Retires(inner, inner)
  BY RetiresNothing DEF IndInv, TypeOK, IndexesLive, StoreOk
<1>2. PICK state \in CallState :
        state.pc # "issuing" /\ Become(c, state) /\ UNCHANGED <<now, seq, inner, spent>>
  <2>1. CASE BeginAuthorize(c, a)
    BY <1>1, <2>1 DEF BeginAuthorize, CallState
  <2>2. CASE \E t \in Token \cup {NoToken} : BeginRedeem(c, t, a)
    BY <1>1, <2>2 DEF BeginRedeem, CallState
  <2>. QED  BY <2>1, <2>2
<1>. QED  BY <1>1, <1>2, RetiringStep

\* Every step keeps the invariant, and no grant loses uses or its consumed mark.
LEMMA NextIndInv == IndInv /\ [Next]_vars => IndInv' /\ VaultKept
<1>. SUFFICES ASSUME IndInv, [Next]_vars PROVE IndInv' /\ VaultKept
  OBVIOUS
<1>1. CASE Tick
  BY <1>1 DEF Tick, IndInv, TypeOK, IndexesLive, IssuesAreFresh, UsesAreCounted, VaultKept
<1>2. ASSUME NEW c \in Caller, Step(c) PROVE IndInv' /\ VaultKept
  <2>1. ASSUME NEW a \in Action, IssueOnce(c, a) \/ IssueSession(c, a) \/ IssueUntil(c, a)
        PROVE  IndInv' /\ VaultKept
    <3>1. now \in Nat
      BY DEF IndInv, TypeOK
    <3>2. CASE IssueOnce(c, a)
      BY <3>1, <3>2, BoundsAssumption, BeginIssueStep DEF IssueOnce
    <3>3. CASE IssueSession(c, a)
      <4>1. BeginIssue(c, "SessionTool", a, now + SessionTtl, Unlimited)
        BY <3>3 DEF IssueSession
      <4>2. now + SessionTtl \in Nat
        BY <3>1, BoundsAssumption
      <4>. QED  BY <4>1, <4>2, BeginIssueStep
    <3>4. CASE IssueUntil(c, a)
      BY <3>1, <3>4, BoundsAssumption, BeginIssueStep DEF IssueUntil
    <3>. QED  BY <2>1, <3>2, <3>3, <3>4
  <2>2. CASE RecordDecision(c)
    <3>1. Become(c, [pc |-> "recording", event |-> "Decided", token |-> NoToken])
          /\ UNCHANGED <<now, seq, inner, spent>>
      BY <2>2 DEF RecordDecision
    <3>2. now \in Nat /\ StoreOk(inner) /\ Retires(inner, inner)
      BY RetiresNothing DEF IndInv, TypeOK, IndexesLive, StoreOk
    <3>3. [pc |-> "recording", event |-> "Decided", token |-> NoToken] \in CallState
      BY <3>2 DEF CallState, Event
    <3>. QED  BY <3>1, <3>2, <3>3, RetiringStep
  <2>. QED  BY <1>2, <2>1, <2>2, BeginStep, CommitIssueStep, AuthorizeStep, RedeemStep,
               RecordStep DEF Step
<1>3. CASE UNCHANGED vars
  BY <1>3 DEF vars, IndInv, TypeOK, IndexesLive, IssuesAreFresh, UsesAreCounted, VaultKept
<1>. QED  BY <1>1, <1>2, <1>3 DEF Next

\* The inductive invariant holds of every reachable state.
THEOREM InductiveInvariant == Spec => []IndInv
BY InitIndInv, NextIndInv, PTL DEF Spec

\* Types: every state of every instance is well-formed.
THEOREM TypeCorrect == Spec => []TypeOK
<1>1. IndInv => TypeOK
  BY DEF IndInv
<1>. QED  BY <1>1, InductiveInvariant, PTL

\* No index entry outlives its grant, for any number of callers and grants.
THEOREM IndexesAlwaysLive == Spec => []IndexesLive
<1>1. IndInv => IndexesLive
  BY DEF IndInv
<1>. QED  BY <1>1, InductiveInvariant, PTL

\* A single-use grant authorizes at most one call, however callers interleave.
THEOREM SingleUseHolds == Spec => []SingleUse
<1>1. IndInv => SingleUse
  BY DEF IndInv, UsesAreCounted, SingleUse, TypeOK, IsStore, IsMap
<1>. QED  BY <1>1, InductiveInvariant, PTL

\* A consumed grant stays consumed and authorizes nothing more.
THEOREM ConsumptionIsFinal == Spec => ConsumedIsFinal
<1>1. IndInv /\ [Next]_vars =>
        [\A t \in DOMAIN inner.byToken :
           inner.byToken[t].consumed =>
             /\ t \in DOMAIN inner'.byToken
             /\ inner'.byToken[t].consumed
             /\ spent'[t] = spent[t]]_vars
  BY NextIndInv DEF VaultKept
<1>. QED  BY <1>1, InductiveInvariant, PTL DEF Spec, ConsumedIsFinal

-----------------------------------------------------------------------------
(* What a use covers. *)

UseCovered(t) ==
  \E c \in Caller :
    /\ call[c].pc \in {"authorizing", "redeeming"}
    /\ Covers(inner.byToken[t], call[c].action)
    /\ call[c].at < inner.byToken[t].expiresAt
    /\ \/ call[c].pc = "redeeming"
       \/ inner.byToken[t].scope = "ExactAction"
       \/ SessionApprovalSafe(call[c].action, "Medium")

\* Counting a use of t changes no other counter.
LEMMA CountUseFrame ==
  ASSUME NEW t, CountUse(t), TypeOK, NEW x \in Token, spent'[x] # spent[x]
  PROVE  x = t
BY DEF CountUse, TypeOK

\* A use counted by authorize is covered by its grant: the same action or a
\* session-safe one of the same key, begun before the grant expired.
LEMMA AuthorizeCovered ==
  ASSUME IndInv, NEW c \in Caller, AuthorizeExact(c) \/ AuthorizeSession(c),
         NEW x \in Token, spent'[x] # spent[x]
  PROVE  UseCovered(x)
<1> DEFINE a == call[c].action
           at == call[c].at
           missed == AfterExactMiss(inner, a, at)
<1>1. StoreOk(inner) /\ now \in Nat /\ TypeOK
  BY DEF IndInv, TypeOK, IndexesLive, StoreOk
<1>2. Retires(inner, missed)
  BY <1>1, ExactMissOk
<1>3. CASE AuthorizeExact(c)
  <2>1. PICK t \in ExactHit(inner, a, at) : Authorized(c, t, inner)
    BY <1>3 DEF AuthorizeExact
  <2>2. Usable(inner, t, a, at, "ExactAction")
    BY <2>1, HitUsable
  <2>3. x = t
    BY <1>1, <2>1, CountUseFrame DEF Authorized
  <2>. QED  BY <1>3, <2>2, <2>3 DEF AuthorizeExact, UseCovered, Usable, Presentable
<1>4. CASE AuthorizeSession(c)
  <2>1. PICK t \in SessionHit(missed, a, at) : Authorized(c, t, missed)
    BY <1>4 DEF AuthorizeSession
  <2>2. Usable(missed, t, a, at, "SessionTool") /\ SessionApprovalSafe(a, "Medium")
    BY <2>1, HitUsable
  <2>3. x = t
    BY <1>1, <2>1, CountUseFrame DEF Authorized
  <2>. HIDE DEF missed
  <2>4. t \in DOMAIN inner.byToken
    BY <1>2, <2>2 DEF Usable, Presentable, Retires
  <2>5. /\ missed.byToken[t].scope = inner.byToken[t].scope
        /\ missed.byToken[t].action = inner.byToken[t].action
        /\ missed.byToken[t].expiresAt = inner.byToken[t].expiresAt
    BY <1>1, <1>2, <2>4, RetiresFields
  <2>6. Covers(inner.byToken[t], a) /\ at < inner.byToken[t].expiresAt
    BY <2>2, <2>5 DEF Usable, Covers
  <2>7. call[c].pc = "authorizing"
    BY <1>4 DEF AuthorizeSession
  <2>. QED  BY <2>2, <2>3, <2>6, <2>7 DEF UseCovered
<1>. QED  BY <1>3, <1>4

\* A use counted by redeem is covered by its grant.
LEMMA RedeemCovered ==
  ASSUME IndInv, NEW c \in Caller, RedeemOk(c), NEW x \in Token, spent'[x] # spent[x]
  PROVE  UseCovered(x)
<1>1. x = call[c].token
  BY CountUseFrame DEF IndInv, RedeemOk
<1>2. call[c].pc = "redeeming" /\ Redeemable(x, call[c].action, call[c].at)
  BY <1>1 DEF RedeemOk
<1>. QED  BY <1>2 DEF UseCovered, Redeemable, Usable

\* Whatever the interleaving, a grant is used only by a call whose action it
\* covers, which began before it expired, and, for a session grant found by
\* authorize, whose action is session-safe.
THEOREM UsesCovered == Spec => UsesAreCovered
<1>1. ASSUME IndInv, Next, NEW x \in Token, spent'[x] # spent[x]
      PROVE  UseCovered(x)
  <2>1. CASE Tick
    BY <1>1, <2>1 DEF Tick
  <2>2. ASSUME NEW c \in Caller, Step(c) PROVE UseCovered(x)
    <3>1. AuthorizeExact(c) \/ AuthorizeSession(c) \/ RedeemOk(c)
      BY <1>1, <2>2 DEF Step, IssueOnce, IssueSession, IssueUntil, BeginIssue, BeginAuthorize,
         BeginRedeem, CommitIssue, AuthorizeNone, RedeemErr, RecordDecision, Record
    <3>. QED  BY <1>1, <3>1, AuthorizeCovered, RedeemCovered
  <2>. QED  BY <1>1, <2>1, <2>2 DEF Next
<1>2. IndInv /\ [Next]_vars =>
        [\A t \in Token : spent'[t] # spent[t] => UseCovered(t)]_vars
  BY <1>1
<1>3. Spec => [][\A t \in Token : spent'[t] # spent[t] => UseCovered(t)]_vars
  BY <1>2, InductiveInvariant, PTL DEF Spec
<1>. QED  BY <1>3 DEF UsesAreCovered, UseCovered

-----------------------------------------------------------------------------
(* What the indexes lose. *)

\* An operator that issues nothing at most drops index entries, each with the grant it names.
Sheds(s, r) ==
  /\ DOMAIN r.exactIndex \subseteq DOMAIN s.exactIndex
  /\ \A f \in DOMAIN s.exactIndex :
       \/ f \in DOMAIN r.exactIndex /\ r.exactIndex[f] = s.exactIndex[f]
       \/ f \notin DOMAIN r.exactIndex /\ r.byToken[s.exactIndex[f]].consumed
  /\ DOMAIN r.sessionIndex \subseteq DOMAIN s.sessionIndex
  /\ \A k \in DOMAIN s.sessionIndex :
       \/ k \in DOMAIN r.sessionIndex /\ r.sessionIndex[k] = s.sessionIndex[k]
       \/ k \notin DOMAIN r.sessionIndex /\ r.byToken[s.sessionIndex[k]].consumed

\* Nothing is shed where the indexes stay.
LEMMA ShedsNothing ==
  ASSUME NEW s, NEW r, r.exactIndex = s.exactIndex, r.sessionIndex = s.sessionIndex
  PROVE  Sheds(s, r)
BY DEF Sheds

\* Shedding twice is shedding, as long as consumed grants stay consumed.
LEMMA ShedsAgain ==
  ASSUME NEW s, StoreOk(s), NEW q, Sheds(s, q), NEW r, Sheds(q, r),
         \A x \in DOMAIN s.byToken : q.byToken[x].consumed => r.byToken[x].consumed
  PROVE  Sheds(s, r)
<1>1. /\ \A f \in DOMAIN s.exactIndex : s.exactIndex[f] \in DOMAIN s.byToken
      /\ \A k \in DOMAIN s.sessionIndex : s.sessionIndex[k] \in DOMAIN s.byToken
  BY DEF StoreOk, IndexesLiveIn, Presentable
<1>. QED  BY <1>1 DEF Sheds

\* Replacing a grant sheds the entry that names it, if the new one is consumed.
LEMMA ReplaceSheds ==
  ASSUME NEW s, StoreOk(s), NEW t \in DOMAIN s.byToken, NEW g \in Grant,
         NEW r,
         r = LET new == [s EXCEPT !.byToken = Put(@, t, g)]
             IN  IF g.consumed THEN PurgeIndexes(new, t) ELSE new
  PROVE  Sheds(s, r)
<1> DEFINE new == [s EXCEPT !.byToken = Put(@, t, g)]
<1>1. /\ new.exactIndex = s.exactIndex
      /\ new.sessionIndex = s.sessionIndex
      /\ new.byToken[t] = g
      /\ new = [ byToken |-> new.byToken, exactIndex |-> new.exactIndex,
                 sessionIndex |-> new.sessionIndex, history |-> new.history ]
  BY DEF StoreOk, IsStore, Put
<1>. HIDE DEF new
<1>2. CASE ~g.consumed
  BY <1>1, <1>2, ShedsNothing DEF new
<1>3. CASE g.consumed /\ g.scope = "ExactAction"
  <2> DEFINE index == Forget(s.exactIndex, Fingerprint(g.action), t)
  <2>1. r = [new EXCEPT !.exactIndex = index]
    BY <1>1, <1>3 DEF new, PurgeIndexes
  <2>2. /\ DOMAIN index = {x \in DOMAIN s.exactIndex :
                             x # Fingerprint(g.action) \/ s.exactIndex[x] # t}
        /\ \A x \in DOMAIN index : index[x] = s.exactIndex[x]
    BY DEF Forget
  <2>. HIDE DEF index
  <2>3. r.exactIndex = index /\ r.sessionIndex = s.sessionIndex /\ r.byToken[t] = g
    BY <1>1, <2>1
  <2>. QED  BY <1>3, <2>2, <2>3 DEF Sheds
<1>4. CASE g.consumed /\ g.scope = "SessionTool"
  <2> DEFINE index == Forget(s.sessionIndex, SessionScopeKey(g.action), t)
  <2>1. r = [new EXCEPT !.sessionIndex = index]
    BY <1>1, <1>4 DEF new, PurgeIndexes
  <2>2. /\ DOMAIN index = {x \in DOMAIN s.sessionIndex :
                             x # SessionScopeKey(g.action) \/ s.sessionIndex[x] # t}
        /\ \A x \in DOMAIN index : index[x] = s.sessionIndex[x]
    BY DEF Forget
  <2>. HIDE DEF index
  <2>3. r.sessionIndex = index /\ r.exactIndex = s.exactIndex /\ r.byToken[t] = g
    BY <1>1, <2>1
  <2>. QED  BY <1>4, <2>2, <2>3 DEF Sheds
<1>. QED  BY <1>2, <1>3, <1>4 DEF Grant

\* take_use on success sheds at most the entry of the grant it consumes.
LEMMA SpendSheds ==
  ASSUME NEW s, StoreOk(s), NEW t \in DOMAIN s.byToken
  PROVE  Sheds(s, Spend(s, t))
<1> DEFINE g == Used(s.byToken[t])
<1>1. s.byToken[t] \in Grant
  BY DEF StoreOk, IsStore, IsMap
<1>2. g \in Grant
  BY <1>1, UsedGrant
<1>3. Spend(s, t) = LET new == [s EXCEPT !.byToken = Put(@, t, g)]
                    IN  IF g.consumed THEN PurgeIndexes(new, t) ELSE new
  BY DEF Spend
<1>. HIDE DEF g
<1>. QED  BY <1>2, <1>3, ReplaceSheds

\* take_use on failure sheds at most the entry of the grant it retires.
LEMMA RefuseSheds ==
  ASSUME NEW s, StoreOk(s), NEW t, NEW at, NEW scope
  PROVE  Sheds(s, Refuse(s, t, at, scope))
<1>1. CASE ~FoundExpired(s, t, at, scope)
  BY <1>1, ShedsNothing DEF Refuse
<1>2. CASE FoundExpired(s, t, at, scope)
  <2> DEFINE g == [s.byToken[t] EXCEPT !.consumed = TRUE]
             r == Refuse(s, t, at, scope)
  <2>1. t \in DOMAIN s.byToken /\ s.byToken[t] \in Grant
    BY <1>2 DEF FoundExpired, Presentable, StoreOk, IsStore, IsMap
  <2>2. g \in Grant /\ g.consumed
    BY <2>1 DEF Grant
  <2>3. r = LET new == [s EXCEPT !.byToken = Put(@, t, g)]
            IN  IF g.consumed THEN PurgeIndexes(new, t) ELSE new
    BY <1>2, <2>2 DEF Refuse
  <2>. HIDE DEF g, r
  <2>4. Sheds(s, r)
    BY <2>1, <2>2, <2>3, ReplaceSheds
  <2>. QED  BY <2>4 DEF r
<1>. QED  BY <1>1, <1>2

\* An audit entry sheds nothing.
LEMMA NoteRejectSheds ==
  ASSUME NEW s, StoreOk(s), NEW q, StoreOk(q), Sheds(s, q), NEW t \in Token \cup {NoToken}
  PROVE  Sheds(s, NoteReject(q, t))
<1>1. Entry("GrantRejected", t) \in AuditEntry
  BY DEF Entry, AuditEntry, Event
<1>. QED  BY <1>1, PushHistoryFrame DEF NoteReject, StoreOk, Sheds

\* A missed exact lookup sheds at most the entry it looked at.
LEMMA ExactMissSheds ==
  ASSUME NEW s, StoreOk(s), NEW a, NEW at
  PROVE  Sheds(s, AfterExactMiss(s, a, at))
<1>1. CASE ExactIndexed(s, a)
  <2> DEFINE t == s.exactIndex[Fingerprint(a)]
             r == Refuse(s, t, at, "ExactAction")
  <2>1. t \in Token
    BY <1>1 DEF ExactIndexed, StoreOk, IsStore, IsMap
  <2>2. AfterExactMiss(s, a, at) = NoteReject(r, t)
    BY <1>1 DEF AfterExactMiss
  <2>3. StoreOk(r) /\ Sheds(s, r)
    BY RefuseOk, RefuseSheds
  <2>. HIDE DEF t, r
  <2>. QED  BY <2>1, <2>2, <2>3, NoteRejectSheds
<1>2. CASE ~ExactIndexed(s, a)
  BY <1>2, ShedsNothing DEF AfterExactMiss
<1>. QED  BY <1>1, <1>2

\* A missed session lookup, likewise.
LEMMA SessionMissSheds ==
  ASSUME NEW s, StoreOk(s), NEW a, NEW at
  PROVE  Sheds(s, AfterSessionMiss(s, a, at))
<1>1. CASE SessionIndexed(s, a)
  <2> DEFINE t == s.sessionIndex[SessionScopeKey(a)]
             r == Refuse(s, t, at, "SessionTool")
  <2>1. t \in Token
    BY <1>1 DEF SessionIndexed, StoreOk, IsStore, IsMap
  <2>2. AfterSessionMiss(s, a, at) = NoteReject(r, t)
    BY <1>1 DEF AfterSessionMiss
  <2>3. StoreOk(r) /\ Sheds(s, r)
    BY RefuseOk, RefuseSheds
  <2>. HIDE DEF t, r
  <2>. QED  BY <2>1, <2>2, <2>3, NoteRejectSheds
<1>2. CASE ~SessionIndexed(s, a)
  BY <1>2, ShedsNothing DEF AfterSessionMiss
<1>. QED  BY <1>1, <1>2

\* What a step may do to the indexes.
EntriesFollow ==
  /\ \A f \in DOMAIN inner.exactIndex :
       \/ /\ f \notin DOMAIN inner'.exactIndex
          /\ inner'.byToken[inner.exactIndex[f]].consumed
       \/ /\ f \in DOMAIN inner'.exactIndex
          /\ \/ inner'.exactIndex[f] = inner.exactIndex[f]
             \/ inner'.exactIndex[f] \notin DOMAIN inner.byToken
  /\ \A k \in DOMAIN inner.sessionIndex :
       \/ /\ k \notin DOMAIN inner'.sessionIndex
          /\ inner'.byToken[inner.sessionIndex[k]].consumed
       \/ /\ k \in DOMAIN inner'.sessionIndex
          /\ \/ inner'.sessionIndex[k] = inner.sessionIndex[k]
             \/ inner'.sessionIndex[k] \notin DOMAIN inner.byToken

\* Shedding is no more than that.
LEMMA ShedsFollow == Sheds(inner, inner') => EntriesFollow
BY DEF Sheds, EntriesFollow

\* A new grant takes over its own entry only.
LEMMA InsertFollow == ASSUME IndInv, NEW c \in Caller, CommitIssue(c) PROVE EntriesFollow
<1> DEFINE t == call[c].token
           g == call[c].grant
           s == inner
           indexed == IF g.scope = "ExactAction"
                        THEN [s EXCEPT !.exactIndex = Put(@, Fingerprint(g.action), t)]
                        ELSE [s EXCEPT !.sessionIndex = Put(@, SessionScopeKey(g.action), t)]
           new == [indexed EXCEPT !.byToken = Put(@, t, g)]
           e == Entry("GrantIssued", t)
<1>1. t \in Token /\ g \in Grant /\ StoreOk(inner) /\ t \notin DOMAIN inner.byToken /\ ~g.consumed
  BY StateShapes DEF IndInv, TypeOK, IndexesLive, StoreOk, CommitIssue, IssuesAreFresh
<1>2. /\ inner' = Insert(inner, t, g)
      /\ StoreOk(inner')
  BY <1>1, InsertOk DEF CommitIssue
<1>3. /\ new.byToken = Put(s.byToken, t, g)
      /\ new.history = s.history
      /\ new.exactIndex = IF g.scope = "ExactAction"
                            THEN Put(s.exactIndex, Fingerprint(g.action), t)
                            ELSE s.exactIndex
      /\ new.sessionIndex = IF g.scope = "ExactAction"
                              THEN s.sessionIndex
                              ELSE Put(s.sessionIndex, SessionScopeKey(g.action), t)
      /\ new = [ byToken |-> new.byToken, exactIndex |-> new.exactIndex,
                 sessionIndex |-> new.sessionIndex, history |-> new.history ]
  BY <1>1 DEF StoreOk, IsStore
<1>4. inner' = PushHistory(new, e)
  BY <1>2 DEF Insert
<1>. HIDE DEF new, e, indexed
<1>5. PICK h : PushHistory(new, e) = [new EXCEPT !.history = h]
  BY DEF PushHistory
<1>6. inner'.exactIndex = new.exactIndex /\ inner'.sessionIndex = new.sessionIndex
  BY <1>3, <1>4, <1>5
<1>. HIDE DEF t, g, s
<1>7. t \notin DOMAIN inner.byToken
  BY <1>1
<1>. QED  BY <1>3, <1>6, <1>7 DEF EntriesFollow, Put, s

\* authorize, whatever it finds.
LEMMA AuthorizeFollow ==
  ASSUME IndInv, NEW c \in Caller,
         AuthorizeExact(c) \/ AuthorizeSession(c) \/ AuthorizeNone(c)
  PROVE  EntriesFollow
<1> DEFINE a == call[c].action
           at == call[c].at
           missed == AfterExactMiss(inner, a, at)
<1>1. StoreOk(inner)
  BY DEF IndInv, TypeOK, IndexesLive, StoreOk
<1>2. StoreOk(missed) /\ Retires(inner, missed) /\ Sheds(inner, missed)
  BY <1>1, ExactMissOk, ExactMissSheds
<1>3. CASE AuthorizeExact(c)
  <2>1. PICK t \in ExactHit(inner, a, at) : Authorized(c, t, inner)
    BY <1>3 DEF AuthorizeExact
  <2>2. t \in DOMAIN inner.byToken
    BY <2>1, HitUsable DEF Usable, Presentable
  <2>. QED  BY <1>1, <2>1, <2>2, SpendSheds, ShedsFollow DEF Authorized
<1>4. CASE AuthorizeSession(c)
  <2>1. PICK t \in SessionHit(missed, a, at) : Authorized(c, t, missed)
    BY <1>4 DEF AuthorizeSession
  <2>2. t \in DOMAIN missed.byToken /\ ~missed.byToken[t].consumed
    BY <2>1, HitUsable DEF Usable, Presentable
  <2>. HIDE DEF missed
  <2>3. inner' = Spend(missed, t) /\ Sheds(missed, inner')
    BY <1>2, <2>1, <2>2, SpendSheds DEF Authorized
  <2>4. \A x \in DOMAIN inner.byToken : missed.byToken[x].consumed => inner'.byToken[x].consumed
    BY <1>2, <2>2, <2>3, SpendOk DEF Retires
  <2>. QED  BY <1>1, <1>2, <2>3, <2>4, ShedsAgain, ShedsFollow
<1>5. CASE AuthorizeNone(c)
  <2>1. inner' = AfterSessionMiss(missed, a, at)
    BY <1>5 DEF AuthorizeNone
  <2>. HIDE DEF missed
  <2>2. Retires(missed, inner') /\ Sheds(missed, inner')
    BY <1>2, <2>1, SessionMissOk, SessionMissSheds
  <2>3. \A x \in DOMAIN inner.byToken : missed.byToken[x].consumed => inner'.byToken[x].consumed
    BY <1>2, <2>2, RetiresFields DEF Retires
  <2>. QED  BY <1>1, <1>2, <2>2, <2>3, ShedsAgain, ShedsFollow
<1>. QED  BY <1>3, <1>4, <1>5

\* redeem, whether it succeeds or not.
LEMMA RedeemFollow ==
  ASSUME IndInv, NEW c \in Caller, RedeemOk(c) \/ RedeemErr(c)
  PROVE  EntriesFollow
<1> DEFINE t == call[c].token
           at == call[c].at
<1>1. StoreOk(inner) /\ t \in Token \cup {NoToken}
  BY StateShapes DEF IndInv, TypeOK, IndexesLive, StoreOk, RedeemOk, RedeemErr
<1>2. CASE RedeemOk(c)
  <2> DEFINE spending == Spend(inner, t)
             e == Entry("GrantConsumed", t)
  <2>1. t \in DOMAIN inner.byToken /\ ~inner.byToken[t].consumed
    BY <1>2 DEF RedeemOk, Redeemable, Usable, Presentable
  <2>2. e \in AuditEntry /\ inner' = PushHistory(spending, e)
    BY <1>1, <1>2 DEF Entry, AuditEntry, Event, RedeemOk
  <2>3. StoreOk(spending) /\ Sheds(inner, spending)
    BY <1>1, <2>1, SpendOk, SpendSheds
  <2>. HIDE DEF spending, e
  <2>4. Sheds(inner, inner')
    BY <2>2, <2>3, PushHistoryFrame DEF StoreOk, Sheds
  <2>. QED  BY <2>4, ShedsFollow
<1>3. CASE RedeemErr(c) /\ t \in DOMAIN inner.byToken
  <2> DEFINE refused == Refuse(inner, t, at, inner.byToken[t].scope)
  <2>1. inner' = NoteReject(refused, t)
    BY <1>3 DEF RedeemErr
  <2>2. StoreOk(refused) /\ Sheds(inner, refused)
    BY <1>1, RefuseOk, RefuseSheds
  <2>. HIDE DEF refused
  <2>. QED  BY <1>1, <2>1, <2>2, NoteRejectSheds, ShedsFollow
<1>4. CASE RedeemErr(c) /\ t \notin DOMAIN inner.byToken
  <2>1. inner' = NoteReject(inner, NoToken)
    BY <1>4 DEF RedeemErr
  <2>. QED  BY <1>1, <2>1, ShedsNothing, NoteRejectSheds, ShedsFollow
<1>. QED  BY <1>2, <1>3, <1>4

\* Retiring a grant never takes away the index entry of the grant that replaced it, in
\* whatever order callers reach the lock (take_use, purge_indexes, issue_with_expiry).
THEOREM IndexesFollow == Spec => IndexesFollowTheirGrants
<1>1. ASSUME IndInv, Next PROVE EntriesFollow
  <2>1. CASE Tick
    BY <2>1, ShedsNothing, ShedsFollow DEF Tick
  <2>2. ASSUME NEW c \in Caller, Step(c) PROVE EntriesFollow
    <3>1. CASE UNCHANGED inner
      BY <3>1, ShedsNothing, ShedsFollow
    <3>2. CASE Record(c)
      <4>1. StoreOk(inner) /\ call[c].event \in Event /\ call[c].token \in Token \cup {NoToken}
        BY <1>1, <3>2, StateShapes DEF IndInv, TypeOK, IndexesLive, StoreOk, Record
      <4>2. PICK e \in AuditEntry : inner' = PushHistory(inner, e)
        BY <3>2, <4>1 DEF Record, Entry, AuditEntry
      <4>. QED  BY <4>1, <4>2, PushHistoryFrame, ShedsNothing, ShedsFollow DEF StoreOk
    <3>3. \/ UNCHANGED inner
          \/ CommitIssue(c) \/ AuthorizeExact(c) \/ AuthorizeSession(c) \/ AuthorizeNone(c)
          \/ RedeemOk(c) \/ RedeemErr(c) \/ Record(c)
      BY <2>2 DEF Step, IssueOnce, IssueSession, IssueUntil, BeginIssue, BeginAuthorize,
         BeginRedeem, RecordDecision
    <3>. QED  BY <1>1, <3>1, <3>2, <3>3, InsertFollow, AuthorizeFollow, RedeemFollow
  <2>. QED  BY <1>1, <2>1, <2>2 DEF Next
<1>2. IndInv /\ [Next]_vars => [EntriesFollow]_vars
  BY <1>1
<1>3. Spec => [][EntriesFollow]_vars
  BY <1>2, InductiveInvariant, PTL DEF Spec
<1>. QED  BY <1>3 DEF IndexesFollowTheirGrants, EntriesFollow

-----------------------------------------------------------------------------
(* The audit trail of uses. *)

UseEntry(t) == Entry("GrantConsumed", t)
Hits(h, t) == {i \in 1 .. Len(h) : h[i] = UseEntry(t)}
Writers(t) == {c \in Caller : call[c].pc = "recording" /\ call[c].token = t}

\* What UsesAreAudited needs to be inductive: only finitely many callers are about to
\* write an entry, and what they write about a grant is a use.
AuditInv ==
  /\ \A t \in Token : IsFiniteSet(Writers(t))
  /\ \A c \in Caller :
       call[c].pc = "recording" /\ call[c].token \in Token => call[c].event = "GrantConsumed"
  /\ UsesAreAudited

\* The trail of r is that of s with n more uses of t, but for what the ring has trimmed.
Trails(s, r, t, n) ==
  /\ Cardinality(Hits(r.history, t)) <= Cardinality(Hits(s.history, t)) + n
  /\ Len(r.history) < HistoryCap =>
       /\ Len(s.history) < HistoryCap
       /\ Cardinality(Hits(r.history, t)) = Cardinality(Hits(s.history, t)) + n

\* The entries about a grant are finitely many.
LEMMA HitsFinite ==
  ASSUME NEW h \in Seq(AuditEntry), NEW t
  PROVE  IsFiniteSet(Hits(h, t)) /\ Cardinality(Hits(h, t)) \in Nat
<1> DEFINE n == Len(h)
<1>1. n \in Nat
  OBVIOUS
<1>. HIDE DEF n
<1>2. IsFiniteSet(1 .. n)
  BY <1>1, FS_Interval
<1>3. Hits(h, t) \in SUBSET (1 .. n)
  BY DEF Hits, n
<1>. QED  BY <1>2, <1>3, FS_Subset, FS_CardinalityType

\* Appending an entry adds it to the trail; what the ring then drains can only shorten it.
LEMMA PushTrails ==
  ASSUME NEW s, IsStore(s), NEW e \in AuditEntry, NEW t, NEW n \in {0, 1},
         n = 1 <=> e = UseEntry(t)
  PROVE  Trails(s, PushHistory(s, e), t, n)
<1> DEFINE h0 == s.history
           h == Append(h0, e)
           kept == IF Len(h) > HistoryCap
                     THEN SubSeq(h, Len(h) - HistoryCap + 1, Len(h)) ELSE h
<1>1. h0 \in Seq(AuditEntry) /\ Len(h0) \in Nat /\ Len(h0) <= HistoryCap
  BY DEF IsStore
<1>2. /\ h \in Seq(AuditEntry) /\ Len(h) = Len(h0) + 1
      /\ \A i \in 1 .. Len(h0) : h[i] = h0[i]
      /\ h[Len(h0) + 1] = e
  BY <1>1
<1>3. PushHistory(s, e) = [s EXCEPT !.history = kept]
  BY DEF PushHistory
<1>4. PushHistory(s, e).history = kept
  BY <1>3 DEF IsStore
<1>5. Cardinality(Hits(h, t)) = Cardinality(Hits(h0, t)) + n
  <2>1. Hits(h, t) = Hits(h0, t) \cup (IF n = 1 THEN {Len(h0) + 1} ELSE {})
    <3>. HIDE DEF h, h0
    <3>. QED  BY <1>1, <1>2 DEF Hits
  <2>2. Len(h0) + 1 \notin Hits(h0, t)
    BY <1>1 DEF Hits
  <2>3. IsFiniteSet(Hits(h0, t)) /\ Cardinality(Hits(h0, t)) \in Nat
    BY <1>1, HitsFinite
  <2>. HIDE DEF h, h0
  <2>4. CASE n = 1
    BY <2>1, <2>2, <2>3, <2>4, FS_AddElement
  <2>5. CASE n = 0
    BY <2>1, <2>3, <2>5
  <2>. QED  BY <2>4, <2>5
<1>6. CASE Len(h) <= HistoryCap
  <2>1. kept = h
    BY <1>1, <1>2, <1>6, HistoryCapAssumption
  <2>2. Cardinality(Hits(h0, t)) \in Nat
    BY <1>1, HitsFinite
  <2>. HIDE DEF kept, h
  <2>. QED  BY <1>1, <1>2, <1>4, <1>5, <2>1, <2>2, HistoryCapAssumption DEF Trails
<1>7. CASE Len(h) > HistoryCap
  <2> DEFINE f == [i \in Hits(kept, t) |-> i + 1]
  <2>1. Len(h) = HistoryCap + 1 /\ Len(h) - HistoryCap + 1 = 2 /\ HistoryCap \in Nat \ {0}
    BY <1>1, <1>2, <1>7, HistoryCapAssumption
  <2>2. kept = SubSeq(h, 2, Len(h))
    BY <1>7, <2>1
  <2>. HIDE DEF h, kept
  <2>3. /\ kept \in Seq(AuditEntry) /\ Len(kept) = HistoryCap
        /\ \A i \in 1 .. Len(kept) : kept[i] = h[i + 1]
    <3>1. \A i \in 2 .. Len(h) : i \in 1 .. Len(h)
      BY <2>1
    <3>2. kept \in Seq(AuditEntry) /\ Len(kept) = Len(h) - 2 + 1
      BY <1>2, <2>1, <2>2, <3>1, LenProperties, SubSeqProperties
    <3>3. \A i \in 1 .. Len(kept) : kept[i] = h[2 + i - 1]
      BY <1>2, <2>1, <2>2, <3>1, <3>2, LenProperties, SubSeqProperties
    <3>. QED  BY <2>1, <3>2, <3>3
  <2>4. f \in Injection(Hits(kept, t), Hits(h, t))
    BY <2>1, <2>3 DEF Hits, Injection, IsInjective
  <2>5. IsFiniteSet(Hits(h, t)) /\ Cardinality(Hits(h, t)) \in Nat
    BY <1>2, HitsFinite
  <2>6. Cardinality(Hits(kept, t)) <= Cardinality(Hits(h, t))
    BY <2>4, <2>5, FS_Injection
  <2>. QED  BY <1>4, <1>5, <2>1, <2>3, <2>6 DEF Trails
<1>. QED  BY <1>1, <1>2, <1>6, <1>7, HistoryCapAssumption

\* Two trails follow one another.
LEMMA TrailsAgain ==
  ASSUME NEW s, IsStore(s), NEW q, IsStore(q), NEW r, IsStore(r), NEW t,
         NEW n \in Nat, NEW m \in Nat, Trails(s, q, t, n), Trails(q, r, t, m)
  PROVE  Trails(s, r, t, n + m)
<1>1. /\ Cardinality(Hits(s.history, t)) \in Nat
      /\ Cardinality(Hits(q.history, t)) \in Nat
      /\ Cardinality(Hits(r.history, t)) \in Nat
  BY HitsFinite DEF IsStore
<1>. QED  BY <1>1 DEF Trails

\* A trail that is not touched.
LEMMA TrailsNothing ==
  ASSUME NEW s, IsStore(s), NEW r, r.history = s.history, NEW t PROVE Trails(s, r, t, 0)
<1>1. Cardinality(Hits(s.history, t)) \in Nat
  BY HitsFinite DEF IsStore
<1>. QED  BY <1>1 DEF Trails

\* take_use writes no entry.
LEMMA TakeUseTrails ==
  ASSUME NEW s, StoreOk(s)
  PROVE  /\ \A t \in DOMAIN s.byToken : Spend(s, t).history = s.history
         /\ \A t, at, scope : Refuse(s, t, at, scope).history = s.history
<1>1. ASSUME NEW t \in DOMAIN s.byToken PROVE Spend(s, t).history = s.history
  <2> DEFINE g == Used(s.byToken[t])
  <2>1. s.byToken[t] \in Grant
    BY DEF StoreOk, IsStore, IsMap
  <2>2. g \in Grant /\ g.scope = s.byToken[t].scope /\ g.action = s.byToken[t].action
    BY <2>1, UsedGrant
  <2>3. Spend(s, t) = LET new == [s EXCEPT !.byToken = Put(@, t, g)]
                      IN  IF g.consumed THEN PurgeIndexes(new, t) ELSE new
    BY DEF Spend
  <2>. HIDE DEF g
  <2>. QED  BY <2>2, <2>3, ReplaceOk
<1>2. ASSUME NEW t, NEW at, NEW scope PROVE Refuse(s, t, at, scope).history = s.history
  <2>1. CASE ~FoundExpired(s, t, at, scope)
    BY <2>1 DEF Refuse
  <2>2. CASE FoundExpired(s, t, at, scope)
    <3> DEFINE g == [s.byToken[t] EXCEPT !.consumed = TRUE]
               r == Refuse(s, t, at, scope)
    <3>1. t \in DOMAIN s.byToken /\ s.byToken[t] \in Grant
      BY <2>2 DEF FoundExpired, Presentable, StoreOk, IsStore, IsMap
    <3>2. g \in Grant /\ g.consumed
          /\ g.scope = s.byToken[t].scope /\ g.action = s.byToken[t].action
      BY <3>1 DEF Grant
    <3>3. r = LET new == [s EXCEPT !.byToken = Put(@, t, g)]
              IN  IF g.consumed THEN PurgeIndexes(new, t) ELSE new
      BY <2>2, <3>2 DEF Refuse
    <3>. HIDE DEF g, r
    <3>4. r.history = s.history
      BY <3>1, <3>2, <3>3, ReplaceOk
    <3>. QED  BY <3>4 DEF r
  <2>. QED  BY <2>1, <2>2
<1>. QED  BY <1>1, <1>2

\* A rejection is no use.
LEMMA NoteRejectTrails ==
  ASSUME NEW s, StoreOk(s), NEW q, StoreOk(q), q.history = s.history,
         NEW x \in Token \cup {NoToken}, NEW t
  PROVE  Trails(s, NoteReject(q, x), t, 0)
<1>1. Entry("GrantRejected", x) \in AuditEntry /\ Entry("GrantRejected", x) # UseEntry(t)
  BY DEF Entry, AuditEntry, Event, UseEntry
<1>2. Trails(q, NoteReject(q, x), t, 0)
  BY <1>1, PushTrails DEF NoteReject, StoreOk
<1>. QED  BY <1>2 DEF Trails

\* Neither is a lookup that finds nothing.
LEMMA MissTrails ==
  ASSUME NEW s, StoreOk(s), NEW a, NEW at, NEW t
  PROVE  /\ Trails(s, AfterExactMiss(s, a, at), t, 0)
         /\ Trails(s, AfterSessionMiss(s, a, at), t, 0)
<1>1. Trails(s, s, t, 0)
  BY TrailsNothing DEF StoreOk
<1>2. ASSUME ExactIndexed(s, a) PROVE Trails(s, AfterExactMiss(s, a, at), t, 0)
  <2> DEFINE x == s.exactIndex[Fingerprint(a)]
             q == Refuse(s, x, at, "ExactAction")
  <2>1. x \in Token
    BY <1>2 DEF ExactIndexed, StoreOk, IsStore, IsMap
  <2>2. AfterExactMiss(s, a, at) = NoteReject(q, x)
    BY <1>2 DEF AfterExactMiss
  <2>3. StoreOk(q) /\ q.history = s.history
    BY RefuseOk, TakeUseTrails
  <2>. HIDE DEF x, q
  <2>. QED  BY <2>1, <2>2, <2>3, NoteRejectTrails
<1>3. ASSUME SessionIndexed(s, a) PROVE Trails(s, AfterSessionMiss(s, a, at), t, 0)
  <2> DEFINE x == s.sessionIndex[SessionScopeKey(a)]
             q == Refuse(s, x, at, "SessionTool")
  <2>1. x \in Token
    BY <1>3 DEF SessionIndexed, StoreOk, IsStore, IsMap
  <2>2. AfterSessionMiss(s, a, at) = NoteReject(q, x)
    BY <1>3 DEF AfterSessionMiss
  <2>3. StoreOk(q) /\ q.history = s.history
    BY RefuseOk, TakeUseTrails
  <2>. HIDE DEF x, q
  <2>. QED  BY <2>1, <2>2, <2>3, NoteRejectTrails
<1>. QED  BY <1>1, <1>2, <1>3 DEF AfterExactMiss, AfterSessionMiss

\* Issuing is no use either.
LEMMA InsertTrails ==
  ASSUME NEW s, StoreOk(s), NEW x \in Token, NEW g \in Grant, NEW t
  PROVE  Trails(s, Insert(s, x, g), t, 0)
<1> DEFINE indexed == IF g.scope = "ExactAction"
                        THEN [s EXCEPT !.exactIndex = Put(@, Fingerprint(g.action), x)]
                        ELSE [s EXCEPT !.sessionIndex = Put(@, SessionScopeKey(g.action), x)]
           new == [indexed EXCEPT !.byToken = Put(@, x, g)]
           e == Entry("GrantIssued", x)
           kept(q) == LET h == Append(q.history, e)
                      IN  IF Len(h) > HistoryCap
                            THEN SubSeq(h, Len(h) - HistoryCap + 1, Len(h)) ELSE h
<1>1. e \in AuditEntry /\ e # UseEntry(t)
  BY DEF Entry, AuditEntry, Event, UseEntry
<1>2. new.history = s.history /\ DOMAIN new = DOMAIN s
  BY DEF StoreOk, IsStore
<1>3. Insert(s, x, g) = PushHistory(new, e)
  BY DEF Insert
<1>. HIDE DEF new, e, indexed
<1>4. /\ PushHistory(new, e) = [new EXCEPT !.history = kept(new)]
      /\ PushHistory(s, e) = [s EXCEPT !.history = kept(s)]
  BY DEF PushHistory
<1>5. kept(new) = kept(s)
  BY <1>2
<1>. HIDE DEF kept
<1>6. "history" \in DOMAIN s
  BY DEF StoreOk, IsStore
<1>7. PushHistory(new, e).history = PushHistory(s, e).history
  BY <1>2, <1>4, <1>5, <1>6
<1>8. Trails(s, PushHistory(s, e), t, 0)
  BY <1>1, PushTrails DEF StoreOk
<1>. QED  BY <1>3, <1>7, <1>8 DEF Trails

\* A caller that moves on leaves or joins those that are about to write of t.
LEMMA WritersStep ==
  ASSUME call \in [Caller -> CallState], NEW c \in Caller, NEW state, Become(c, state),
         NEW t, IsFiniteSet(Writers(t)),
         NEW before \in {0, 1}, before = 1 <=> c \in Writers(t),
         NEW after \in {0, 1}, after = 1 <=> state.pc = "recording" /\ state.token = t
  PROVE  /\ IsFiniteSet(Writers(t)')
         /\ Cardinality(Writers(t)) \in Nat
         /\ Cardinality(Writers(t)') = Cardinality(Writers(t)) - before + after
<1> DEFINE others == Writers(t) \ {c}
<1>1. /\ c \in Writers(t)' <=> after = 1
      /\ \A d \in Caller : d # c => (d \in Writers(t)' <=> d \in Writers(t))
      /\ Writers(t)' \subseteq Caller /\ Writers(t) \subseteq Caller
  BY DEF Writers, Become
<1>2. Writers(t)' = IF after = 1 THEN others \cup {c} ELSE others
  BY <1>1
<1>3. /\ IsFiniteSet(others) /\ Cardinality(Writers(t)) \in Nat /\ Cardinality(others) \in Nat
      /\ Cardinality(others) = Cardinality(Writers(t)) - before
  <2>1. /\ IsFiniteSet(others)
        /\ Cardinality(others)
             = IF c \in Writers(t) THEN Cardinality(Writers(t)) - 1 ELSE Cardinality(Writers(t))
    BY FS_RemoveElement
  <2>2. Cardinality(Writers(t)) \in Nat /\ Cardinality(others) \in Nat
    BY <2>1, FS_CardinalityType
  <2>. QED  BY <2>1, <2>2
<1>4. c \notin others
  OBVIOUS
<1>. HIDE DEF others
<1>5. IsFiniteSet(others \cup {c}) /\ Cardinality(others \cup {c}) = Cardinality(others) + 1
  BY <1>3, <1>4, FS_AddElement
<1>6. CASE after = 1
  <2>1. Writers(t)' = others \cup {c}
    BY <1>2, <1>6
  <2>. QED  BY <1>3, <1>5, <1>6, <2>1
<1>7. CASE after = 0
  <2>1. Writers(t)' = others
    BY <1>2, <1>7
  <2>. QED  BY <1>3, <1>7, <2>1
<1>. QED  BY <1>6, <1>7

\* The audit of one grant.
UseAudited(t) ==
  spent[t] < UsesLimit =>
    /\ AuditedUses(t) <= spent[t]
    /\ Len(inner.history) < HistoryCap => AuditedUses(t) = spent[t]

\* The arithmetic of one step: h entries and w writers account for s uses, up to
\* what the ring has trimmed.
LEMMA AuditBalance ==
  ASSUME NEW h \in Int, NEW h1 \in Int, NEW w \in Int, NEW w1 \in Int,
         NEW s \in Int, NEW s1 \in Int, NEW n \in Int, NEW u \in Int,
         NEW room \in BOOLEAN,
         s1 = s + u, w1 + n = w + u, h1 <= h + n, h + w <= s,
         room => h1 = h + n /\ h + w = s
  PROVE  h1 + w1 <= s1 /\ (room => h1 + w1 = s1)
OBVIOUS

\* A step that counts u uses of t adds as many entries or writers of entries.
LEMMA AuditStep ==
  ASSUME TypeOK, NEW t \in Token, IsFiniteSet(Writers(t)), UseAudited(t),
         NEW c \in Caller, NEW state, Become(c, state),
         NEW before \in {0, 1}, before = 1 <=> c \in Writers(t),
         NEW after \in {0, 1}, after = 1 <=> state.pc = "recording" /\ state.token = t,
         NEW n \in {0, 1}, Trails(inner, inner', t, n), IsStore(inner'),
         NEW u \in {0, 1}, n + after = u + before,
         spent'[t] = IF u = 1 /\ spent[t] < UsesLimit THEN spent[t] + 1 ELSE spent[t]
  PROVE  IsFiniteSet(Writers(t)') /\ UseAudited(t)'
<1> DEFINE H == Cardinality(Hits(inner.history, t))
           W == Cardinality(Writers(t))
<1>1. /\ IsFiniteSet(Writers(t)')
      /\ W \in Nat /\ W' = W - before + after
  BY WritersStep DEF TypeOK
<1>2. H \in Nat /\ H' \in Nat
  BY HitsFinite DEF TypeOK, IsStore
<1>3. /\ H' <= H + n
      /\ Len(inner'.history) < HistoryCap => Len(inner.history) < HistoryCap /\ H' = H + n
  BY DEF Trails
<1>4. AuditedUses(t) = H + W /\ AuditedUses(t)' = H' + W'
  BY DEF AuditedUses, Hits, Writers, UseEntry
<1>5. spent[t] \in Nat /\ UsesLimit \in Nat
  BY UsesLimitAssumption DEF TypeOK
<1>6. /\ spent[t] < UsesLimit => H + W <= spent[t]
      /\ spent[t] < UsesLimit /\ Len(inner.history) < HistoryCap => H + W = spent[t]
  BY <1>4 DEF UseAudited
<1>. HIDE DEF H, W
<1>7. UseAudited(t)'
  <2>. SUFFICES ASSUME spent'[t] < UsesLimit
                PROVE  /\ H' + W' <= spent'[t]
                       /\ Len(inner'.history) < HistoryCap => H' + W' = spent'[t]
    BY <1>4 DEF UseAudited
  <2>1. spent[t] < UsesLimit /\ spent'[t] = spent[t] + u
    BY <1>5
  <2>2. W' + n = W + u
    BY <1>1
  <2>3. /\ W \in Int /\ W' \in Int /\ H \in Int /\ H' \in Int
        /\ spent[t] \in Int /\ n \in Int /\ u \in Int
    BY <1>1, <1>2, <1>5
  <2>4. PICK h, h1 : h = H /\ h1 = H'
    OBVIOUS
  <2>5. PICK w, w1 : w = W /\ w1 = W'
    OBVIOUS
  <2>6. PICK s, s1 : s = spent[t] /\ s1 = spent'[t]
    OBVIOUS
  <2>7. PICK room \in BOOLEAN : room <=> Len(inner'.history) < HistoryCap
    OBVIOUS
  <2>8. h1 <= h + n /\ (room => h1 = h + n)
    BY <1>3, <2>4, <2>7
  <2>9. h + w <= s /\ (room => h + w = s)
    BY <1>3, <1>6, <2>1, <2>4, <2>5, <2>6, <2>7
  <2>10. s1 = s + u /\ w1 + n = w + u
    BY <2>1, <2>2, <2>5, <2>6
  <2>11. s1 \in Int
    BY <2>1, <2>3, <2>6
  <2>12. h1 + w1 <= s1 /\ (room => h1 + w1 = s1)
    <3>1. /\ h \in Int /\ h1 \in Int /\ w \in Int /\ w1 \in Int /\ s \in Int /\ n \in Int /\ u \in Int
      BY <2>3, <2>4, <2>5, <2>6
    <3>. QED  BY ONLY <3>1, <2>7, <2>8, <2>9, <2>10, <2>11, AuditBalance
  <2>. QED  BY ONLY <2>4, <2>5, <2>6, <2>7, <2>12
<1>. QED  BY <1>1, <1>7

\* Whether a caller in this state, or this caller, is about to write of t.
WritesOf(state, t) == IF state.pc = "recording" /\ state.token = t THEN 1 ELSE 0

\* A step that adds for each grant as many entries or writers as it counts uses keeps
\* the audit.
LEMMA AuditKept ==
  ASSUME IndInv, AuditInv, NEW c \in Caller, NEW state \in CallState, Become(c, state),
         state.pc = "recording" /\ state.token \in Token => state.event = "GrantConsumed",
         IsStore(inner'),
         \A t \in Token : \E n \in {0, 1}, u \in {0, 1} :
           /\ Trails(inner, inner', t, n)
           /\ n + WritesOf(state, t) = u + WritesOf(call[c], t)
           /\ spent'[t] = IF u = 1 /\ spent[t] < UsesLimit THEN spent[t] + 1 ELSE spent[t]
  PROVE  AuditInv'
<1>1. TypeOK
  BY DEF IndInv
<1>2. ASSUME NEW t \in Token PROVE IsFiniteSet(Writers(t)') /\ UseAudited(t)'
  <2>1. PICK n \in {0, 1}, u \in {0, 1} :
          /\ Trails(inner, inner', t, n)
          /\ n + WritesOf(state, t) = u + WritesOf(call[c], t)
          /\ spent'[t] = IF u = 1 /\ spent[t] < UsesLimit THEN spent[t] + 1 ELSE spent[t]
    OBVIOUS
  <2>2. IsFiniteSet(Writers(t)) /\ UseAudited(t)
    BY DEF AuditInv, UsesAreAudited, UseAudited
  <2>3. PICK before \in {0, 1} : before = WritesOf(call[c], t)
    BY DEF WritesOf
  <2>4. PICK after \in {0, 1} : after = WritesOf(state, t)
    BY DEF WritesOf
  <2>5. before = 1 <=> c \in Writers(t)
    BY <2>3 DEF WritesOf, Writers
  <2>6. after = 1 <=> state.pc = "recording" /\ state.token = t
    BY <2>4 DEF WritesOf
  <2>7. n + after = u + before
    BY <2>1, <2>3, <2>4
  <2>8. /\ Trails(inner, inner', t, n)
        /\ spent'[t] = IF u = 1 /\ spent[t] < UsesLimit THEN spent[t] + 1 ELSE spent[t]
    BY <2>1
  <2>. QED  BY ONLY TypeOK, <1>1, t \in Token, <2>2, Become(c, state), <2>5, <2>6, <2>7, <2>8,
                    IsStore(inner'), AuditStep
<1>3. ASSUME NEW d \in Caller, call'[d].pc = "recording", call'[d].token \in Token
      PROVE  call'[d].event = "GrantConsumed"
  BY <1>1, <1>3 DEF TypeOK, Become, AuditInv
<1>. QED  BY <1>2, <1>3 DEF AuditInv, UsesAreAudited, UseAudited

\* A step that neither uses a grant nor writes of one.
LEMMA QuietKept ==
  ASSUME IndInv, AuditInv, NEW c \in Caller, NEW state \in CallState, Become(c, state),
         call[c].pc # "recording", state.pc # "recording" \/ state.token \notin Token,
         IsStore(inner'), \A t \in Token : Trails(inner, inner', t, 0), UNCHANGED spent
  PROVE  AuditInv'
<1>1. ASSUME NEW t \in Token
      PROVE  /\ 0 + WritesOf(state, t) = 0 + WritesOf(call[c], t)
             /\ spent'[t] = IF 0 = 1 /\ spent[t] < UsesLimit THEN spent[t] + 1 ELSE spent[t]
  BY DEF WritesOf
<1>2. \A t \in Token : \E n \in {0, 1}, u \in {0, 1} :
           /\ Trails(inner, inner', t, n)
           /\ n + WritesOf(state, t) = u + WritesOf(call[c], t)
           /\ spent'[t] = IF u = 1 /\ spent[t] < UsesLimit THEN spent[t] + 1 ELSE spent[t]
  BY <1>1
<1>. QED  BY <1>2, AuditKept

\* A use is counted of the grant that is used.
LEMMA CountUseOf ==
  ASSUME TypeOK, NEW x \in Token, CountUse(x), NEW t \in Token
  PROVE  spent'[t] = IF t = x /\ spent[t] < UsesLimit THEN spent[t] + 1 ELSE spent[t]
BY DEF CountUse, TypeOK

\* authorize leaves the entry to be written under the next lock.
LEMMA AuthorizedAudited ==
  ASSUME IndInv, AuditInv, NEW c \in Caller, call[c].pc = "authorizing",
         NEW s, StoreOk(s), \A t \in Token : Trails(inner, s, t, 0),
         NEW x \in DOMAIN s.byToken, ~s.byToken[x].consumed, Authorized(c, x, s)
  PROVE  AuditInv'
<1> DEFINE state == [pc |-> "recording", event |-> "GrantConsumed", token |-> x]
<1>1. x \in Token /\ TypeOK
  BY DEF IndInv, StoreOk, IsStore, IsMap
<1>2. state \in CallState /\ Become(c, state)
  BY <1>1 DEF CallState, Event, Authorized
<1>3. inner'.history = s.history /\ IsStore(inner')
  BY SpendOk, TakeUseTrails DEF Authorized, StoreOk
<1>4. \A t \in Token : Trails(inner, inner', t, 0)
  BY <1>3 DEF Trails
<1>5. ASSUME NEW t \in Token
      PROVE  \E n \in {0, 1}, u \in {0, 1} :
               /\ Trails(inner, inner', t, n)
               /\ n + WritesOf(state, t) = u + WritesOf(call[c], t)
               /\ spent'[t] = IF u = 1 /\ spent[t] < UsesLimit THEN spent[t] + 1 ELSE spent[t]
  <2>1. PICK u \in {0, 1} : u = IF t = x THEN 1 ELSE 0
    OBVIOUS
  <2>2. spent'[t] = IF u = 1 /\ spent[t] < UsesLimit THEN spent[t] + 1 ELSE spent[t]
    BY <1>1, <2>1, CountUseOf DEF Authorized
  <2>3. WritesOf(state, t) = u /\ WritesOf(call[c], t) = 0
    BY <2>1 DEF WritesOf
  <2>4. 0 + WritesOf(state, t) = u + WritesOf(call[c], t)
    BY <2>3
  <2>. QED  BY <1>4, <2>2, <2>4
<1>6. state.event = "GrantConsumed"
  OBVIOUS
<1>. HIDE DEF state
<1>. QED  BY <1>2, <1>3, <1>5, <1>6, AuditKept

\* The outcomes of authorize keep the audit.
LEMMA AuthorizeAudited ==
  ASSUME IndInv, AuditInv, NEW c \in Caller,
         AuthorizeExact(c) \/ AuthorizeSession(c) \/ AuthorizeNone(c)
  PROVE  AuditInv'
<1> DEFINE a == call[c].action
           at == call[c].at
           missed == AfterExactMiss(inner, a, at)
<1>1. StoreOk(inner) /\ call[c].pc = "authorizing"
  BY DEF IndInv, TypeOK, IndexesLive, StoreOk, AuthorizeExact, AuthorizeSession, AuthorizeNone
<1>2. StoreOk(missed) /\ \A t \in Token : Trails(inner, missed, t, 0)
  BY <1>1, ExactMissOk, MissTrails
<1>3. CASE AuthorizeExact(c)
  <2>1. PICK x \in ExactHit(inner, a, at) : Authorized(c, x, inner)
    BY <1>3 DEF AuthorizeExact
  <2>2. x \in DOMAIN inner.byToken /\ ~inner.byToken[x].consumed
    BY <2>1, HitUsable DEF Usable, Presentable
  <2>3. \A t \in Token : Trails(inner, inner, t, 0)
    BY <1>1, TrailsNothing DEF StoreOk
  <2>. QED  BY <1>1, <2>1, <2>2, <2>3, AuthorizedAudited
<1>4. CASE AuthorizeSession(c)
  <2>1. PICK x \in SessionHit(missed, a, at) : Authorized(c, x, missed)
    BY <1>4 DEF AuthorizeSession
  <2>2. x \in DOMAIN missed.byToken /\ ~missed.byToken[x].consumed
    BY <2>1, HitUsable DEF Usable, Presentable
  <2>. HIDE DEF missed
  <2>. QED  BY <1>1, <1>2, <2>1, <2>2, AuthorizedAudited
<1>5. CASE AuthorizeNone(c)
  <2>1. inner' = AfterSessionMiss(missed, a, at) /\ Become(c, Idle) /\ UNCHANGED spent
    BY <1>5 DEF AuthorizeNone
  <2>. HIDE DEF missed
  <2>2. StoreOk(inner') /\ \A t \in Token : Trails(missed, inner', t, 0)
    BY <1>2, <2>1, SessionMissOk, MissTrails
  <2>3. ASSUME NEW t \in Token PROVE Trails(inner, inner', t, 0)
    <3>1. Trails(inner, inner', t, 0 + 0)
      BY <1>1, <1>2, <2>2, TrailsAgain DEF StoreOk
    <3>. QED  BY <3>1
  <2>. QED  BY <1>1, <2>1, <2>2, <2>3, IdleState, QuietKept DEF StoreOk
<1>. QED  BY <1>3, <1>4, <1>5

\* redeem writes its entry under the lock it uses the grant under.
LEMMA RedeemAudited ==
  ASSUME IndInv, AuditInv, NEW c \in Caller, RedeemOk(c) \/ RedeemErr(c)
  PROVE  AuditInv'
<1> DEFINE x == call[c].token
           at == call[c].at
<1>1. StoreOk(inner) /\ x \in Token \cup {NoToken} /\ TypeOK /\ call[c].pc = "redeeming"
  BY StateShapes DEF IndInv, TypeOK, IndexesLive, StoreOk, RedeemOk, RedeemErr
<1>2. CASE RedeemOk(c)
  <2> DEFINE spending == Spend(inner, x)
             e == Entry("GrantConsumed", x)
  <2>1. x \in DOMAIN inner.byToken /\ ~inner.byToken[x].consumed
    BY <1>2 DEF RedeemOk, Redeemable, Usable, Presentable
  <2>2. x \in Token
    BY <1>1, <2>1 DEF StoreOk, IsStore, IsMap
  <2>3. e \in AuditEntry /\ inner' = PushHistory(spending, e) /\ Become(c, Idle) /\ CountUse(x)
    BY <1>1, <1>2 DEF Entry, AuditEntry, Event, RedeemOk
  <2>4. StoreOk(spending) /\ spending.history = inner.history
    BY <1>1, <2>1, SpendOk, TakeUseTrails
  <2>5. \A t : e = UseEntry(t) <=> x = t
    BY DEF Entry, UseEntry
  <2>. HIDE DEF spending, e
  <2>6. IsStore(inner')
    BY <2>3, <2>4, PushHistoryFrame DEF StoreOk
  <2>. HIDE DEF x
  <2>7. ASSUME NEW t \in Token
        PROVE  \E n \in {0, 1}, u \in {0, 1} :
                 /\ Trails(inner, inner', t, n)
                 /\ n + WritesOf(Idle, t) = u + WritesOf(call[c], t)
                 /\ spent'[t] = IF u = 1 /\ spent[t] < UsesLimit THEN spent[t] + 1 ELSE spent[t]
    <3>1. PICK n \in {0, 1} : n = IF t = x THEN 1 ELSE 0
      OBVIOUS
    <3>2. Trails(spending, inner', t, n)
      BY <2>3, <2>4, <2>5, <3>1, PushTrails DEF StoreOk
    <3>3. Trails(inner, inner', t, n)
      BY <2>4, <3>2 DEF Trails
    <3>4. spent'[t] = IF n = 1 /\ spent[t] < UsesLimit THEN spent[t] + 1 ELSE spent[t]
      BY <1>1, <2>2, <2>3, <3>1, CountUseOf
    <3>5. n + WritesOf(Idle, t) = n + WritesOf(call[c], t)
      BY <1>1 DEF WritesOf, Idle
    <3>. QED  BY <3>3, <3>4, <3>5
  <2>8. Idle.pc # "recording" /\ Idle \in CallState
    BY IdleState
  <2>. QED  BY <2>3, <2>6, <2>7, <2>8, AuditKept
<1>3. CASE RedeemErr(c)
  <2>1. Become(c, Idle) /\ UNCHANGED spent
    BY <1>3 DEF RedeemErr
  <2>2. StoreOk(inner') /\ \A t \in Token : Trails(inner, inner', t, 0)
    <3>1. CASE x \in DOMAIN inner.byToken
      <4> DEFINE refused == Refuse(inner, x, at, inner.byToken[x].scope)
      <4>1. inner' = NoteReject(refused, x)
        BY <1>3, <3>1 DEF RedeemErr
      <4>2. StoreOk(refused) /\ refused.history = inner.history
        BY <1>1, RefuseOk, TakeUseTrails
      <4>. HIDE DEF refused
      <4>. QED  BY <1>1, <4>1, <4>2, NoteRejectOk, NoteRejectTrails
    <3>2. CASE x \notin DOMAIN inner.byToken
      <4>1. inner' = NoteReject(inner, NoToken)
        BY <1>3, <3>2 DEF RedeemErr
      <4>. QED  BY <1>1, <4>1, NoteRejectOk, NoteRejectTrails
    <3>. QED  BY <3>1, <3>2
  <2>. QED  BY <1>1, <2>1, <2>2, IdleState, QuietKept DEF StoreOk
<1>. QED  BY <1>2, <1>3

\* What authorize left to be written is written.
LEMMA RecordAudited ==
  ASSUME IndInv, AuditInv, NEW c \in Caller, Record(c)
  PROVE  AuditInv'
<1> DEFINE e == Entry(call[c].event, call[c].token)
<1>1. StoreOk(inner) /\ TypeOK /\ call[c].pc = "recording"
  BY DEF IndInv, TypeOK, IndexesLive, StoreOk, Record
<1>2. call[c].event \in Event /\ call[c].token \in Token \cup {NoToken}
  BY <1>1, StateShapes DEF TypeOK
<1>3. e \in AuditEntry
  BY <1>2 DEF Entry, AuditEntry
<1>4. inner' = PushHistory(inner, e) /\ Become(c, Idle) /\ UNCHANGED spent
  BY DEF Record
<1>5. \A t \in Token : e = UseEntry(t) <=> call[c].token = t
  BY <1>1 DEF Entry, UseEntry, AuditInv
<1>. HIDE DEF e
<1>6. IsStore(inner')
  BY <1>1, <1>3, <1>4, PushHistoryFrame DEF StoreOk
<1>7. ASSUME NEW t \in Token
      PROVE  \E n \in {0, 1}, u \in {0, 1} :
               /\ Trails(inner, inner', t, n)
               /\ n + WritesOf(Idle, t) = u + WritesOf(call[c], t)
               /\ spent'[t] = IF u = 1 /\ spent[t] < UsesLimit THEN spent[t] + 1 ELSE spent[t]
  <2>1. PICK n \in {0, 1} : n = IF call[c].token = t THEN 1 ELSE 0
    OBVIOUS
  <2>2. Trails(inner, inner', t, n)
    BY <1>1, <1>3, <1>4, <1>5, <2>1, PushTrails DEF StoreOk
  <2>3. n + WritesOf(Idle, t) = 0 + WritesOf(call[c], t)
    BY <1>1, <2>1 DEF WritesOf, Idle
  <2>4. spent'[t] = IF 0 = 1 /\ spent[t] < UsesLimit THEN spent[t] + 1 ELSE spent[t]
    BY <1>4
  <2>. QED  BY <2>2, <2>3, <2>4
<1>8. Idle.pc # "recording" /\ Idle \in CallState
  BY IdleState
<1>. QED  BY <1>4, <1>6, <1>7, <1>8, AuditKept

\* Beginning a call and inserting a grant use nothing.
LEMMA BeginAudited ==
  ASSUME IndInv, AuditInv, NEW c \in Caller, NEW a \in Action, UNCHANGED inner,
         \/ IssueOnce(c, a) \/ IssueSession(c, a) \/ IssueUntil(c, a)
         \/ BeginAuthorize(c, a)
         \/ \E t \in Token \cup {NoToken} : BeginRedeem(c, t, a)
  PROVE  AuditInv'
<1>1. call[c] = Idle /\ UNCHANGED spent
  BY DEF IssueOnce, IssueSession, IssueUntil, BeginIssue, BeginAuthorize, BeginRedeem
<1>2. PICK state : Become(c, state) /\ state.pc # "recording"
  <2>1. CASE IssueOnce(c, a) \/ IssueSession(c, a) \/ IssueUntil(c, a)
    <3>1. PICK scope, e, m : BeginIssue(c, scope, a, e, m)
      BY <2>1 DEF IssueOnce, IssueSession, IssueUntil
    <3>2. PICK g : g = NewGrant(scope, a, e, m)
      OBVIOUS
    <3>3. Become(c, [pc |-> "issuing", token |-> seq + 1, grant |-> g])
      BY <3>1, <3>2 DEF BeginIssue
    <3>. QED  BY <3>3
  <2>2. CASE BeginAuthorize(c, a)
    BY <2>2 DEF BeginAuthorize
  <2>3. CASE \E t \in Token \cup {NoToken} : BeginRedeem(c, t, a)
    BY <2>3 DEF BeginRedeem
  <2>. QED  BY <2>1, <2>2, <2>3
<1>3. IndInv' /\ TypeOK
  <2>1. Next
    BY DEF Next, Step
  <2>. QED  BY <2>1, NextIndInv DEF IndInv
<1>4. state \in CallState
  BY <1>2, <1>3 DEF Become, IndInv, TypeOK
<1>5. IsStore(inner') /\ \A t \in Token : Trails(inner, inner', t, 0)
  BY <1>3, TrailsNothing DEF TypeOK
<1>. QED  BY <1>1, <1>2, <1>4, <1>5, QuietKept DEF Idle

\* Every step keeps the audit.
LEMMA NextAuditInv == IndInv /\ AuditInv /\ [Next]_vars => AuditInv'
<1>. SUFFICES ASSUME IndInv, AuditInv, [Next]_vars PROVE AuditInv'
  OBVIOUS
<1>1. CASE Tick \/ UNCHANGED vars
  BY <1>1 DEF Tick, vars, AuditInv, Writers, UsesAreAudited, AuditedUses
<1>2. ASSUME NEW c \in Caller, Step(c) PROVE AuditInv'
  <2>1. CASE CommitIssue(c)
    <3>1. /\ StoreOk(inner) /\ call[c].pc = "issuing"
          /\ call[c].token \in Token /\ call[c].grant \in Grant
      BY <2>1, StateShapes DEF IndInv, TypeOK, IndexesLive, StoreOk, CommitIssue
    <3>2. /\ inner' = Insert(inner, call[c].token, call[c].grant) /\ Become(c, Idle)
          /\ UNCHANGED spent
      BY <2>1 DEF CommitIssue
    <3>3. IsStore(inner')
      <4>1. Next
        BY <1>2 DEF Next
      <4>. QED  BY <4>1, NextIndInv DEF IndInv, TypeOK
    <3>. QED  BY <3>1, <3>2, <3>3, InsertTrails, IdleState, QuietKept
  <2>2. ASSUME NEW a \in Action,
               \/ IssueOnce(c, a) \/ IssueSession(c, a) \/ IssueUntil(c, a)
               \/ BeginAuthorize(c, a)
               \/ \E t \in Token \cup {NoToken} : BeginRedeem(c, t, a)
        PROVE  AuditInv'
    <3>1. UNCHANGED inner
      BY <2>2 DEF IssueOnce, IssueSession, IssueUntil, BeginIssue, BeginAuthorize, BeginRedeem
    <3>. QED  BY <2>2, <3>1, BeginAudited
  <2>3. CASE RecordDecision(c)
    <3> DEFINE state == [pc |-> "recording", event |-> "Decided", token |-> NoToken]
    <3>1. Become(c, state) /\ UNCHANGED <<inner, spent>> /\ call[c] = Idle
      BY <2>3 DEF RecordDecision
    <3>2. state \in CallState
      BY DEF CallState, Event
    <3>3. NoToken \notin Token
      BY DEF NoToken, Token
    <3>4. IsStore(inner') /\ \A t \in Token : Trails(inner, inner', t, 0)
      BY <3>1, TrailsNothing DEF IndInv, TypeOK
    <3>5. call[c].pc # "recording" /\ state.token \notin Token
      BY <3>1, <3>3 DEF Idle
    <3>. HIDE DEF state
    <3>. QED  BY <3>1, <3>2, <3>4, <3>5, QuietKept
  <2>. QED  BY <1>2, <2>1, <2>2, <2>3, AuthorizeAudited, RedeemAudited, RecordAudited DEF Step
<1>. QED  BY <1>1, <1>2 DEF Next

\* No use is audited twice, and until the ring trims each has its entry or a caller about
\* to write it, for any callers, grants and sizes of the ring (authorize, redeem).
THEOREM UsesAudited == Spec => []UsesAreAudited
<1>1. Init => AuditInv
  <2>. SUFFICES ASSUME Init PROVE AuditInv
    OBVIOUS
  <2>1. inner.history = << >> /\ Len(inner.history) = 0
    BY DEF Init, EmptyStore
  <2>2. \A t : Hits(inner.history, t) = {} /\ Writers(t) = {}
    BY <2>1 DEF Init, Hits, Writers, Idle
  <2>3. \A t : AuditedUses(t) = Cardinality(Hits(inner.history, t)) + Cardinality(Writers(t))
    BY DEF AuditedUses, Hits, Writers, UseEntry
  <2>4. \A t \in Token : AuditedUses(t) = 0 /\ spent[t] = 0
    BY <2>2, <2>3, FS_EmptySet DEF Init
  <2>5. \A c \in Caller : call[c].pc = "idle"
    BY DEF Init, Idle
  <2>6. UsesAreAudited
    BY <2>4 DEF UsesAreAudited
  <2>7. \A t \in Token : IsFiniteSet(Writers(t))
    BY <2>2, FS_EmptySet
  <2>. QED  BY <2>5, <2>6, <2>7 DEF AuditInv
<1>2. AuditInv => UsesAreAudited
  BY DEF AuditInv
<1>. QED  BY <1>1, <1>2, NextAuditInv, InductiveInvariant, PTL DEF Spec

-----------------------------------------------------------------------------
(* The store implements GrantVault. *)

\* Some grants of s have been found expired at an instant and closed in r; nothing
\* else happened to any grant.
ClosesExpired(s, r, at) ==
  /\ DOMAIN r.byToken = DOMAIN s.byToken
  /\ \A x \in DOMAIN s.byToken :
       \/ r.byToken[x] = s.byToken[x]
       \/ /\ s.byToken[x].expiresAt <= at
          /\ r.byToken[x] = [s.byToken[x] EXCEPT !.consumed = TRUE]

\* A store with the same grants closes nothing.
LEMMA ClosesNothing ==
  ASSUME NEW s, NEW r, r.byToken = s.byToken, NEW at
  PROVE  ClosesExpired(s, r, at)
BY DEF ClosesExpired

\* take_use, when it fails, closes an expired grant at most.
LEMMA RefuseCloses ==
  ASSUME NEW s, StoreOk(s), NEW t, NEW at \in Nat, NEW scope
  PROVE  ClosesExpired(s, Refuse(s, t, at, scope), at)
<1>1. CASE ~FoundExpired(s, t, at, scope)
  BY <1>1, ClosesNothing DEF Refuse
<1>2. CASE FoundExpired(s, t, at, scope)
  <2>1. /\ t \in DOMAIN s.byToken /\ s.byToken[t] \in Grant
        /\ at >= s.byToken[t].expiresAt
    BY <1>2 DEF FoundExpired, Presentable, StoreOk, IsStore, IsMap
  <2>2. PICK g : g = [s.byToken[t] EXCEPT !.consumed = TRUE]
    OBVIOUS
  <2>3. /\ g \in Grant /\ g.consumed
        /\ g.scope = s.byToken[t].scope /\ g.action = s.byToken[t].action
    BY <2>1, <2>2 DEF Grant
  <2>4. PICK r : r = Refuse(s, t, at, scope)
    OBVIOUS
  <2>5. r = LET new == [s EXCEPT !.byToken = Put(@, t, g)]
            IN  IF g.consumed THEN PurgeIndexes(new, t) ELSE new
    BY <1>2, <2>2, <2>3, <2>4 DEF Refuse
  <2>6. r.byToken = Put(s.byToken, t, g)
    BY <2>1, <2>3, <2>5, ReplaceOk
  <2>7. /\ DOMAIN r.byToken = DOMAIN s.byToken
        /\ r.byToken[t] = g
        /\ \A x \in DOMAIN s.byToken : x # t => r.byToken[x] = s.byToken[x]
    BY <2>1, <2>6 DEF Put
  <2>8. s.byToken[t].expiresAt <= at
    BY <2>1 DEF Grant
  <2>9. ClosesExpired(s, r, at)
    BY <2>2, <2>7, <2>8 DEF ClosesExpired
  <2>. QED  BY <2>4, <2>9
<1>. QED  BY <1>1, <1>2

\* A note in the audit ring closes nothing.
LEMMA NoteCloses ==
  ASSUME NEW s, StoreOk(s), NEW r, StoreOk(r), NEW at, ClosesExpired(s, r, at),
         NEW t \in Token \cup {NoToken}
  PROVE  StoreOk(NoteReject(r, t)) /\ ClosesExpired(s, NoteReject(r, t), at)
<1>1. StoreOk(NoteReject(r, t)) /\ NoteReject(r, t).byToken = r.byToken
  BY NoteRejectOk
<1>. QED  BY <1>1 DEF ClosesExpired

\* The exact part of authorize closes an expired grant at most.
LEMMA ExactMissCloses ==
  ASSUME NEW s, StoreOk(s), NEW a, NEW at \in Nat
  PROVE  ClosesExpired(s, AfterExactMiss(s, a, at), at)
<1>1. CASE ExactIndexed(s, a)
  <2>1. PICK t : t = s.exactIndex[Fingerprint(a)]
    OBVIOUS
  <2>2. t \in Token
    BY <1>1, <2>1 DEF ExactIndexed, StoreOk, IsStore, IsMap
  <2>3. AfterExactMiss(s, a, at) = NoteReject(Refuse(s, t, at, "ExactAction"), t)
    BY <1>1, <2>1 DEF AfterExactMiss
  <2>4. StoreOk(Refuse(s, t, at, "ExactAction"))
    BY RefusalRetires
  <2>5. ClosesExpired(s, Refuse(s, t, at, "ExactAction"), at)
    BY RefuseCloses
  <2>. QED  BY <2>2, <2>3, <2>4, <2>5, NoteCloses
<1>2. CASE ~ExactIndexed(s, a)
  BY <1>2, ClosesNothing DEF AfterExactMiss
<1>. QED  BY <1>1, <1>2

\* The session part likewise.
LEMMA SessionMissCloses ==
  ASSUME NEW s, StoreOk(s), NEW a, NEW at \in Nat
  PROVE  ClosesExpired(s, AfterSessionMiss(s, a, at), at)
<1>1. CASE SessionIndexed(s, a)
  <2>1. PICK t : t = s.sessionIndex[SessionScopeKey(a)]
    OBVIOUS
  <2>2. t \in Token
    BY <1>1, <2>1 DEF SessionIndexed, StoreOk, IsStore, IsMap
  <2>3. AfterSessionMiss(s, a, at) = NoteReject(Refuse(s, t, at, "SessionTool"), t)
    BY <1>1, <2>1 DEF AfterSessionMiss
  <2>4. StoreOk(Refuse(s, t, at, "SessionTool"))
    BY RefusalRetires
  <2>5. ClosesExpired(s, Refuse(s, t, at, "SessionTool"), at)
    BY RefuseCloses
  <2>. QED  BY <2>2, <2>3, <2>4, <2>5, NoteCloses
<1>2. CASE ~SessionIndexed(s, a)
  BY <1>2, ClosesNothing DEF AfterSessionMiss
<1>. QED  BY <1>1, <1>2

\* Both parts of authorize are dated alike, so what they close adds up.
LEMMA ClosesAgain ==
  ASSUME NEW s, StoreOk(s), NEW r, NEW q, NEW at,
         ClosesExpired(s, r, at), ClosesExpired(r, q, at)
  PROVE  ClosesExpired(s, q, at)
<1>1. DOMAIN q.byToken = DOMAIN s.byToken
  BY DEF ClosesExpired
<1>2. ASSUME NEW x \in DOMAIN s.byToken
      PROVE  \/ q.byToken[x] = s.byToken[x]
             \/ /\ s.byToken[x].expiresAt <= at
                /\ q.byToken[x] = [s.byToken[x] EXCEPT !.consumed = TRUE]
  <2>1. PICK g, h : g = s.byToken[x] /\ h = r.byToken[x]
    OBVIOUS
  <2>2. g \in Grant
    BY <2>1 DEF StoreOk, IsStore, IsMap
  <2>3. h = g \/ (g.expiresAt <= at /\ h = [g EXCEPT !.consumed = TRUE])
    BY <2>1 DEF ClosesExpired
  <2>4. q.byToken[x] = h \/ (h.expiresAt <= at /\ q.byToken[x] = [h EXCEPT !.consumed = TRUE])
    BY <2>1 DEF ClosesExpired
  <2>5. [g EXCEPT !.consumed = TRUE].expiresAt = g.expiresAt
        /\ [[g EXCEPT !.consumed = TRUE] EXCEPT !.consumed = TRUE] = [g EXCEPT !.consumed = TRUE]
    BY <2>2 DEF Grant
  <2>. QED  BY ONLY <2>1, <2>3, <2>4, <2>5
<1>. QED  BY <1>1, <1>2 DEF ClosesExpired

\* What a call may close in passing: the open grants that had expired when it was made.
Closable(at) == {t \in OpenGrants : inner.byToken[t].expiresAt <= at}

\* The vault after a step that only closes expired grants: the terms stay, and what is
\* no longer open had expired.
LEMMA VaultCloses ==
  ASSUME IndInv, NEW at, ClosesExpired(inner, inner', at)
  PROVE  /\ GrantTerms' = GrantTerms
         /\ \E gone \in SUBSET Closable(at) : OpenGrants' = OpenGrants \ gone
<1>1. PICK s, r : s = inner /\ r = inner'
  OBVIOUS
<1>2. \A x \in DOMAIN s.byToken : s.byToken[x] \in Grant
  BY <1>1 DEF IndInv, TypeOK, IsStore, IsMap
<1>3. DOMAIN r.byToken = DOMAIN s.byToken
  BY <1>1 DEF ClosesExpired
<1>4. ASSUME NEW x \in DOMAIN s.byToken
      PROVE  /\ TermsOf(r.byToken[x]) = TermsOf(s.byToken[x])
             /\ s.byToken[x].consumed => r.byToken[x].consumed
             /\ r.byToken[x].consumed => s.byToken[x].consumed \/ s.byToken[x].expiresAt <= at
  <2>1. \/ r.byToken[x] = s.byToken[x]
        \/ s.byToken[x].expiresAt <= at /\ r.byToken[x] = [s.byToken[x] EXCEPT !.consumed = TRUE]
    BY <1>1 DEF ClosesExpired
  <2>. QED  BY <1>2, <2>1 DEF TermsOf, Grant
<1>5. GrantTerms' = GrantTerms
  BY <1>1, <1>3, <1>4 DEF GrantTerms
<1>6. PICK gone : gone = OpenGrants \ OpenGrants'
  OBVIOUS
<1>7. gone \subseteq Closable(at)
  BY <1>1, <1>3, <1>4, <1>6 DEF OpenGrants, Closable
<1>8. OpenGrants' \subseteq OpenGrants
  BY <1>1, <1>3, <1>4 DEF OpenGrants
<1>. QED  BY <1>5, <1>6, <1>7, <1>8

\* A use closes a grant exactly when it was the last one, by the count of the calls it
\* allowed: the counter of take_use saturates where the count does.
LEMMA LastUseCloses ==
  ASSUME NEW g \in Grant, NEW k \in 0 .. UsesLimit
  PROVE  /\ TermsOf(Used(g)) = TermsOf(g)
         /\ Used(g).consumed <=> g.maxUses <= IF k < UsesLimit THEN k + 1 ELSE k
<1> DEFINE n == IF g.uses < UsesLimit THEN g.uses + 1 ELSE g.uses
           over == n >= g.maxUses
<1>1. TermsOf(Used(g)) = TermsOf(g)
  BY UsedGrant DEF TermsOf
<1>2. /\ n \in 1 .. UsesLimit
      /\ (IF k < UsesLimit THEN k + 1 ELSE k) \in 1 .. UsesLimit
  BY UsesLimitAssumption DEF Grant
<1>3. Used(g) = [g EXCEPT !.uses = n, !.consumed = over]
  BY DEF Used
<1>4. over \in BOOLEAN /\ (over <=> n >= g.maxUses)
  OBVIOUS
<1>. HIDE DEF n, over
<1>5. Used(g).consumed <=> over
  BY <1>3, <1>4 DEF Grant
<1>6. g.maxUses = 1 \/ g.maxUses = UsesLimit + 1
  BY DEF Grant, Unlimited
<1>. QED  BY <1>1, <1>2, <1>4, <1>5, <1>6, UsesLimitAssumption

\* The vault after a step that uses one grant of what a lookup left.
LEMMA VaultUses ==
  ASSUME IndInv, NEW at, NEW s, StoreOk(s), ClosesExpired(inner, s, at),
         NEW t \in DOMAIN s.byToken, ~s.byToken[t].consumed,
         inner'.byToken = Spend(s, t).byToken, CountUse(t)
  PROVE  /\ t \in OpenGrants
         /\ GrantTerms' = GrantTerms
         /\ spent' = [spent EXCEPT ![t] = IF @ < UsesLimit THEN @ + 1 ELSE @]
         /\ \E gone \in SUBSET Closable(at) :
              OpenGrants' = OpenGrants \ (gone \cup {x \in {t} : inner.byToken[x].maxUses <= spent'[x]})
<1>1. PICK q, r : q = inner /\ r = inner'
  OBVIOUS
<1>2. \A x \in DOMAIN q.byToken : q.byToken[x] \in Grant
  BY <1>1 DEF IndInv, TypeOK, IsStore, IsMap
<1>3. /\ DOMAIN s.byToken = DOMAIN q.byToken
      /\ t \in DOMAIN q.byToken
      /\ s.byToken[t] \in Grant
  BY <1>1 DEF ClosesExpired, StoreOk, IsStore, IsMap
<1>4. ASSUME NEW x \in DOMAIN q.byToken
      PROVE  /\ TermsOf(s.byToken[x]) = TermsOf(q.byToken[x])
             /\ s.byToken[x].maxUses = q.byToken[x].maxUses
             /\ q.byToken[x].consumed => s.byToken[x].consumed
             /\ s.byToken[x].consumed => q.byToken[x].consumed \/ q.byToken[x].expiresAt <= at
  <2>1. \/ s.byToken[x] = q.byToken[x]
        \/ q.byToken[x].expiresAt <= at /\ s.byToken[x] = [q.byToken[x] EXCEPT !.consumed = TRUE]
    BY <1>1 DEF ClosesExpired
  <2>. QED  BY <1>2, <2>1 DEF TermsOf, Grant
<1>5. /\ DOMAIN r.byToken = DOMAIN q.byToken
      /\ r.byToken[t] = Used(s.byToken[t])
      /\ \A x \in DOMAIN q.byToken : x # t => r.byToken[x] = s.byToken[x]
  BY <1>1, <1>3, SpendOk
<1>6. /\ spent' = [spent EXCEPT ![t] = IF @ < UsesLimit THEN @ + 1 ELSE @]
      /\ spent[t] \in 0 .. UsesLimit
      /\ spent'[t] = IF spent[t] < UsesLimit THEN spent[t] + 1 ELSE spent[t]
  BY <1>1, <1>3 DEF CountUse, IndInv, TypeOK, IsStore, IsMap
<1>7. /\ TermsOf(r.byToken[t]) = TermsOf(q.byToken[t])
      /\ r.byToken[t].consumed <=> q.byToken[t].maxUses <= spent'[t]
  BY <1>3, <1>4, <1>5, <1>6, LastUseCloses
<1>8. GrantTerms' = GrantTerms
  BY <1>1, <1>4, <1>5, <1>7 DEF GrantTerms
<1>9. t \in OpenGrants
  BY <1>1, <1>3, <1>4 DEF OpenGrants
<1>10. PICK gone : gone = {x \in OpenGrants : s.byToken[x].consumed}
  OBVIOUS
<1>11. gone \subseteq Closable(at)
  BY <1>1, <1>4, <1>10 DEF OpenGrants, Closable
<1>12. PICK last : last = {x \in {t} : q.byToken[x].maxUses <= spent'[x]}
  OBVIOUS
<1>13. \A x \in DOMAIN q.byToken :
         r.byToken[x].consumed <=> q.byToken[x].consumed \/ x \in gone \/ x \in last
  <2>1. t \notin gone /\ ~q.byToken[t].consumed
    BY <1>3, <1>4, <1>10
  <2>2. r.byToken[t].consumed <=> t \in last
    BY <1>7, <1>12
  <2>3. ASSUME NEW x \in DOMAIN q.byToken, x # t
        PROVE  r.byToken[x].consumed <=> q.byToken[x].consumed \/ x \in gone
    BY <1>1, <1>4, <1>5, <1>10, <2>3 DEF OpenGrants
  <2>4. \A x : x # t => x \notin last
    BY <1>12
  <2>. QED  BY <2>1, <2>2, <2>3, <2>4
<1>14. OpenGrants' = OpenGrants \ (gone \cup last)
  BY <1>1, <1>5, <1>13 DEF OpenGrants
<1>. QED  BY <1>1, <1>6, <1>8, <1>9, <1>11, <1>12, <1>14

\* What GrantVault reads of a grant is what the store reads of it (TermsOf).
LEMMA TermsSame ==
  ASSUME NEW t \in OpenGrants
  PROVE  /\ GrantTerms[t].expiresAt = inner.byToken[t].expiresAt
         /\ GrantTerms[t].scope = inner.byToken[t].scope
         /\ GrantTerms[t].maxUses = inner.byToken[t].maxUses
         /\ \A a : Covers(GrantTerms[t], a) = Covers(inner.byToken[t], a)
<1>1. GrantTerms[t] = TermsOf(inner.byToken[t])
  BY DEF GrantTerms, OpenGrants
<1>2. PICK g, h : g = inner.byToken[t] /\ h = GrantTerms[t]
  OBVIOUS
<1>3. /\ h.scope = g.scope /\ h.action = g.action
      /\ h.expiresAt = g.expiresAt /\ h.maxUses = g.maxUses
  BY <1>1, <1>2 DEF TermsOf
<1>4. \A a : Covers(h, a) = Covers(g, a)
  BY <1>3 DEF Covers
<1>. QED  BY ONLY <1>2, <1>3, <1>4

\* The grants that GrantVault holds to be expired are those a call may close.
LEMMA ExpiredIsClosable ==
  ASSUME NEW r
  PROVE  Vault!Expired(r) = Closable(r.at)
BY TermsSame DEF Vault!Expired, Closable

\* A caller that waits is answered when it leaves the lock.
LEMMA AnsweredStep ==
  ASSUME IndInv, NEW c \in Caller, call[c].pc \in {"authorizing", "redeeming"},
         NEW state, state.pc \notin {"authorizing", "redeeming"}, Become(c, state)
  PROVE  /\ Vault!Answered(c)
         /\ Requests[c].kind = call[c].pc
         /\ Requests[c].action = call[c].action
         /\ Requests[c].at = call[c].at
         /\ call[c].pc = "redeeming" => Requests[c].token = call[c].token
<1>1. PICK x : x = call[c]
  OBVIOUS
<1>2. RequestOf(x) = [ kind |-> x.pc, action |-> x.action, at |-> x.at,
                       token |-> IF x.pc = "redeeming" THEN x.token ELSE NoToken ]
  BY <1>1 DEF RequestOf
<1>3. RequestOf(state) = Vault!None
  BY DEF RequestOf, Vault!None
<1>4. Requests[c] = RequestOf(x)
  BY <1>1 DEF Requests
<1>5. Requests' = [Requests EXCEPT ![c] = Vault!None]
  BY <1>3 DEF Requests, Become, IndInv, TypeOK
<1>6. Requests[c] # Vault!None
  BY <1>1, <1>2, <1>4 DEF Vault!None
<1>7. Vault!Answered(c)
  BY <1>5, <1>6 DEF Vault!Answered
<1>. QED  BY <1>1, <1>2, <1>4, <1>7

\* A call that closes expired grants at most, and allows nothing, is a refusal.
LEMMA RefusedStep ==
  ASSUME IndInv, NEW c \in Caller, call[c].pc \in {"authorizing", "redeeming"},
         NEW state, state.pc \notin {"authorizing", "redeeming"}, Become(c, state),
         ClosesExpired(inner, inner', call[c].at), UNCHANGED <<now, spent>>,
         call[c].pc = "redeeming" =>
           ~(/\ call[c].token \in OpenGrants \ Closable(call[c].at)
             /\ Covers(inner.byToken[call[c].token], call[c].action))
  PROVE  Vault!Refuse(c)
<1>1. PICK r : r = Requests[c]
  OBVIOUS
<1>2. /\ Vault!Answered(c)
      /\ r.kind = call[c].pc /\ r.action = call[c].action /\ r.at = call[c].at
      /\ call[c].pc = "redeeming" => r.token = call[c].token
  BY <1>1, AnsweredStep
<1>3. Vault!Expired(r) = Closable(call[c].at)
  BY <1>2, ExpiredIsClosable
<1>4. /\ GrantTerms' = GrantTerms
      /\ \E gone \in SUBSET Vault!Expired(r) : OpenGrants' = OpenGrants \ gone
  BY <1>3, VaultCloses
<1>5. r.kind = "redeeming" => ~Vault!Allows(r.token, r)
  BY <1>2, <1>3, TermsSame DEF Vault!Allows
<1>. QED  BY <1>1, <1>2, <1>4, <1>5 DEF Vault!Refuse

\* A call that uses one grant of what its lookup left is allowed by that grant.
LEMMA AllowedStep ==
  ASSUME IndInv, NEW c \in Caller, call[c].pc \in {"authorizing", "redeeming"},
         NEW state, state.pc \notin {"authorizing", "redeeming"}, Become(c, state),
         UNCHANGED now,
         NEW s, StoreOk(s), ClosesExpired(inner, s, call[c].at),
         NEW t \in DOMAIN s.byToken, NEW scope,
         Usable(s, t, call[c].action, call[c].at, scope),
         inner'.byToken = Spend(s, t).byToken, CountUse(t),
         call[c].pc = "redeeming" => t = call[c].token,
         call[c].pc = "authorizing" =>
           scope = "ExactAction" \/ SessionApprovalSafe(call[c].action, "Medium")
  PROVE  Vault!Allow(c)
<1>1. PICK r : r = Requests[c]
  OBVIOUS
<1>2. /\ Vault!Answered(c)
      /\ r.kind = call[c].pc /\ r.action = call[c].action /\ r.at = call[c].at
      /\ call[c].pc = "redeeming" => r.token = call[c].token
  BY <1>1, AnsweredStep
<1>3. Vault!Expired(r) = Closable(call[c].at)
  BY <1>2, ExpiredIsClosable
<1>4. ~s.byToken[t].consumed
  BY DEF Usable, Presentable
<1>5. /\ t \in OpenGrants
      /\ GrantTerms' = GrantTerms
      /\ spent' = [spent EXCEPT ![t] = IF @ < UsesLimit THEN @ + 1 ELSE @]
  BY <1>4, VaultUses
<1>6. PICK gone \in SUBSET Closable(call[c].at) :
        OpenGrants' = OpenGrants \ (gone \cup {x \in {t} : inner.byToken[x].maxUses <= spent'[x]})
  BY <1>4, VaultUses
<1>7. PICK g : g = inner.byToken[t]
  OBVIOUS
<1>8. s.byToken[t] = g
  <2>1. g \in Grant
    BY <1>5, <1>7 DEF OpenGrants, IndInv, TypeOK, IsStore, IsMap
  <2>2. s.byToken[t] = g \/ s.byToken[t] = [g EXCEPT !.consumed = TRUE]
    BY <1>5, <1>7 DEF ClosesExpired, OpenGrants
  <2>3. [g EXCEPT !.consumed = TRUE].consumed
    BY <2>1 DEF Grant
  <2>. QED  BY <1>4, <2>2, <2>3
<1>9. /\ t \notin Closable(call[c].at)
      /\ Covers(g, call[c].action)
      /\ g.scope = scope
  <2>1. call[c].at < g.expiresAt /\ Covers(g, call[c].action) /\ g.scope = scope
    BY <1>8 DEF Usable, Presentable
  <2>2. call[c].at \in Nat /\ g.expiresAt \in Nat
    BY <1>5, <1>7, StateShapes DEF OpenGrants, IndInv, TypeOK, IsStore, IsMap, Grant
  <2>3. ~(g.expiresAt <= call[c].at)
    BY <2>1, <2>2
  <2>. QED  BY <1>7, <2>1, <2>3 DEF Closable
<1>10. Vault!Allows(t, r)
  BY <1>2, <1>3, <1>5, <1>7, <1>9, TermsSame DEF Vault!Allows
<1>11. IF r.kind = "redeeming"
         THEN t = r.token
         ELSE GrantTerms[t].scope = "ExactAction" \/ SessionSafe(r.action)
  BY <1>2, <1>5, <1>7, <1>9, TermsSame DEF SessionSafe
<1>12. OpenGrants' = OpenGrants \ (gone \cup {x \in {t} : GrantTerms[x].maxUses <= spent'[x]})
  <2>1. {x \in {t} : GrantTerms[x].maxUses <= spent'[x]}
          = {x \in {t} : inner.byToken[x].maxUses <= spent'[x]}
    BY <1>5, TermsSame
  <2>. QED  BY <1>6, <2>1
<1>13. \E lost \in SUBSET Vault!Expired(r) :
         OpenGrants' = OpenGrants \ (lost \cup {x \in {t} : GrantTerms[x].maxUses <= spent'[x]})
  BY <1>3, <1>12
<1>. QED  BY <1>1, <1>2, <1>5, <1>10, <1>11, <1>13 DEF Vault!Allow

\* What is about to be issued is on terms a grant may have: a grant for a session is of
\* an action that is eligible for one (IssueSession).
IssuesAreLawful ==
  \A c \in Caller : call[c].pc = "issuing" => Vault!Lawful(TermsOf(call[c].grant))

\* A caller that begins to issue does so on lawful terms.
LEMMA BegunLawful ==
  ASSUME IndInv, IssuesAreLawful, NEW c \in Caller,
         NEW scope \in {"ExactAction", "SessionTool"}, NEW a \in Action,
         NEW e, NEW m \in {1, Unlimited}, BeginIssue(c, scope, a, e, m),
         scope = "SessionTool" => m = Unlimited /\ SessionEligible(a)
  PROVE  IssuesAreLawful'
<1>1. PICK g : g = NewGrant(scope, a, e, m)
  OBVIOUS
<1>2. g.scope = scope /\ g.action = a /\ g.maxUses = m
  BY <1>1 DEF NewGrant
<1>3. Vault!Lawful(TermsOf(g))
  BY <1>2 DEF Vault!Lawful, TermsOf
<1>4. PICK state : state = [pc |-> "issuing", token |-> seq + 1, grant |-> g]
  OBVIOUS
<1>5. call' = [call EXCEPT ![c] = state] /\ state.grant = g
  BY <1>1, <1>4 DEF BeginIssue, Become
<1>. QED  BY <1>3, <1>5 DEF IssuesAreLawful, IndInv, TypeOK

\* A caller that does anything else is not about to issue.
LEMMA OthersLawful ==
  ASSUME IndInv, IssuesAreLawful, NEW c \in Caller, NEW state,
         state.pc # "issuing", Become(c, state)
  PROVE  IssuesAreLawful'
BY DEF IssuesAreLawful, Become, IndInv, TypeOK

\* Every step keeps what is about to be issued lawful.
LEMMA NextLawful == IndInv /\ IssuesAreLawful /\ [Next]_vars => IssuesAreLawful'
<1>. SUFFICES ASSUME IndInv, IssuesAreLawful, [Next]_vars PROVE IssuesAreLawful'
  OBVIOUS
<1>1. CASE Tick \/ UNCHANGED vars
  BY <1>1 DEF Tick, vars, IssuesAreLawful
<1>2. ASSUME NEW c \in Caller, Step(c) PROVE IssuesAreLawful'
  <2>1. ASSUME NEW a \in Action, IssueOnce(c, a) \/ IssueSession(c, a) \/ IssueUntil(c, a)
        PROVE  IssuesAreLawful'
    <3>1. CASE IssueOnce(c, a)
      BY <3>1, BegunLawful DEF IssueOnce
    <3>2. CASE IssueSession(c, a)
      <4>1. SessionEligible(a) /\ BeginIssue(c, "SessionTool", a, now + SessionTtl, Unlimited)
        BY <3>2 DEF IssueSession, SessionEligible
      <4>. QED  BY <4>1, BegunLawful
    <3>3. CASE IssueUntil(c, a)
      <4>1. PICK e : BeginIssue(c, "ExactAction", a, e, Unlimited)
        BY <3>3 DEF IssueUntil
      <4>. QED  BY <4>1, BegunLawful
    <3>. QED  BY <2>1, <3>1, <3>2, <3>3
  <2>2. ASSUME ~\E a \in Action : IssueOnce(c, a) \/ IssueSession(c, a) \/ IssueUntil(c, a)
        PROVE  \E state : state.pc # "issuing" /\ Become(c, state)
    <3>1. CASE \E a \in Action : BeginAuthorize(c, a)
      BY <3>1 DEF BeginAuthorize
    <3>2. CASE \E a \in Action, t \in Token \cup {NoToken} : BeginRedeem(c, t, a)
      BY <3>2 DEF BeginRedeem
    <3>3. CASE AuthorizeExact(c) \/ AuthorizeSession(c)
      BY <3>3 DEF AuthorizeExact, AuthorizeSession, Authorized
    <3>4. CASE Become(c, Idle)
      BY <3>4, IdleState
    <3>5. CASE RecordDecision(c)
      BY <3>5 DEF RecordDecision
    <3>6. CommitIssue(c) \/ AuthorizeNone(c) \/ RedeemOk(c) \/ RedeemErr(c) \/ Record(c)
            => Become(c, Idle)
      BY DEF CommitIssue, AuthorizeNone, RedeemOk, RedeemErr, Record
    <3>. QED  BY <1>2, <2>2, <3>1, <3>2, <3>3, <3>4, <3>5, <3>6 DEF Step
  <2>. QED  BY <2>1, <2>2, OthersLawful
<1>. QED  BY <1>1, <1>2 DEF Next

\* A step that touches no grant, and no caller that waits, is no step of GrantVault.
LEMMA UnseenStep ==
  ASSUME IndInv, NEW c \in Caller, call[c].pc \notin {"authorizing", "redeeming"},
         NEW state, state.pc \notin {"authorizing", "redeeming"}, Become(c, state),
         inner'.byToken = inner.byToken, UNCHANGED <<now, spent>>
  PROVE  UNCHANGED Vault!vars
<1>1. GrantTerms' = GrantTerms /\ OpenGrants' = OpenGrants
  BY DEF GrantTerms, OpenGrants
<1>2. RequestOf(state) = RequestOf(call[c])
  BY DEF RequestOf
<1>3. Requests' = Requests
  BY <1>2 DEF Requests, Become, IndInv, TypeOK
<1>. QED  BY <1>1, <1>3 DEF Vault!vars

\* A caller that samples the clock asks.
LEMMA AskStep ==
  ASSUME IndInv, NEW c \in Caller, call[c] = Idle, NEW a \in Action,
         NEW kind \in {"authorizing", "redeeming"}, NEW t \in Token \cup {NoToken},
         NEW state, Become(c, state), state.pc = kind, state.action = a, state.at = now,
         kind = "redeeming" => state.token = t,
         UNCHANGED <<now, inner, spent>>
  PROVE  Vault!Ask(c)
<1>1. PICK r : r = RequestOf(state)
  OBVIOUS
<1>2. r = [ kind |-> kind, action |-> a, at |-> now,
            token |-> IF kind = "redeeming" THEN t ELSE NoToken ]
  BY <1>1 DEF RequestOf
<1>3. r \in [ kind : {"authorizing", "redeeming"}, token : Token \cup {NoToken},
              action : Action, at : {now} ]
  BY <1>2
<1>4. Requests[c] = Vault!None
  BY DEF Requests, RequestOf, Idle, Vault!None
<1>5. Requests' = [Requests EXCEPT ![c] = r] /\ Requests'[c] = r
  BY <1>1 DEF Requests, Become, IndInv, TypeOK
<1>6. GrantTerms' = GrantTerms /\ OpenGrants' = OpenGrants
  BY DEF GrantTerms, OpenGrants
<1>. QED  BY <1>3, <1>4, <1>5, <1>6 DEF Vault!Ask

\* The insertion under the lock issues the grant.
LEMMA IssueStep ==
  ASSUME IndInv, IssuesAreLawful, NEW c \in Caller, CommitIssue(c)
  PROVE  \E t \in Token : Vault!Issue(t)
<1>1. PICK t, g : t = call[c].token /\ g = call[c].grant
  OBVIOUS
<1>2. call[c].pc = "issuing" /\ inner' = Insert(inner, t, g) /\ Become(c, Idle)
      /\ UNCHANGED <<now, spent>>
  BY <1>1 DEF CommitIssue
<1>3. t \in Token /\ g \in Grant
  BY <1>1, <1>2, StateShapes DEF IndInv, TypeOK
<1>4. t \notin DOMAIN inner.byToken /\ ~g.consumed
  BY <1>1, <1>2 DEF IndInv, IssuesAreFresh
<1>5. StoreOk(inner)
  BY DEF IndInv, TypeOK, IndexesLive, StoreOk
<1>6. /\ DOMAIN inner'.byToken = DOMAIN inner.byToken \cup {t}
      /\ inner'.byToken[t] = g
      /\ \A x \in DOMAIN inner.byToken : inner'.byToken[x] = inner.byToken[x]
  BY <1>2, <1>3, <1>4, <1>5, InsertOk
<1>7. /\ DOMAIN GrantTerms = DOMAIN inner.byToken
      /\ DOMAIN GrantTerms' = DOMAIN inner.byToken \cup {t}
      /\ GrantTerms'[t] = TermsOf(g)
      /\ \A x \in DOMAIN GrantTerms : GrantTerms'[x] = GrantTerms[x]
  BY <1>6 DEF GrantTerms
<1>8. OpenGrants' = OpenGrants \cup {t}
  BY <1>4, <1>6 DEF OpenGrants
<1>9. Requests' = Requests
  <2>1. RequestOf(Idle) = RequestOf(call[c])
    BY <1>2, IdleState DEF RequestOf
  <2>. QED  BY <1>2, <2>1 DEF Requests, Become, IndInv, TypeOK
<1>10. Vault!Lawful(TermsOf(g))
  BY <1>1, <1>2 DEF IssuesAreLawful
<1>11. spent[t] = 0
  BY <1>3, <1>4 DEF IndInv, UsesAreCounted
<1>12. Vault!Issue(t)
  BY <1>2, <1>4, <1>7, <1>8, <1>9, <1>10, <1>11 DEF Vault!Issue
<1>. QED  BY <1>3, <1>12

\* authorize is answered by GrantVault, whichever index it finds the grant in.
LEMMA AuthorizeAnswered ==
  ASSUME IndInv, NEW c \in Caller,
         AuthorizeExact(c) \/ AuthorizeSession(c) \/ AuthorizeNone(c)
  PROVE  Vault!Allow(c) \/ Vault!Refuse(c)
<1>1. PICK a, at : a = call[c].action /\ at = call[c].at
  OBVIOUS
<1>2. call[c].pc = "authorizing"
  BY DEF AuthorizeExact, AuthorizeSession, AuthorizeNone
<1>3. at \in Nat /\ StoreOk(inner)
  BY <1>1, <1>2, StateShapes DEF IndInv, TypeOK, IndexesLive, StoreOk
<1>4. PICK missed : missed = AfterExactMiss(inner, a, at)
  OBVIOUS
<1>5. StoreOk(missed) /\ ClosesExpired(inner, missed, at)
  BY <1>3, <1>4, ExactMissOk, ExactMissCloses
<1>6. CASE AuthorizeExact(c)
  <2>1. PICK t \in ExactHit(inner, a, at) : Authorized(c, t, inner)
    BY <1>1, <1>6 DEF AuthorizeExact
  <2>2. Usable(inner, t, a, at, "ExactAction") /\ t \in DOMAIN inner.byToken
    BY <2>1, HitUsable DEF Usable, Presentable
  <2>3. ClosesExpired(inner, inner, at)
    BY ClosesNothing
  <2>4. PICK state : state = [pc |-> "recording", event |-> "GrantConsumed", token |-> t]
    OBVIOUS
  <2>5. /\ inner'.byToken = Spend(inner, t).byToken /\ CountUse(t) /\ UNCHANGED now
        /\ Become(c, state) /\ state.pc \notin {"authorizing", "redeeming"}
    BY <2>1, <2>4 DEF Authorized
  <2>. QED  BY <1>1, <1>2, <1>3, <2>2, <2>3, <2>5, AllowedStep
<1>7. CASE AuthorizeSession(c)
  <2>1. PICK t \in SessionHit(missed, a, at) : Authorized(c, t, missed)
    BY <1>1, <1>4, <1>7 DEF AuthorizeSession
  <2>2. /\ Usable(missed, t, a, at, "SessionTool") /\ t \in DOMAIN missed.byToken
        /\ SessionApprovalSafe(a, "Medium")
    BY <2>1, HitUsable DEF Usable, Presentable
  <2>3. PICK state : state = [pc |-> "recording", event |-> "GrantConsumed", token |-> t]
    OBVIOUS
  <2>4. /\ inner'.byToken = Spend(missed, t).byToken /\ CountUse(t) /\ UNCHANGED now
        /\ Become(c, state) /\ state.pc \notin {"authorizing", "redeeming"}
    BY <2>1, <2>3 DEF Authorized
  <2>. QED  BY <1>1, <1>2, <1>5, <2>2, <2>4, AllowedStep
<1>8. CASE AuthorizeNone(c)
  <2>1. /\ inner' = AfterSessionMiss(missed, a, at) /\ Become(c, Idle) /\ UNCHANGED <<now, spent>>
    BY <1>1, <1>4, <1>8 DEF AuthorizeNone
  <2>2. ClosesExpired(inner, inner', at)
    BY <1>3, <1>5, <2>1, SessionMissCloses, ClosesAgain
  <2>3. Idle.pc \notin {"authorizing", "redeeming"}
    BY IdleState
  <2>. QED  BY <1>1, <1>2, <2>1, <2>2, <2>3, RefusedStep
<1>. QED  BY <1>6, <1>7, <1>8

\* redeem is answered by GrantVault: allowed by the grant it names, or refused because
\* that grant is not good for it.
LEMMA RedeemAnswered ==
  ASSUME IndInv, NEW c \in Caller, RedeemOk(c) \/ RedeemErr(c)
  PROVE  Vault!Allow(c) \/ Vault!Refuse(c)
<1>1. PICK t, a, at : t = call[c].token /\ a = call[c].action /\ at = call[c].at
  OBVIOUS
<1>2. /\ call[c].pc = "redeeming" /\ Become(c, Idle)
      /\ Idle.pc \notin {"authorizing", "redeeming"}
  BY IdleState DEF RedeemOk, RedeemErr
<1>3. at \in Nat /\ t \in Token \cup {NoToken} /\ StoreOk(inner)
  BY <1>1, <1>2, StateShapes DEF IndInv, TypeOK, IndexesLive, StoreOk
<1>4. ClosesExpired(inner, inner, at)
  BY ClosesNothing
<1>5. CASE RedeemOk(c)
  <2>1. /\ Redeemable(t, a, at) /\ CountUse(t) /\ UNCHANGED now
        /\ inner' = PushHistory(Spend(inner, t), Entry("GrantConsumed", t))
    BY <1>1, <1>5 DEF RedeemOk
  <2>2. PICK scope : Usable(inner, t, a, at, scope) /\ t \in DOMAIN inner.byToken
    BY <2>1 DEF Redeemable
  <2>3. ~inner.byToken[t].consumed
    BY <2>2 DEF Usable, Presentable
  <2>4. StoreOk(Spend(inner, t))
    BY <1>3, <2>2, <2>3, SpendOk
  <2>5. Entry("GrantConsumed", t) \in AuditEntry
    BY <1>3 DEF Entry, AuditEntry, Event
  <2>6. inner'.byToken = Spend(inner, t).byToken
    BY <2>1, <2>4, <2>5, PushHistoryFrame DEF StoreOk
  <2>. QED  BY <1>1, <1>2, <1>3, <1>4, <2>1, <2>2, <2>6, AllowedStep
<1>6. CASE RedeemErr(c)
  <2>1. /\ ~Redeemable(t, a, at) /\ UNCHANGED <<now, spent>>
        /\ inner' = IF t \in DOMAIN inner.byToken
                      THEN NoteReject(Refuse(inner, t, at, inner.byToken[t].scope), t)
                      ELSE NoteReject(inner, NoToken)
    BY <1>1, <1>6 DEF RedeemErr
  <2>2. ClosesExpired(inner, inner', at)
    <3>1. CASE t \in DOMAIN inner.byToken
      <4>1. PICK scope : scope = inner.byToken[t].scope
        OBVIOUS
      <4>2. inner' = NoteReject(Refuse(inner, t, at, scope), t)
        BY <2>1, <3>1, <4>1
      <4>3. /\ StoreOk(Refuse(inner, t, at, scope))
            /\ ClosesExpired(inner, Refuse(inner, t, at, scope), at)
        BY <1>3, <3>1, RefusalRetires, RefuseCloses
      <4>. QED  BY <1>3, <3>1, <4>2, <4>3, NoteCloses
    <3>2. CASE t \notin DOMAIN inner.byToken
      BY <1>3, <1>4, <2>1, <3>2, NoteCloses
    <3>. QED  BY <3>1, <3>2
  <2>3. ~(t \in OpenGrants \ Closable(at) /\ Covers(inner.byToken[t], a))
    <3>. SUFFICES ASSUME t \in OpenGrants, t \notin Closable(at), Covers(inner.byToken[t], a)
                  PROVE  FALSE
      OBVIOUS
    <3>1. t \in DOMAIN inner.byToken /\ ~inner.byToken[t].consumed /\ inner.byToken[t] \in Grant
      BY <1>3 DEF OpenGrants, StoreOk, IsStore, IsMap
    <3>2. ~(inner.byToken[t].expiresAt <= at)
      BY <3>1 DEF Closable
    <3>3. at < inner.byToken[t].expiresAt
      BY <1>3, <3>1, <3>2 DEF Grant
    <3>. QED  BY <2>1, <3>1, <3>3 DEF Redeemable, Usable, Presentable
  <2>. QED  BY <1>1, <1>2, <2>1, <2>2, <2>3, RefusedStep
<1>. QED  BY <1>5, <1>6

\* Every step of the store is a step of GrantVault or none.
LEMMA StepImplements ==
  ASSUME IndInv, IssuesAreLawful, [Next]_vars
  PROVE  [Vault!Next]_Vault!vars
<1>1. CASE Tick
  <2>1. now' = now + 1 /\ UNCHANGED <<GrantTerms, OpenGrants, spent, Requests>>
    BY <1>1 DEF Tick, GrantTerms, OpenGrants, Requests
  <2>. QED  BY <2>1 DEF Vault!Next, Vault!Tick
<1>2. CASE UNCHANGED vars
  <2>1. UNCHANGED <<now, GrantTerms, OpenGrants, spent, Requests>>
    BY <1>2 DEF vars, GrantTerms, OpenGrants, Requests
  <2>. QED  BY <2>1 DEF Vault!vars
<1>3. ASSUME NEW c \in Caller, Step(c) PROVE [Vault!Next]_Vault!vars
  <2>1. ASSUME NEW a \in Action, NEW scope, NEW e, NEW m, BeginIssue(c, scope, a, e, m)
        PROVE  UNCHANGED Vault!vars
    <3>1. PICK state :
            /\ Become(c, state) /\ state.pc = "issuing"
            /\ call[c].pc = "idle" /\ UNCHANGED <<now, inner, spent>>
      BY <2>1, IdleState DEF BeginIssue
    <3>. QED  BY <3>1, UnseenStep
  <2>2. ASSUME NEW a \in Action, IssueOnce(c, a) \/ IssueSession(c, a) \/ IssueUntil(c, a)
        PROVE  UNCHANGED Vault!vars
    BY <2>1, <2>2 DEF IssueOnce, IssueSession, IssueUntil
  <2>3. ASSUME NEW a \in Action, BeginAuthorize(c, a) PROVE Vault!Ask(c)
    <3>1. PICK state : state = [pc |-> "authorizing", action |-> a, at |-> now]
      OBVIOUS
    <3>2. call[c] = Idle /\ Become(c, state) /\ UNCHANGED <<now, inner, spent>>
      BY <2>3, <3>1 DEF BeginAuthorize
    <3>3. state.pc = "authorizing" /\ state.action = a /\ state.at = now
      BY <3>1
    <3>. QED  BY <3>2, <3>3, AskStep
  <2>4. ASSUME NEW a \in Action, NEW t \in Token \cup {NoToken}, BeginRedeem(c, t, a)
        PROVE  Vault!Ask(c)
    <3>1. PICK state : state = [pc |-> "redeeming", token |-> t, action |-> a, at |-> now]
      OBVIOUS
    <3>2. call[c] = Idle /\ Become(c, state) /\ UNCHANGED <<now, inner, spent>>
      BY <2>4, <3>1 DEF BeginRedeem
    <3>3. state.pc = "redeeming" /\ state.action = a /\ state.at = now /\ state.token = t
      BY <3>1
    <3>. QED  BY <3>2, <3>3, AskStep
  <2>5. CASE RecordDecision(c)
    <3>1. PICK state :
            /\ Become(c, state) /\ state.pc = "recording"
            /\ call[c].pc = "idle" /\ UNCHANGED <<now, inner, spent>>
      BY <2>5, IdleState DEF RecordDecision
    <3>. QED  BY <3>1, UnseenStep
  <2>6. CASE Record(c)
    <3>1. StoreOk(inner) /\ Entry(call[c].event, call[c].token) \in AuditEntry
      BY <2>6, StateShapes DEF Record, IndInv, TypeOK, IndexesLive, StoreOk, Entry, AuditEntry
    <3>2. inner'.byToken = inner.byToken
      BY <2>6, <3>1, PushHistoryFrame DEF Record, StoreOk
    <3>3. Become(c, Idle) /\ call[c].pc = "recording" /\ UNCHANGED <<now, spent>>
      BY <2>6 DEF Record
    <3>. QED  BY <3>2, <3>3, IdleState, UnseenStep
  <2>7. CASE CommitIssue(c)
    BY <2>7, IssueStep DEF Vault!Next
  <2>8. CASE AuthorizeExact(c) \/ AuthorizeSession(c) \/ AuthorizeNone(c)
    BY <2>8, AuthorizeAnswered DEF Vault!Next
  <2>9. CASE RedeemOk(c) \/ RedeemErr(c)
    BY <2>9, RedeemAnswered DEF Vault!Next
  <2>10. Vault!Ask(c) => Vault!Next
    BY DEF Vault!Next
  <2>. QED  BY <1>3, <2>2, <2>3, <2>4, <2>5, <2>6, <2>7, <2>8, <2>9, <2>10 DEF Step
<1>. QED  BY <1>1, <1>2, <1>3 DEF Next

\* The store implements the vault it promises (VaultImplemented): over any interleaving
\* of any number of callers, a grant is closed by its last use or by a call made after
\* its expiry and by nothing else, stays closed, and redeem is refused only when the
\* grant it names is closed, expired or of another action.
THEOREM ImplementsVault == Spec => VaultImplemented
<1>1. Init => Vault!Init
  <2>. SUFFICES ASSUME Init PROVE Vault!Init
    OBVIOUS
  <2>1. DOMAIN inner.byToken = {}
    BY DEF Init, EmptyStore, NoEntries
  <2>2. GrantTerms = [t \in {} |-> Vault!None] /\ OpenGrants = {}
    BY <2>1 DEF GrantTerms, OpenGrants
  <2>3. Requests = [c \in Caller |-> Vault!None]
    BY DEF Init, Idle, Requests, RequestOf, Vault!None
  <2>. QED  BY <2>2, <2>3 DEF Init, Vault!Init
<1>2. Init => IssuesAreLawful
  BY DEF Init, Idle, IssuesAreLawful
<1>. QED
  BY <1>1, <1>2, InductiveInvariant, NextLawful, StepImplements, PTL
     DEF Spec, VaultImplemented, Vault!Spec

=============================================================================
