----------------------------- MODULE GrantVault -----------------------------
(***************************************************************************)
(* What the approval grant store promises its callers, whatever indexes,   *)
(* locks and audit ring it keeps the promise with.                         *)
(*                                                                         *)
(* A grant is issued once, on terms that never change, and is open until   *)
(* it is used up or found expired: nothing else closes it, and nothing     *)
(* opens it again.  A call is dated when it is made.  It is allowed by one *)
(* open grant that covers what it asks and outlives that date; a call that *)
(* names its grant is refused only when that grant would not allow it.     *)
(***************************************************************************)
EXTENDS Integers

CONSTANTS
  Caller, Action,
  Token,               \* the names of grants
  NoToken,             \* what a caller may present that names no grant
  UsesLimit,           \* where uses are counted no further
  Unlimited,           \* the number of uses of a grant without a limit
  Covers(_, _),        \* whether terms cover an action
  SessionEligible(_),  \* whether an action may be granted for a session
  SessionSafe(_)       \* whether an action may ride on such a grant unnamed

VARIABLES
  now,      \* the clock
  terms,    \* of the grants that were issued
  open,     \* the grants that still allow
  uses,     \* how many calls each grant has allowed
  request   \* what each caller waits for

vars == <<now, terms, open, uses, request>>

None == [kind |-> "none"]

Init ==
  /\ now = 0
  /\ terms = [t \in {} |-> None]
  /\ open = {}
  /\ uses = [t \in Token |-> 0]
  /\ request = [c \in Caller |-> None]

Tick == now' = now + 1 /\ UNCHANGED <<terms, open, uses, request>>

Lawful(g) ==
  /\ g.scope \in {"ExactAction", "SessionTool"}
  /\ g.action \in Action
  /\ g.maxUses \in {1, Unlimited}
  /\ g.scope = "SessionTool" => g.maxUses = Unlimited /\ SessionEligible(g.action)

\* A grant enters under a name nobody held, with all its uses ahead of it.
Issue(t) ==
  /\ t \notin DOMAIN terms
  /\ DOMAIN terms' = DOMAIN terms \cup {t}
  /\ \A x \in DOMAIN terms : terms'[x] = terms[x]
  /\ Lawful(terms'[t])
  /\ uses[t] = 0
  /\ open' = open \cup {t}
  /\ UNCHANGED <<now, uses, request>>

Ask(c) ==
  /\ request[c] = None
  /\ request'[c] \in [ kind : {"authorizing", "redeeming"}, token : Token \cup {NoToken},
                       action : Action, at : {now} ]
  /\ request' = [request EXCEPT ![c] = request'[c]]
  /\ UNCHANGED <<now, terms, open, uses>>

Answered(c) ==
  /\ request[c] # None
  /\ request' = [request EXCEPT ![c] = None]

Expired(r) == {t \in open : terms[t].expiresAt <= r.at}

Allows(t, r) ==
  /\ t \in open \ Expired(r)
  /\ Covers(terms[t], r.action)

\* Found through an index or named by its token, one grant is used, and closed by its
\* last use; grants that had expired may be closed on the way.
Allow(c) ==
  /\ Answered(c)
  /\ UNCHANGED <<now, terms>>
  /\ LET r == request[c]
     IN  \E t \in open :
           /\ Allows(t, r)
           /\ IF r.kind = "redeeming"
                THEN t = r.token
                ELSE terms[t].scope = "ExactAction" \/ SessionSafe(r.action)
           /\ uses' = [uses EXCEPT ![t] = IF @ < UsesLimit THEN @ + 1 ELSE @]
           /\ \E gone \in SUBSET Expired(r) :
                open' = open \ (gone \cup {x \in {t} : terms[x].maxUses <= uses'[x]})

Refuse(c) ==
  /\ Answered(c)
  /\ UNCHANGED <<now, terms, uses>>
  /\ LET r == request[c]
     IN  /\ r.kind = "redeeming" => ~Allows(r.token, r)
         /\ \E gone \in SUBSET Expired(r) : open' = open \ gone

Next ==
  \/ Tick
  \/ \E t \in Token : Issue(t)
  \/ \E c \in Caller : Ask(c) \/ Allow(c) \/ Refuse(c)

Spec == Init /\ [][Next]_vars
=============================================================================
