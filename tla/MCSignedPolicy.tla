--------------------------- MODULE MCSignedPolicy ---------------------------
(* An instance of SignedPolicy for model checking. *)
EXTENDS SignedPolicy

\* acme and beta have files of their own; the names of beta and of a third
\* organization, "be ta", are sanitized to the same file.
MCOrg == {"acme", "b_a", "b a"}
MCAcceptanceFile == [o \in MCOrg \cup {NoOrg} |->
  CASE o = "acme" -> "policy-acceptance-acme"
    [] o \in {"b_a", "b a"} -> "policy-acceptance-b_a"
    [] OTHER -> "policy-acceptance"]

MCFleet == {{"acme", "b_a"}, {"b_a", "b a"}, {NoOrg, "acme"}}

\* lax and laxer differ in a field the digest does not cover.
MCBody == {"strict", "lax", "laxer", "broken"}
MCDigest == {"dStrict", "dLax", "dBroken"}
MCWireDigest ==
  [b \in MCBody |-> CASE b = "strict" -> "dStrict" [] b = "broken" -> "dBroken" [] OTHER -> "dLax"]

MCPinnedKey ==
  [ k \in PinnedKeyId \cup {TestKeyId} |->
      CASE k = "sqreen-policy-ed25519-1" -> "primary"
        [] k = "sqreen-policy-ed25519-2" -> "secondary"
        [] OTHER -> "test" ]

MCNoExtra == <<>>
MCKeySettings ==
  { [allowTest |-> FALSE, production |-> TRUE, extra |-> [k \in {"fleet-key"} |-> "extra"]],
    [allowTest |-> TRUE, production |-> TRUE,
     extra |-> [k \in {"sqreen-policy-ed25519-1"} |-> "extra"]],
    [allowTest |-> TRUE, production |-> FALSE, extra |-> MCNoExtra] }

Draft(o, r, b) ==
  [ schema |-> 1, key_id |-> "sqreen-policy-ed25519-1", org |-> o, revision |-> r,
    not_before |-> 0, expires_at |-> 9, digest |-> WireDigest[b], body |-> b,
    signature |-> [form |-> "missing"] ]

SignWith(env, kid, key) ==
  LET named == [env EXCEPT !.key_id = kid]
  IN  [named EXCEPT !.signature =
         [form |-> "signed", by |-> key, over |-> signing_payload(named)]]

Genuine(o, r, b) ==
  SignWith(Draft(o, r, b), "sqreen-policy-ed25519-1", "primary")

\* What circulates: successive revisions of two organizations, and one of each way
\* an envelope can be wrong.
MCEnvelope ==
  { Genuine("acme", 0, "lax"), Genuine("acme", 1, "strict"), Genuine("acme", 2, "strict"),
    Genuine("acme", 2, "lax"), Genuine("b_a", 1, "lax"), Genuine("b a", 2, "lax"),
    Genuine("acme", 2, "broken"),
    SignWith([Draft("acme", 3, "strict") EXCEPT !.not_before = 2, !.expires_at = 2],
             "sqreen-policy-ed25519-2", "secondary"),
    SignWith(Draft("acme", 1, "lax"), TestKeyId, "test"),
    SignWith(Draft("acme", 1, "lax"), "fleet-key", "extra"),
    SignWith(Draft("acme", 1, "lax"), "sqreen-policy-ed25519-1", "extra"),
    [Genuine("acme", 1, "strict") EXCEPT !.body = "lax"],
    [Genuine("acme", 1, "lax") EXCEPT !.body = "laxer"],
    [Genuine("acme", 1, "strict") EXCEPT !.revision = 3],
    [Genuine("acme", 1, "strict") EXCEPT !.schema = 2],
    [Genuine("acme", 1, "strict") EXCEPT !.signature = [form |-> "malformed"]],
    Draft("acme", 1, "strict") }
=============================================================================
