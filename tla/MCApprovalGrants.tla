-------------------------- MODULE MCApprovalGrants --------------------------
(* Small instances of ApprovalGrants. *)
EXTENDS ApprovalGrants, TLC

Read(args, level) ==
  [ tool |-> "read", args |-> args, target |-> "file", agent |-> "cursor",
    bound |-> "", trust |-> "local", device |-> "d1", org |-> "o1",
    session |-> "s1", env |-> "dev", traits |-> {}, resources |-> {"File"},
    category |-> "Read", level |-> level ]

MCPlain == Read("a", "Medium")
\* Same tool and session as the plain reads, but of a secret: never session-safe.
MCSecret == [Read("env", "High") EXCEPT !.resources = {"Secret"}]

MCAction == {MCPlain, MCSecret}

MCSymmetry == Permutations(Caller)
=============================================================================
