--------------------------- MODULE MCPolicyStore ---------------------------
(* Instances of PolicyStore for model checking. *)
EXTENDS PolicyStore

CONSTANTS good, bad

MCDoc == {good, bad}
MCBroken == {bad}

Deployment(attached, signed) ==
  [attached |-> attached, requireSigned |-> signed, pathMentionsYaml |-> TRUE]

MCDeployments == {Deployment(TRUE, TRUE), Deployment(TRUE, FALSE), Deployment(FALSE, TRUE)}
=============================================================================
