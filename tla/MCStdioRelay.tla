---------------------------- MODULE MCStdioRelay ----------------------------
(* Instances of StdioRelay for model checking. *)
EXTENDS StdioRelay

MCCall ==
  [ shape |-> "object", version |-> "2.0", method |-> "tools/call", id |-> "1",
    result |-> FALSE, params |-> "given", framed |-> TRUE ]

\* A call, one that is followed by more text, one that cannot be decoded, one without
\* an id; another request; a response; a wrong version; a line that is no object.
MCClientFrame ==
  { MCCall, [MCCall EXCEPT !.framed = FALSE], [MCCall EXCEPT !.params = "unreadable"],
    [MCCall EXCEPT !.id = NoId], [MCCall EXCEPT !.method = "ping", !.params = "none"],
    [MCCall EXCEPT !.method = "none", !.result = TRUE, !.params = "none"],
    [MCCall EXCEPT !.version = "1.0"], [MCCall EXCEPT !.shape = "broken"] }

Leaf(key, text) == [key |-> key, string |-> TRUE, text |-> text]

MCServerBody ==
  { [ utf8 |-> TRUE, json |-> TRUE,
      leaves |-> <<Leaf("token", <<"a">>), Leaf("text", <<".", "aws", ".">>)>> ],
    [utf8 |-> TRUE, json |-> FALSE, leaves |-> <<Leaf("text", <<".", "jwt">>)>>] }

MCOneBody == {[utf8 |-> TRUE, json |-> TRUE, leaves |-> <<Leaf("text", <<"a">>)>>]}
MCRedactKeys == {{}, {"token"}}
=============================================================================
