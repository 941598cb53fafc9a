--------------------------- MODULE MCHttpFirewall ---------------------------
(* Instances of HttpFirewall for model checking. *)
EXTENDS HttpFirewall

\* Texts are up to three of these: a card number of 13 digits, a digit that may join it,
\* separators, a social security number, a secret and a database scheme.
MCCard == <<"4", "2", "2", "2", "2", "2", "2", "2", "2", "2", "2", "2", "2">>
MCSsn == <<"1", "2", "3", "-", "4", "5", "-", "6", "7", "8", "9">>
MCChunk ==
  {MCCard, MCSsn, <<"7">>, <<" ">>, <<"-">>, <<".", "aws", ".">>, <<"db://">>}

MCText ==
  {FlattenSeq(chunks) : chunks \in UNION {[1 .. n -> MCChunk] : n \in 1 .. 3}}

Leaf(text) == [key |-> "k", string |-> TRUE, text |-> text]
Body(leaves) == [utf8 |-> TRUE, json |-> TRUE, leaves |-> leaves]
Plain == <<Leaf(<<"a">>)>>

MCRequests ==
  {[chat |-> FALSE, stream |-> FALSE, body |-> Body(<<Leaf(text)>>)] : text \in MCText}
    \cup [chat : {TRUE}, stream : BOOLEAN,
          body : {Body(<<Leaf(<<"a">>), Leaf(MCCard), [Leaf(MCSsn) EXCEPT !.string = FALSE]>>),
                  [Body(<<Leaf(MCSsn \o <<"aws">>)>>) EXCEPT !.json = FALSE],
                  [Body(Plain) EXCEPT !.utf8 = FALSE, !.json = FALSE]}]

Call(id, tool, arguments) ==
  [id |-> id, tool |-> tool, wellFormed |-> TRUE, arguments |-> arguments]
Malformed(id) == [Call(id, "read", << >>) EXCEPT !.wellFormed = FALSE]
Choice(content, calls) == [content |-> content, asks |-> TRUE, tool_calls |-> calls]

MCChoices ==
  { << >>,
    <<[content |-> <<"a", ".", "aws">>, asks |-> FALSE, tool_calls |-> << >>]>>,
    <<Choice(<< >>, << >>)>>,
    <<Choice(<< >>, <<Call(1, "read", MCCard), Call(2, "send", <<".", "aws", ".">>)>>)>>,
    <<Choice(<<"a">>, <<Malformed(1), Call(2, "read", <<"a">>), Call(3, "send", <<"a">>)>>),
      Choice(<< >>, <<Call(4, "send", <<"a">>), Malformed(5), Call(6, "read", <<"a">>)>>)>> }

MCResponses ==
  {[success |-> TRUE, body |-> Body(Plain), lists |-> TRUE, choices |-> choices] : choices \in MCChoices}
    \cup [success : BOOLEAN, lists : {FALSE}, choices : {<< >>},
          body : {Body(<<Leaf(MCSsn \o <<".">> \o MCCard)>>),
                  [Body(<<Leaf(<<".", "aws">>)>>) EXCEPT !.json = FALSE]}]

MCPolicies == {{"read"}, {"send"}}
MCFeeds == {{}, {"read"}}
=============================================================================
