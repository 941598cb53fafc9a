----------------------------- MODULE StdioRelay -----------------------------
(***************************************************************************)
(* The stdio wrapper (main.rs with peeker.rs): two tasks between an MCP    *)
(* client and the server process the wrapper started.  One reads the       *)
(* client's frames, judges the tool calls among them and passes frames to  *)
(* the server or answers them itself; the other sanitizes the server's     *)
(* frames and passes them to the client.                                   *)
(*                                                                         *)
(* Both tasks write to the client, each through a handle of its own, and   *)
(* each writes a frame and its delimiter in two steps.  The gateway        *)
(* (Gateway) is one step here that may answer anything and need not ever   *)
(* be taken: an approval without a deadline may stay open.                 *)
(*                                                                         *)
(* External: the client, which sends what it likes and closes its end; and *)
(* the server process, which answers the requests it reads, speaks up on   *)
(* its own, exits when its input ends and may die before.                  *)
(***************************************************************************)
EXTENDS DlpScanner, FailurePolicy, FiniteSets

CONSTANTS
  ClientFrame,  \* what the client sends: see peek_envelope
  ServerBody,   \* what the server's frames hold
  RedactKeys,   \* the policies' redact_keys
  Modes,        \* the modes Normalization may be set to
  MaxClient,    \* bound: frames of the client
  MaxServer     \* bound: frames of the server

ASSUME SetsAssumption == Modes \subseteq FailureMode /\ MaxClient \in Nat /\ MaxServer \in Nat

\* What the peeker tells apart of a frame: see Envelopes below.
ASSUME FrameAssumption ==
  ClientFrame \subseteq
    [ shape : {"object", "blank", "broken"}, version : STRING, method : STRING,
      id : STRING, result : BOOLEAN, params : STRING, framed : BOOLEAN ]

VARIABLES
  mode,        \* the failure mode of Normalization
  keys,        \* redact_keys of the policy in force
  sent,        \* the frames the client has sent
  clientOpen,  \* whether the client's end is open
  c,           \* relay_client_to_server
  s,           \* relay_server_to_client
  relayed,     \* the lines written to the server
  serverOpen,  \* whether the server's input is open
  server,      \* the server process: what it runs as, how many lines it has read
  emitted,     \* the frames the server has written
  stdout,      \* what was written to the client, frames and delimiters
  ended        \* run_stdio_mode has returned

clientSide == <<c, relayed, serverOpen>>
serverSide == <<server, emitted>>
vars == <<mode, keys, sent, clientOpen, clientSide, s, serverSide, stdout, ended>>

NoId == "none"
Null == "null"
NEWLINE == [kind |-> "newline"]

Init ==
  /\ mode \in Modes
  /\ keys \in RedactKeys
  /\ sent = << >> /\ clientOpen = TRUE
  /\ c = [pc |-> "read", n |-> 0, params |-> "none", verdicts |-> << >>]
  /\ s = [pc |-> "read", n |-> 0]
  /\ relayed = << >> /\ serverOpen = TRUE
  /\ server = [up |-> TRUE, read |-> 0]
  /\ emitted = << >> /\ stdout = << >>
  /\ ended = FALSE

-----------------------------------------------------------------------------
(* Envelopes.  A frame of the client is                                    *)
(*   shape    "object", "blank" for nothing but white space, "broken"      *)
(*            for what is no JSON object;                                  *)
(*   version, method, id, result, params                                   *)
(*            the members the peeker looks at, "none" where one is missing;*)
(*   framed   whether the line is that object and no more.                 *)

\* classify_fields
classify_fields(f) ==
  CASE f.version = "none" /\ f.method = "none" /\ ~f.result -> "unknown"
    [] (f.method # "none" \/ f.result) /\ f.version # "2.0" -> "error"
    [] f.version # "none" /\ f.version # "2.0" -> "error"
    [] f.version = "2.0" /\ f.method # "none" /\ f.result -> "error"
    [] f.version = "2.0" /\ f.method # "none" /\ ~f.result ->
         IF f.id # NoId THEN "request" ELSE "notification"
    [] f.version = "2.0" /\ f.method = "none" /\ f.result -> "response"
    [] f.version = "2.0" /\ f.method = "none" /\ ~f.result -> "unknown"

peek_envelope(f) ==
  CASE f.shape = "blank" -> "unknown"
    [] f.shape = "broken" -> "error"
    [] f.shape = "object" -> classify_fields(f)

\* ClientPolicyInput is taken of the requests the peeker kept the params of.
Inspected(f) ==
  peek_envelope(f) = "request" /\ f.method = "tools/call" /\ f.params # "none"

permits_allow == mode = "FailOpen"

-----------------------------------------------------------------------------
(* The client's frames. *)

ClientSends(f) ==
  /\ clientOpen /\ Len(sent) < MaxClient
  /\ sent' = Append(sent, f)
  /\ UNCHANGED <<mode, keys, clientOpen, clientSide, s, serverSide, stdout, ended>>

ClientCloses ==
  /\ clientOpen /\ clientOpen' = FALSE
  /\ UNCHANGED <<mode, keys, sent, clientSide, s, serverSide, stdout, ended>>

\* What inspect_and_relay does with a frame before the gateway is asked: a call that
\* cannot be decoded, and a frame that cannot be read, is answered unless the mode
\* permits it to pass.
Routed(f) ==
  IF Inspected(f)
  THEN IF f.params # "unreadable" THEN "evaluate"
       ELSE IF permits_allow THEN "forward" ELSE "answer"
  ELSE IF peek_envelope(f) = "error" /\ ~permits_allow THEN "answer" ELSE "forward"

\* read_until and the frame's inspection.
ReadClient ==
  /\ c.pc = "read" /\ c.n < Len(sent)
  /\ LET f == sent[c.n + 1]
     IN  c' = [c EXCEPT !.pc = Routed(f), !.n = @ + 1, !.params = f.params,
                        !.verdicts = Append(@, "none")]
  /\ UNCHANGED <<mode, keys, sent, clientOpen, relayed, serverOpen, s, serverSide, stdout, ended>>

\* Mutant of ClientEnds: something else still holds the pipe.
ClientEndsHolding ==
  /\ c.pc = "read" /\ c.n = Len(sent) /\ ~clientOpen
  /\ c' = [c EXCEPT !.pc = "done"]
  /\ UNCHANGED <<mode, keys, sent, clientOpen, relayed, serverOpen, s, serverSide, stdout, ended>>

\* End of input: the loop ends and child_stdin is dropped.
ClientEnds ==
  /\ c.pc = "read" /\ c.n = Len(sent) /\ ~clientOpen
  /\ c' = [c EXCEPT !.pc = "done"] /\ serverOpen' = FALSE
  /\ UNCHANGED <<mode, keys, sent, clientOpen, relayed, s, serverSide, stdout, ended>>

\* Mutant of Evaluate: a rewrite that cannot be applied falls through to the original.
EvaluateFallingThrough(verdict) ==
  /\ c.pc = "evaluate"
  /\ c' = [c EXCEPT
       !.verdicts[c.n] = verdict,
       !.pc = IF verdict = "deny" THEN "answer" ELSE "forward",
       !.params = IF verdict = "rewrite" /\ sent[c.n].framed THEN "rewritten" ELSE @]
  /\ UNCHANGED <<mode, keys, sent, clientOpen, relayed, serverOpen, s, serverSide, stdout, ended>>

\* evaluate_outcome and enforce: a denial is answered; rewritten params replace the
\* frame's, and when the frame cannot be rebuilt around them it is answered as well.
Evaluate(verdict) ==
  /\ c.pc = "evaluate"
  /\ c' = [c EXCEPT
       !.verdicts[c.n] = verdict,
       !.pc = IF verdict = "deny" \/ (verdict = "rewrite" /\ ~sent[c.n].framed)
              THEN "answer" ELSE "forward",
       !.params = IF verdict = "rewrite" THEN "rewritten" ELSE @]
  /\ UNCHANGED <<mode, keys, sent, clientOpen, relayed, serverOpen, s, serverSide, stdout, ended>>

\* forward_frame to the server, whose only writer this is; a dead server ends the task
\* with an error, and its end of the pipe with it.
ForwardToServer ==
  /\ c.pc = "forward"
  /\ IF server.up
     THEN /\ relayed' = Append(relayed, [n |-> c.n, params |-> c.params])
          /\ c' = [c EXCEPT !.pc = "read"]
          /\ UNCHANGED serverOpen
     ELSE /\ c' = [c EXCEPT !.pc = "failed"] /\ serverOpen' = FALSE
          /\ UNCHANGED relayed
  /\ UNCHANGED <<mode, keys, sent, clientOpen, s, serverSide, stdout, ended>>

\* blocked_response and access_denied_response, under the id of the request, or null
\* when the frame could not be read.
AnswerClient ==
  /\ c.pc = "answer"
  /\ LET f == sent[c.n]
     IN  stdout' = Append(stdout,
           [ kind |-> "answer", n |-> c.n,
             id |-> IF peek_envelope(f) = "error" THEN Null ELSE f.id ])
  /\ c' = [c EXCEPT !.pc = "delimit"]
  /\ UNCHANGED <<mode, keys, sent, clientOpen, relayed, serverOpen, s, serverSide, ended>>

\* Mutant of DelimitAnswer: without its early return the answered frame is forwarded too.
DelimitAnswerAndForward ==
  /\ c.pc = "delimit"
  /\ stdout' = Append(stdout, NEWLINE)
  /\ c' = [c EXCEPT !.pc = "forward"]
  /\ UNCHANGED <<mode, keys, sent, clientOpen, relayed, serverOpen, s, serverSide, ended>>

DelimitAnswer ==
  /\ c.pc = "delimit"
  /\ stdout' = Append(stdout, NEWLINE)
  /\ c' = [c EXCEPT !.pc = "read"]
  /\ UNCHANGED <<mode, keys, sent, clientOpen, relayed, serverOpen, s, serverSide, ended>>

-----------------------------------------------------------------------------
(* The server process and its frames. *)

\* It reads one line; a request may be answered at once, in one of the server's bodies.
ServerReads ==
  /\ server.up /\ server.read < Len(relayed)
  /\ server' = [server EXCEPT !.read = @ + 1]
  /\ LET f == sent[relayed[server.read + 1].n]
     IN  \/ UNCHANGED emitted
         \/ /\ peek_envelope(f) = "request" /\ Len(emitted) < MaxServer
            /\ \E body \in ServerBody :
                 emitted' = Append(emitted, [n |-> relayed[server.read + 1].n, body |-> body])
  /\ UNCHANGED <<mode, keys, sent, clientOpen, clientSide, s, stdout, ended>>

ServerNotifies(body) ==
  /\ server.up /\ Len(emitted) < MaxServer
  /\ emitted' = Append(emitted, [n |-> 0, body |-> body])
  /\ UNCHANGED <<mode, keys, sent, clientOpen, clientSide, s, server, stdout, ended>>

\* End of input, or its own end before that.
ServerExits ==
  /\ server.up /\ server' = [server EXCEPT !.up = FALSE]
  /\ UNCHANGED <<mode, keys, sent, clientOpen, clientSide, s, emitted, stdout, ended>>

\* Mutant of ReadServer: the stream from the server is paused while an approval is open.
ReadServerUnlessAsked ==
  /\ s.pc = "read" /\ s.n < Len(emitted) /\ c.pc # "evaluate"
  /\ s' = [pc |-> "forward", n |-> s.n + 1]
  /\ UNCHANGED <<mode, keys, sent, clientOpen, clientSide, serverSide, stdout, ended>>

ReadServer ==
  /\ s.pc = "read" /\ s.n < Len(emitted)
  /\ s' = [pc |-> "forward", n |-> s.n + 1]
  /\ UNCHANGED <<mode, keys, sent, clientOpen, clientSide, serverSide, stdout, ended>>

\* What sanitize_server_frame makes of the server's bodies, under each policy's keys.
Sanitized == {<<k, body, sanitize_server_frame(k, body)>> : k \in RedactKeys, body \in ServerBody}

SanitizedBody(body) == (CHOOSE t \in Sanitized : t[1] = keys /\ t[2] = body)[3]

\* The frame leaves sanitized; an envelope that cannot be read is no reason to keep it.
ForwardToClient ==
  /\ s.pc = "forward"
  /\ stdout' = Append(stdout,
       [ kind |-> "frame", n |-> emitted[s.n].n,
         body |-> SanitizedBody(emitted[s.n].body) ])
  /\ s' = [s EXCEPT !.pc = "delimit"]
  /\ UNCHANGED <<mode, keys, sent, clientOpen, clientSide, serverSide, ended>>

DelimitFrame ==
  /\ s.pc = "delimit"
  /\ stdout' = Append(stdout, NEWLINE)
  /\ s' = [s EXCEPT !.pc = "read"]
  /\ UNCHANGED <<mode, keys, sent, clientOpen, clientSide, serverSide, ended>>

ServerEnds ==
  /\ s.pc = "read" /\ s.n = Len(emitted) /\ ~server.up
  /\ s' = [s EXCEPT !.pc = "done"]
  /\ UNCHANGED <<mode, keys, sent, clientOpen, clientSide, serverSide, stdout, ended>>

\* join_relays waits for both tasks, shutdown_child for the process.
join_relays ==
  /\ c.pc \in {"done", "failed"} /\ s.pc = "done" /\ ~server.up
  /\ ~ended /\ ended' = TRUE
  /\ UNCHANGED <<mode, keys, sent, clientOpen, clientSide, s, serverSide, stdout>>

-----------------------------------------------------------------------------

Verdict == {"deny", "forward", "rewrite"}

ClientRelay ==
  ReadClient \/ ClientEnds \/ ForwardToServer \/ AnswerClient \/ DelimitAnswer

ServerRelay == ReadServer \/ ForwardToClient \/ DelimitFrame \/ ServerEnds

Next ==
  \/ \E f \in ClientFrame : ClientSends(f)
  \/ ClientCloses
  \/ ClientRelay
  \/ \E verdict \in Verdict : Evaluate(verdict)
  \/ ServerReads
  \/ \E body \in ServerBody : ServerNotifies(body)
  \/ ServerExits
  \/ ServerRelay
  \/ join_relays

Spec == Init /\ [][Next]_vars

\* The runtime runs both tasks and main; the server exits once its input has ended.  The
\* gateway is owed nothing.
FairSpec ==
  /\ Spec
  /\ WF_vars(ClientRelay) /\ WF_vars(ServerRelay) /\ WF_vars(join_relays)
  /\ WF_vars(ServerExits /\ ~serverOpen)

-----------------------------------------------------------------------------
(* Properties. *)

Chunks(kind) == {i \in DOMAIN stdout : stdout[i].kind = kind}
Answers(n) == {i \in Chunks("answer") : stdout[i].n = n}
Lines(n) == {i \in DOMAIN relayed : relayed[i].n = n}
Replies(n) == {i \in Chunks("frame") : stdout[i].n = n}

\* Settled: the task is through with the n-th frame.
Settled(n) == n < c.n \/ (n = c.n /\ c.pc \in {"read", "done", "delimit"})

\* Every frame of the client has one fate: it reaches the server once or is answered
\* once, never both and never neither; frames keep their order on the way; and no
\* request is answered both by the wrapper and by the server, or under a foreign id.
EveryFrameHasOneFate ==
  /\ \A n \in 1 .. c.n :
       /\ Cardinality(Answers(n)) + Cardinality(Lines(n)) <= 1
       /\ Settled(n) => Cardinality(Answers(n)) + Cardinality(Lines(n)) = 1
       /\ Cardinality(Answers(n)) + Cardinality(Replies(n)) <= 1
       /\ \A i \in Answers(n) : stdout[i].id \in {sent[n].id, Null} \ {NoId}
  /\ \A i, j \in DOMAIN relayed : i < j => relayed[i].n < relayed[j].n
  /\ \A i, j \in Chunks("answer") : i < j => stdout[i].n < stdout[j].n

\* A call the wrapper has to judge.
IsToolsCall(f) ==
  /\ f.shape = "object" /\ f.version = "2.0" /\ ~f.result
  /\ f.method = "tools/call" /\ f.id # NoId /\ f.params # "none"

\* What reaches the server of a tools/call request was allowed, and is the rewrite where
\* there was one: the original never takes its place, even when the frame cannot be
\* rebuilt.  Only a failure mode that says so lets a call pass that cannot be decoded, or
\* a frame that cannot be read.
OnlyWhatWasAllowedIsRelayed ==
  \A i \in DOMAIN relayed :
    LET line == relayed[i]
        f == sent[line.n]
        verdict == c.verdicts[line.n]
    IN  /\ IsToolsCall(f) =>
             \/ verdict = "forward" /\ line.params = f.params
             \/ verdict = "rewrite" /\ line.params = "rewritten"
             \/ verdict = "none" /\ f.params = "unreadable" /\ mode = "FailOpen"
        /\ f.shape = "broken" => mode = "FailOpen"

\* No frame of the server reaches the client with something in it that the policy's keys
\* or the scanner's patterns name, whichever of the two passes could be applied.
ServerFramesAreSanitized ==
  \A i \in Chunks("frame") :
    LET body == stdout[i].body
    IN  /\ MaskedBody(body)
        /\ body.utf8 /\ body.json =>
             \A k \in DOMAIN body.leaves :
               body.leaves[k].key \in keys => body.leaves[k].text = <<"[REDACTED]">>

\* The server's frames keep arriving while a call waits for its approval, however long
\* that takes.
ServerFramesArrive ==
  \A n \in 1 .. MaxServer : (Len(emitted) >= n) ~> (Cardinality(Chunks("frame")) >= n)

\* Once the client is gone the wrapper ends, and the server with it, unless an approval
\* stays open for ever; a server that died before does not keep it.
WrapperEnds == []<>(c.pc # "evaluate") => (~clientOpen ~> ended)

\* What the client reads is one frame per line (adapters/mcp.rs:30).
FramesStayWhole == \A i \in DOMAIN stdout : stdout[i] = NEWLINE <=> i % 2 = 0
=============================================================================
