-------------------------- MODULE StdioRelay_proofs --------------------------
(***************************************************************************)
(* Proofs about StdioRelay for any frames, any bodies and any number of    *)
(* them.                                                                   *)
(*                                                                         *)
(* The invariant has four parts: what the task that reads the client knows *)
(* of the frame it is at and of the lines it has written; the fate of      *)
(* every frame it has read; which lines the server's frames answer; and    *)
(* which of the server's frames the client was given.                      *)
(***************************************************************************)
EXTENDS StdioRelay, FiniteSetTheorems, TLAPS

Params == {"none", "rewritten"} \cup {f.params : f \in ClientFrame}
Id == {Null} \cup {f.id : f \in ClientFrame}

ClientRecord ==
  [ pc : {"read", "evaluate", "forward", "answer", "delimit", "done", "failed"},
    n : Nat, params : Params, verdicts : Seq({"none"} \cup Verdict) ]

ServerRecord == [pc : {"read", "forward", "delimit", "done"}, n : Nat]

Line == [n : Nat, params : Params]
Emission == [n : Nat, body : ServerBody]

SanitizedFrame == {t[3] : t \in Sanitized}
Answer == [kind : {"answer"}, n : Nat, id : Id]
Frame == [kind : {"frame"}, n : Nat, body : SanitizedFrame]
Chunk == {NEWLINE} \cup Answer \cup Frame

TypeOK ==
  /\ keys \in RedactKeys /\ sent \in Seq(ClientFrame)
  /\ c \in ClientRecord /\ s \in ServerRecord
  /\ relayed \in Seq(Line) /\ emitted \in Seq(Emission) /\ stdout \in Seq(Chunk)
  /\ server \in [up : BOOLEAN, read : Nat]

\* The task has read the first c.n frames, and each of them has a verdict.
Position ==
  /\ c.n <= Len(sent) /\ Len(c.verdicts) = c.n
  /\ c.pc \notin {"read", "done"} => c.n > 0

\* What OnlyWhatWasAllowedIsRelayed says of one line.
MayPass(n, params) ==
  LET f == sent[n]
      verdict == c.verdicts[n]
  IN  /\ IsToolsCall(f) =>
           \/ verdict = "forward" /\ params = f.params
           \/ verdict = "rewrite" /\ params = "rewritten"
           \/ verdict = "none" /\ f.params = "unreadable" /\ mode = "FailOpen"
      /\ f.shape = "broken" => mode = "FailOpen"

\* What the task knows of the frame it is at.
Carried ==
  /\ c.pc = "evaluate" => Inspected(sent[c.n]) /\ c.params = sent[c.n].params
  /\ c.pc = "forward" => MayPass(c.n, c.params)
  /\ c.pc = "answer" => Inspected(sent[c.n]) \/ peek_envelope(sent[c.n]) = "error"

\* Every line of the server is a frame the task is through with, in order.
LinesPassed ==
  /\ \A i \in DOMAIN relayed :
       relayed[i].n \in 1 .. c.n /\ MayPass(relayed[i].n, relayed[i].params)
  /\ \A i, j \in DOMAIN relayed : i < j => relayed[i].n < relayed[j].n

\* Every answer is to a frame that was read, in order and under an id of its own.
AnswersGiven ==
  /\ \A i \in Chunks("answer") :
       stdout[i].n \in 1 .. c.n /\ stdout[i].id \in {sent[stdout[i].n].id, Null} \ {NoId}
  /\ \A i, j \in Chunks("answer") : i < j => stdout[i].n < stdout[j].n

Answered(n) == \E i \in Chunks("answer") : stdout[i].n = n
Passed(n) == \E i \in DOMAIN relayed : relayed[i].n = n

\* A frame the task is through with was answered or passed, and not both; the frame it
\* is at is neither yet.
OneFate ==
  \A n \in 1 .. c.n : IF Settled(n) THEN Answered(n) <=> ~Passed(n) ELSE ~Answered(n) /\ ~Passed(n)

\* A frame of the server that answers answers a line it has read, and no two answer
\* the same one.
RepliesEmitted ==
  /\ server.read <= Len(relayed)
  /\ \A k \in DOMAIN emitted :
       emitted[k].n # 0 => \E j \in 1 .. server.read : relayed[j].n = emitted[k].n
  /\ \A k, l \in DOMAIN emitted : emitted[k].n = emitted[l].n /\ emitted[k].n # 0 => k = l

\* How many of the server's frames the client was given.
Given == IF s.pc = "forward" THEN s.n - 1 ELSE s.n

\* What the client was given of the server are its first frames, sanitized, and no reply
\* twice.
FramesGiven ==
  /\ s.n <= Len(emitted) /\ (s.pc = "forward" => s.n > 0)
  /\ \A i \in Chunks("frame") : \E k \in 1 .. Given :
       /\ stdout[i].n = emitted[k].n
       /\ stdout[i].body = sanitize_server_frame(keys, emitted[k].body)
  /\ \A i, j \in Chunks("frame") : stdout[i].n = stdout[j].n /\ stdout[i].n # 0 => i = j

IndInv ==
  /\ TypeOK /\ Position /\ Carried /\ LinesPassed
  /\ AnswersGiven /\ OneFate
  /\ RepliesEmitted /\ FramesGiven

-----------------------------------------------------------------------------
(* Frames of the client. *)

\* A call that has to be judged is inspected; what is inspected is a request with an id;
\* a line that is no object cannot be read.
LEMMA CallsAreInspected ==
  ASSUME NEW f \in ClientFrame
  PROVE  /\ IsToolsCall(f) => Inspected(f)
         /\ Inspected(f) => f.id # NoId /\ peek_envelope(f) = "request"
         /\ f.shape = "broken" => peek_envelope(f) = "error" /\ ~Inspected(f)
         /\ peek_envelope(f) # "request" => ~IsToolsCall(f)
  <1>1. f.shape \in {"object", "blank", "broken"} /\ f.result \in BOOLEAN
    BY FrameAssumption
  <1>2. f.shape = "broken" => peek_envelope(f) = "error"
    BY DEF peek_envelope
  <1>3. ASSUME IsToolsCall(f) PROVE peek_envelope(f) = "request"
    <2>1. f.shape = "object" /\ f.version = "2.0" /\ ~f.result /\ f.method = "tools/call" /\ f.id # NoId
      BY <1>3 DEF IsToolsCall
    <2>2. classify_fields(f) = "request"
      BY <2>1 DEF classify_fields, NoId
    <2> QED
      BY <2>1, <2>2 DEF peek_envelope
  <1>4. ASSUME peek_envelope(f) = "request" PROVE f.id # NoId
    <2>1. f.shape = "object" /\ classify_fields(f) = "request"
      BY <1>1, <1>4 DEF peek_envelope
    <2>2. CASE f.result
      <3>1. f.version # "2.0" => classify_fields(f) = "error"
        BY <2>2 DEF classify_fields
      <3>2. f.version = "2.0" /\ f.method # "none" => classify_fields(f) = "error"
        BY <2>2 DEF classify_fields
      <3>3. f.version = "2.0" /\ f.method = "none" => classify_fields(f) = "response"
        BY <2>2 DEF classify_fields
      <3> QED
        BY <2>1, <3>1, <3>2, <3>3
    <2>3. CASE ~f.result
      BY <2>1, <2>3 DEF classify_fields, NoId
    <2> QED
      BY <1>1, <2>2, <2>3
  <1> QED
    BY <1>2, <1>3, <1>4 DEF Inspected, IsToolsCall

\* What is forwarded unjudged may pass; what is evaluated was inspected; what is
\* answered was inspected or could not be read.
LEMMA RoutedSoundly ==
  ASSUME NEW f \in ClientFrame
  PROVE  /\ Routed(f) \in {"evaluate", "forward", "answer"}
         /\ Routed(f) = "evaluate" => Inspected(f)
         /\ Routed(f) = "answer" => Inspected(f) \/ peek_envelope(f) = "error"
         /\ Routed(f) = "forward" =>
              /\ IsToolsCall(f) => f.params = "unreadable" /\ mode = "FailOpen"
              /\ f.shape = "broken" => mode = "FailOpen"
  <1>1. IsToolsCall(f) => Inspected(f)
    BY CallsAreInspected
  <1>2. f.shape = "broken" => peek_envelope(f) = "error" /\ ~Inspected(f)
    BY CallsAreInspected
  <1> QED
    BY <1>1, <1>2 DEF Routed, permits_allow

-----------------------------------------------------------------------------
(* What a step leaves alone. *)

\* What may pass depends on the frame, its verdict and the mode.
LEMMA MayPassKept ==
  ASSUME NEW n, NEW params, MayPass(n, params), mode' = mode,
         sent'[n] = sent[n], c'.verdicts[n] = c.verdicts[n]
  PROVE  MayPass(n, params)'
  BY DEF MayPass

\* The lines stay as they are when the frames and verdicts they stand for do.
LEMMA LinesKept ==
  ASSUME IndInv, relayed' = relayed, mode' = mode, c'.n \in Nat, c.n <= c'.n,
         \A n \in 1 .. c.n : Passed(n) => sent'[n] = sent[n] /\ c'.verdicts[n] = c.verdicts[n]
  PROVE  LinesPassed' /\ \A n : Passed(n)' <=> Passed(n)
  <1>1. \A n : Passed(n)' <=> Passed(n)
    BY DEF Passed
  <1>2. ASSUME NEW i \in DOMAIN relayed
        PROVE  relayed[i].n \in 1 .. c'.n /\ MayPass(relayed[i].n, relayed[i].params)'
    <2>1. PICK n, params : n = relayed[i].n /\ params = relayed[i].params
      OBVIOUS
    <2>2. n \in 1 .. c.n /\ MayPass(n, params) /\ Passed(n)
      BY <2>1 DEF IndInv, LinesPassed, Passed
    <2>3. c.n \in Nat
      BY DEF IndInv, TypeOK, ClientRecord
    <2>4. n \in 1 .. c'.n
      BY <2>2, <2>3
    <2>5. sent'[n] = sent[n] /\ c'.verdicts[n] = c.verdicts[n]
      BY <2>2
    <2>6. MayPass(n, params)'
      BY <2>2, <2>5, MayPassKept
    <2> QED
      BY <2>1, <2>4, <2>6 DEF MayPass
  <1>3. \A i, j \in DOMAIN relayed : i < j => relayed[i].n < relayed[j].n
    BY DEF IndInv, LinesPassed
  <1> QED
    BY <1>1, <1>2, <1>3 DEF LinesPassed, MayPass

\* The answers stay as they are when no new one is written.
LEMMA AnswersKept ==
  ASSUME IndInv, Chunks("answer")' = Chunks("answer"),
         \A i \in Chunks("answer") : stdout'[i] = stdout[i],
         c'.n \in Nat, c.n <= c'.n, \A n \in 1 .. c.n : sent'[n] = sent[n]
  PROVE  AnswersGiven' /\ \A n : Answered(n)' <=> Answered(n)
  <1>1. \A n : Answered(n)' <=> Answered(n)
    BY DEF Answered
  <1>2. c.n \in Nat
    BY DEF IndInv, TypeOK, ClientRecord
  <1>3. \A i \in Chunks("answer") :
           stdout[i].n \in 1 .. c.n /\ stdout[i].id \in {sent[stdout[i].n].id, Null} \ {NoId}
    BY DEF IndInv, AnswersGiven
  <1>4. \A i, j \in Chunks("answer") : i < j => stdout[i].n < stdout[j].n
    BY DEF IndInv, AnswersGiven
  <1> QED
    BY <1>1, <1>2, <1>3, <1>4 DEF AnswersGiven

\* The replies stay as they are when the server neither reads nor writes.
LEMMA RepliesKept ==
  ASSUME IndInv, server'.read = server.read, emitted' = emitted,
         Len(relayed') \in Nat, Len(relayed) <= Len(relayed'),
         \A j \in DOMAIN relayed : relayed'[j] = relayed[j]
  PROVE  RepliesEmitted'
  <1>1. server.read \in Nat /\ Len(relayed) \in Nat /\ DOMAIN relayed = 1 .. Len(relayed)
    BY DEF IndInv, TypeOK
  <1>2. server.read <= Len(relayed)
    BY DEF IndInv, RepliesEmitted
  <1>3. \A j \in 1 .. server.read : relayed'[j] = relayed[j]
    BY <1>1, <1>2
  <1>4. server'.read <= Len(relayed')
    BY <1>1, <1>2
  <1> QED
    BY <1>3, <1>4 DEF IndInv, RepliesEmitted

\* What the client was given stays as it is while the server goes on writing.
LEMMA FramesKept ==
  ASSUME IndInv, Chunks("frame")' = Chunks("frame"),
         \A i \in Chunks("frame") : stdout'[i] = stdout[i],
         keys' = keys, s' = s, Len(emitted') \in Nat, Len(emitted) <= Len(emitted'),
         \A k \in DOMAIN emitted : emitted'[k] = emitted[k]
  PROVE  FramesGiven'
  <1>1. /\ s.n \in Nat /\ Len(emitted) \in Nat /\ DOMAIN emitted = 1 .. Len(emitted)
        /\ s.n <= Len(emitted) /\ (s.pc = "forward" => s.n > 0)
    BY DEF IndInv, TypeOK, ServerRecord, FramesGiven
  <1>2. Given' = Given /\ Given \in Nat /\ Given <= s.n
    BY <1>1 DEF Given
  <1>3. \A k \in 1 .. Given : emitted'[k] = emitted[k]
    BY <1>1, <1>2
  <1>4. s'.n <= Len(emitted') /\ (s'.pc = "forward" => s'.n > 0)
    BY <1>1
  <1>5. \A i \in Chunks("frame") : \E k \in 1 .. Given :
           /\ stdout'[i].n = emitted'[k].n
           /\ stdout'[i].body = sanitize_server_frame(keys', emitted'[k].body)
    <2> TAKE i \in Chunks("frame")
    <2>1. PICK k \in 1 .. Given : /\ stdout[i].n = emitted[k].n
                                 /\ stdout[i].body = sanitize_server_frame(keys, emitted[k].body)
      BY DEF IndInv, FramesGiven
    <2>2. stdout'[i] = stdout[i] /\ emitted'[k] = emitted[k]
      BY <1>3
    <2> QED
      BY <2>1, <2>2
  <1>6. \A i, j \in Chunks("frame") : stdout'[i].n = stdout'[j].n /\ stdout'[i].n # 0 => i = j
    BY DEF IndInv, FramesGiven
  <1> QED
    BY <1>2, <1>4, <1>5, <1>6 DEF FramesGiven

\* What is written comes last.
LEMMA Written ==
  ASSUME stdout \in Seq(Chunk), NEW chunk \in Chunk, stdout' = Append(stdout, chunk), NEW kind
  PROVE  /\ stdout' \in Seq(Chunk) /\ Len(stdout) \in Nat
         /\ Chunks(kind) \subseteq 1 .. Len(stdout)
         /\ \A i \in 1 .. Len(stdout) : stdout'[i] = stdout[i]
         /\ stdout'[Len(stdout) + 1] = chunk
         /\ chunk.kind = kind => Chunks(kind)' = Chunks(kind) \cup {Len(stdout) + 1}
         /\ chunk.kind # kind => Chunks(kind)' = Chunks(kind)
  <1>1. /\ Len(stdout) \in Nat /\ DOMAIN stdout = 1 .. Len(stdout) /\ stdout' \in Seq(Chunk)
        /\ DOMAIN stdout' = 1 .. Len(stdout) + 1
        /\ \A i \in 1 .. Len(stdout) : stdout'[i] = stdout[i]
        /\ stdout'[Len(stdout) + 1] = chunk
    OBVIOUS
  <1>2. 1 .. Len(stdout) + 1 = (1 .. Len(stdout)) \cup {Len(stdout) + 1}
    BY <1>1
  <1> QED
    BY <1>1, <1>2 DEF Chunks

-----------------------------------------------------------------------------
(* The client and the task that reads it. *)

\* What is known of the frame the task is at.
LEMMA AtFrame ==
  ASSUME IndInv
  PROVE  /\ c \in ClientRecord /\ c.n \in Nat /\ Len(sent) \in Nat /\ Len(c.verdicts) = c.n
         /\ c.verdicts \in Seq({"none"} \cup Verdict)
         /\ c.pc \notin {"read", "done"} => c.n \in 1 .. c.n /\ sent[c.n] \in ClientFrame
  <1>1. /\ c \in ClientRecord /\ c.n \in Nat /\ sent \in Seq(ClientFrame) /\ Len(sent) \in Nat
        /\ c.verdicts \in Seq({"none"} \cup Verdict)
    BY DEF IndInv, TypeOK, ClientRecord
  <1>2. c.n <= Len(sent) /\ Len(c.verdicts) = c.n /\ (c.pc \notin {"read", "done"} => c.n > 0)
    BY DEF IndInv, Position
  <1> QED
    BY <1>1, <1>2

\* A new frame of the client changes nothing about the ones before it.
LEMMA ClientSendsKeeps == ASSUME IndInv, NEW f \in ClientFrame, ClientSends(f) PROVE IndInv'
  <1>1. /\ sent' = Append(sent, f)
        /\ UNCHANGED <<mode, keys, c, relayed, server, emitted, s, stdout>>
    BY DEF ClientSends, clientSide, serverSide
  <1>2. sent \in Seq(ClientFrame) /\ c \in ClientRecord /\ c.n \in Nat /\ c.n <= Len(sent)
    BY DEF IndInv, TypeOK, ClientRecord, Position
  <1>3. /\ sent' \in Seq(ClientFrame) /\ Len(sent') = Len(sent) + 1 /\ Len(sent) \in Nat
        /\ \A n \in 1 .. c.n : sent'[n] = sent[n]
    BY <1>1, <1>2
  <1>4. TypeOK'
    BY <1>1, <1>3 DEF IndInv, TypeOK
  <1>5. Position'
    BY <1>1, <1>2, <1>3 DEF IndInv, Position
  <1>6. Carried'
    <2>1. CASE c.pc \in {"read", "done"}
      BY <1>1, <2>1 DEF Carried
    <2>2. CASE c.pc \notin {"read", "done"}
      <3>1. c.n \in 1 .. c.n
        BY <2>2, AtFrame
      <3>2. sent'[c.n] = sent[c.n]
        BY <1>3, <3>1
      <3> QED
        BY <1>1, <3>2 DEF IndInv, Carried, MayPass
    <2> QED
      BY <2>1, <2>2
  <1>7. Chunks("answer")' = Chunks("answer")
    BY <1>1 DEF Chunks
  <1>8. c'.n \in Nat /\ c.n <= c'.n
    BY <1>1, <1>2
  <1>9. LinesPassed' /\ (\A n : Passed(n)' <=> Passed(n))
    BY <1>1, <1>3, <1>8, LinesKept
  <1>10. AnswersGiven' /\ (\A n : Answered(n)' <=> Answered(n))
    BY <1>1, <1>3, <1>7, <1>8, AnswersKept
  <1>11. \A n : Settled(n)' <=> Settled(n)
    BY <1>1 DEF Settled
  <1>12. OneFate'
    BY <1>1, <1>9, <1>10, <1>11 DEF IndInv, OneFate
  <1>13. RepliesEmitted'
    BY <1>1 DEF IndInv, RepliesEmitted
  <1>14. FramesGiven'
    BY <1>1 DEF IndInv, FramesGiven, Chunks, Given
  <1> QED
    BY <1>4, <1>5, <1>6, <1>9, <1>10, <1>12, <1>13, <1>14 DEF IndInv

\* A step of the task that writes nothing.
LEMMA ClientMoves ==
  ASSUME IndInv, UNCHANGED <<mode, keys, sent, relayed, server, emitted, s, stdout>>,
         c' \in ClientRecord, c.n <= c'.n, Position', Carried',
         \A n \in 1 .. c.n : Passed(n) => c'.verdicts[n] = c.verdicts[n],
         \A n \in 1 .. c'.n : IF n <= c.n THEN Settled(n)' <=> Settled(n) ELSE ~Settled(n)'
  PROVE  IndInv'
  <1>1. c'.n \in Nat /\ c.n \in Nat
    BY DEF IndInv, TypeOK, ClientRecord
  <1>2. TypeOK'
    BY DEF IndInv, TypeOK
  <1>3. Chunks("answer")' = Chunks("answer")
    BY DEF Chunks
  <1>4. LinesPassed' /\ (\A n : Passed(n)' <=> Passed(n))
    BY <1>1, LinesKept
  <1>5. AnswersGiven' /\ (\A n : Answered(n)' <=> Answered(n))
    BY <1>1, <1>3, AnswersKept
  <1>6. OneFate'
    <2> SUFFICES ASSUME NEW n \in 1 .. c'.n
                 PROVE  IF Settled(n)' THEN Answered(n)' <=> ~Passed(n)'
                                       ELSE ~Answered(n)' /\ ~Passed(n)'
      BY DEF OneFate
    <2>1. CASE n <= c.n
      BY <1>1, <1>4, <1>5, <2>1 DEF IndInv, OneFate
    <2>2. CASE ~(n <= c.n)
      <3>1. ~Settled(n)' /\ n \notin 1 .. c.n
        BY <1>1, <2>2
      <3>2. ~Passed(n)
        BY <3>1 DEF IndInv, LinesPassed, Passed
      <3>3. ~Answered(n)
        BY <3>1 DEF IndInv, AnswersGiven, Answered
      <3> QED
        BY <1>4, <1>5, <3>1, <3>2, <3>3
    <2> QED
      BY <2>1, <2>2
  <1>7. RepliesEmitted'
    BY DEF IndInv, RepliesEmitted
  <1>8. FramesGiven'
    BY DEF IndInv, FramesGiven, Chunks, Given
  <1> QED
    BY <1>2, <1>4, <1>5, <1>6, <1>7, <1>8 DEF IndInv

\* The next frame is read and routed.
LEMMA ReadClientKeeps == ASSUME IndInv, ReadClient PROVE IndInv'
  <1>1. /\ c.pc = "read" /\ c.n < Len(sent)
        /\ UNCHANGED <<mode, keys, sent, relayed, server, emitted, s, stdout>>
    BY DEF ReadClient, serverSide
  <1>2. /\ c \in ClientRecord /\ c.n \in Nat /\ Len(sent) \in Nat /\ Len(c.verdicts) = c.n
        /\ c.verdicts \in Seq({"none"} \cup Verdict) /\ sent \in Seq(ClientFrame)
    BY AtFrame DEF IndInv, TypeOK
  <1>3. PICK n, f, verdicts : n = c.n + 1 /\ f = sent[n] /\ verdicts = Append(c.verdicts, "none")
    OBVIOUS
  <1>4. /\ n \in Nat /\ n \in 1 .. Len(sent) /\ f \in ClientFrame
        /\ verdicts \in Seq({"none"} \cup Verdict) /\ Len(verdicts) = n /\ verdicts[n] = "none"
        /\ \A m \in 1 .. c.n : verdicts[m] = c.verdicts[m]
    BY <1>1, <1>2, <1>3
  <1>5. c' = [c EXCEPT !.pc = Routed(f), !.n = n, !.params = f.params, !.verdicts = verdicts]
    BY <1>2, <1>3 DEF ReadClient
  <1>6. f.params \in Params /\ Routed(f) \in {"evaluate", "forward", "answer"}
    BY <1>4, RoutedSoundly DEF Params
  <1>7. /\ c' \in ClientRecord /\ c'.pc = Routed(f) /\ c'.n = n /\ c'.params = f.params
        /\ c'.verdicts = verdicts
    BY <1>2, <1>4, <1>5, <1>6 DEF ClientRecord
  <1>8. Position'
    BY <1>1, <1>2, <1>4, <1>7 DEF Position
  <1>9. Carried'
    <2>1. /\ Routed(f) = "evaluate" => Inspected(f)
          /\ Routed(f) = "answer" => Inspected(f) \/ peek_envelope(f) = "error"
          /\ Routed(f) = "forward" =>
              /\ IsToolsCall(f) => f.params = "unreadable" /\ mode = "FailOpen"
              /\ f.shape = "broken" => mode = "FailOpen"
      BY <1>4, RoutedSoundly
    <2>2. sent'[n] = f /\ c'.verdicts[n] = "none" /\ mode' = mode
      BY <1>1, <1>3, <1>4, <1>7
    <2>3. c'.pc = "forward" => MayPass(n, f.params)'
      BY <1>7, <2>1, <2>2 DEF MayPass
    <2>4. c'.pc = "forward" => MayPass(c.n, c.params)'
      BY <1>7, <2>3 DEF MayPass
    <2>5. c'.pc = "evaluate" => Inspected(sent'[c'.n]) /\ c'.params = sent'[c'.n].params
      BY <1>7, <2>1, <2>2
    <2>6. c'.pc = "answer" => Inspected(sent'[c'.n]) \/ peek_envelope(sent'[c'.n]) = "error"
      BY <1>7, <2>1, <2>2
    <2> QED
      BY <2>4, <2>5, <2>6 DEF Carried, Inspected, peek_envelope, classify_fields
  <1>10. c.n <= c'.n /\ \A m \in 1 .. c.n : c'.verdicts[m] = c.verdicts[m]
    BY <1>2, <1>3, <1>4, <1>7
  <1>11. \A m \in 1 .. c'.n : IF m <= c.n THEN Settled(m)' <=> Settled(m) ELSE ~Settled(m)'
    BY <1>1, <1>2, <1>3, <1>6, <1>7 DEF Settled
  <1> QED
    BY <1>1, <1>7, <1>8, <1>9, <1>10, <1>11, ClientMoves

\* The gateway's verdict is that of the frame it was asked about, and what goes on to the
\* server afterwards is what the verdict allows.
LEMMA EvaluateKeeps == ASSUME IndInv, NEW verdict \in Verdict, Evaluate(verdict) PROVE IndInv'
  <1>1. /\ c.pc = "evaluate"
        /\ UNCHANGED <<mode, keys, sent, relayed, server, emitted, s, stdout>>
    BY DEF Evaluate, serverSide
  <1>2. /\ c \in ClientRecord /\ c.n \in Nat /\ c.n \in 1 .. c.n /\ Len(c.verdicts) = c.n
        /\ c.verdicts \in Seq({"none"} \cup Verdict) /\ sent[c.n] \in ClientFrame
    BY <1>1, AtFrame
  <1>3. PICK verdicts, pc, params :
          /\ verdicts = [c.verdicts EXCEPT ![c.n] = verdict]
          /\ pc = IF verdict = "deny" \/ (verdict = "rewrite" /\ ~sent[c.n].framed)
                    THEN "answer" ELSE "forward"
          /\ params = IF verdict = "rewrite" THEN "rewritten" ELSE c.params
    OBVIOUS
  <1>4. /\ verdicts \in Seq({"none"} \cup Verdict) /\ Len(verdicts) = c.n
        /\ verdicts[c.n] = verdict
        /\ \A m \in 1 .. c.n : m # c.n => verdicts[m] = c.verdicts[m]
    BY <1>2, <1>3
  <1>5. pc \in {"answer", "forward"} /\ params \in Params
    <2>1. pc \in {"answer", "forward"}
      BY <1>3, ZenonT(60)
    <2>2. c.params \in Params /\ params = IF verdict = "rewrite" THEN "rewritten" ELSE c.params
      BY <1>2, <1>3 DEF ClientRecord
    <2>3. params \in Params
      BY <2>2 DEF Params
    <2> QED
      BY <2>1, <2>3
  <1>6. c' = [c EXCEPT !.verdicts = verdicts, !.pc = pc, !.params = params]
    <2>1. c' = [c EXCEPT !.verdicts[c.n] = verdict,
                         !.pc = IF verdict = "deny" \/ (verdict = "rewrite" /\ ~sent[c.n].framed)
                                THEN "answer" ELSE "forward",
                         !.params = IF verdict = "rewrite" THEN "rewritten" ELSE @]
      BY DEF Evaluate
    <2> QED
      BY <1>2, <1>3, <2>1 DEF ClientRecord
  <1>7. /\ c' \in ClientRecord /\ c'.pc = pc /\ c'.n = c.n /\ c'.params = params
        /\ c'.verdicts = verdicts
    BY <1>2, <1>4, <1>5, <1>6 DEF ClientRecord
  <1>8. Position'
    BY <1>1, <1>2, <1>4, <1>7 DEF IndInv, Position
  <1>9. Carried'
    <2>1. Inspected(sent[c.n]) /\ c.params = sent[c.n].params
      BY <1>1 DEF IndInv, Carried
    <2>2. sent[c.n].shape # "broken"
      BY <1>2, <2>1, CallsAreInspected
    <2>3. pc = "forward" => verdict \in {"forward", "rewrite"}
      BY <1>3 DEF Verdict
    <2>4. pc = "forward" => MayPass(c.n, c.params)'
      BY <1>1, <1>3, <1>4, <1>7, <2>1, <2>2, <2>3 DEF MayPass
    <2>5. Inspected(sent'[c'.n])
      BY <1>1, <1>7, <2>1
    <2> QED
      BY <1>5, <1>7, <2>4, <2>5 DEF Carried, Inspected, peek_envelope, classify_fields
  <1>10. ~Passed(c.n)
    BY <1>1, <1>2 DEF IndInv, OneFate, Settled
  <1>11. \A m \in 1 .. c.n : Passed(m) => c'.verdicts[m] = c.verdicts[m]
    BY <1>4, <1>7, <1>10
  <1>12. \A m \in 1 .. c'.n : IF m <= c.n THEN Settled(m)' <=> Settled(m) ELSE ~Settled(m)'
    BY <1>1, <1>2, <1>5, <1>7 DEF Settled
  <1>13. c.n <= c'.n
    BY <1>2, <1>7
  <1> QED
    BY <1>1, <1>7, <1>8, <1>9, <1>11, <1>12, <1>13, ClientMoves

\* At its end the task is through with what it has read.
LEMMA ClientEndsKeeps == ASSUME IndInv, ClientEnds PROVE IndInv'
  <1>1. /\ c.pc = "read" /\ c' = [c EXCEPT !.pc = "done"]
        /\ UNCHANGED <<mode, keys, sent, relayed, server, emitted, s, stdout>>
    BY DEF ClientEnds, serverSide
  <1>2. c \in ClientRecord /\ c.n \in Nat
    BY AtFrame
  <1>3. /\ c' \in ClientRecord /\ c'.pc = "done" /\ c'.n = c.n /\ c'.params = c.params
        /\ c'.verdicts = c.verdicts
    BY <1>1, <1>2 DEF ClientRecord
  <1>4. Position' /\ Carried'
    BY <1>1, <1>3 DEF IndInv, Position, Carried
  <1>5. \A m \in 1 .. c'.n : IF m <= c.n THEN Settled(m)' <=> Settled(m) ELSE ~Settled(m)'
    BY <1>1, <1>2, <1>3 DEF Settled
  <1> QED
    BY <1>1, <1>2, <1>3, <1>4, <1>5, ClientMoves

\* A frame that goes on to the server is the last line there, and one that may pass.
LEMMA ForwardToServerKeeps == ASSUME IndInv, ForwardToServer PROVE IndInv'
  <1>1. /\ c.pc = "forward"
        /\ UNCHANGED <<mode, keys, sent, server, emitted, s, stdout>>
    BY DEF ForwardToServer, serverSide
  <1>2. /\ c \in ClientRecord /\ c.n \in Nat /\ c.n \in 1 .. c.n /\ c.params \in Params
        /\ relayed \in Seq(Line) /\ Len(relayed) \in Nat /\ DOMAIN relayed = 1 .. Len(relayed)
    BY <1>1, AtFrame DEF IndInv, TypeOK, ClientRecord
  <1>3. CASE server.up
    <2> DEFINE line == [n |-> c.n, params |-> c.params]
    <2>1. relayed' = Append(relayed, line) /\ c' = [c EXCEPT !.pc = "read"]
      BY <1>3 DEF ForwardToServer
    <2>2. line \in Line /\ line.n = c.n /\ line.params = c.params
      BY <1>2 DEF Line
    <2> HIDE DEF line
    <2>3. /\ relayed' \in Seq(Line) /\ Len(relayed') = Len(relayed) + 1
          /\ DOMAIN relayed' = (DOMAIN relayed) \cup {Len(relayed) + 1}
          /\ \A i \in DOMAIN relayed : relayed'[i] = relayed[i]
          /\ relayed'[Len(relayed) + 1] = line
      BY <1>2, <2>1, <2>2
    <2>4. /\ c' \in ClientRecord /\ c'.pc = "read" /\ c'.n = c.n /\ c'.params = c.params
          /\ c'.verdicts = c.verdicts
      BY <1>2, <2>1 DEF ClientRecord
    <2>5. MayPass(c.n, c.params)
      BY <1>1 DEF IndInv, Carried
    <2>6. ~Passed(c.n) /\ ~Answered(c.n)
      BY <1>1, <1>2 DEF IndInv, OneFate, Settled
    <2>7. \A i \in DOMAIN relayed : relayed[i].n \in 1 .. c.n /\ relayed[i].n < c.n
      <3>1. \A i \in DOMAIN relayed : relayed[i].n \in 1 .. c.n /\ relayed[i].n # c.n
        BY <2>6 DEF IndInv, LinesPassed, Passed
      <3> QED
        BY <1>2, <3>1
    <2>8. TypeOK'
      BY <1>1, <2>3, <2>4 DEF IndInv, TypeOK
    <2>9. Position' /\ Carried'
      BY <1>1, <2>4 DEF IndInv, Position, Carried
    <2>10. \A n, params : MayPass(n, params)' <=> MayPass(n, params)
      BY <1>1, <2>4 DEF MayPass
    <2>11. LinesPassed'
      <3>1. ASSUME NEW i \in DOMAIN relayed'
            PROVE  (relayed[i].n \in 1 .. c.n /\ MayPass(relayed[i].n, relayed[i].params))'
        <4>1. PICK n, params : n = relayed'[i].n /\ params = relayed'[i].params
          OBVIOUS
        <4>2. n \in 1 .. c.n /\ MayPass(n, params)
          <5>1. CASE i \in DOMAIN relayed
            BY <2>3, <4>1, <5>1 DEF IndInv, LinesPassed
          <5>2. CASE i = Len(relayed) + 1
            BY <1>2, <2>2, <2>3, <2>5, <4>1, <5>2
          <5> QED
            BY <2>3, <5>1, <5>2
        <4>3. MayPass(n, params)'
          BY <2>10, <4>2
        <4> QED
          BY <2>4, <4>1, <4>2, <4>3 DEF MayPass
      <3>2. ASSUME NEW i \in DOMAIN relayed', NEW j \in DOMAIN relayed', i < j
            PROVE  relayed'[i].n < relayed'[j].n
        <4>1. i \in DOMAIN relayed
          BY <1>2, <2>3, <3>2
        <4>2. CASE j \in DOMAIN relayed
          BY <2>3, <3>2, <4>1, <4>2 DEF IndInv, LinesPassed
        <4>3. CASE j = Len(relayed) + 1
          BY <2>2, <2>3, <2>7, <4>1, <4>3
        <4> QED
          BY <2>3, <4>2, <4>3
      <3> QED
        BY <3>1, <3>2 DEF LinesPassed, MayPass
    <2>12. \A n : Passed(n)' <=> Passed(n) \/ n = c.n
      BY <2>2, <2>3 DEF Passed
    <2>13. c'.n \in Nat /\ c.n <= c'.n /\ Chunks("answer")' = Chunks("answer")
      BY <1>1, <1>2, <2>4 DEF Chunks
    <2>14. AnswersGiven' /\ (\A n : Answered(n)' <=> Answered(n))
      BY <1>1, <2>13, AnswersKept
    <2>15. \A n \in 1 .. c.n : Settled(n)' /\ (n # c.n => Settled(n))
      BY <1>1, <1>2, <2>4 DEF Settled
    <2>16. OneFate'
      BY <2>4, <2>6, <2>12, <2>14, <2>15 DEF IndInv, OneFate
    <2>17. RepliesEmitted'
      BY <1>1, <1>2, <2>3, RepliesKept
    <2>18. FramesGiven'
      BY <1>1 DEF IndInv, FramesGiven, Chunks, Given
    <2> QED
      BY <2>8, <2>9, <2>11, <2>14, <2>16, <2>17, <2>18 DEF IndInv
  <1>4. CASE ~server.up
    <2>1. c' = [c EXCEPT !.pc = "failed"] /\ relayed' = relayed
      BY <1>4 DEF ForwardToServer
    <2>2. /\ c' \in ClientRecord /\ c'.pc = "failed" /\ c'.n = c.n /\ c'.params = c.params
          /\ c'.verdicts = c.verdicts
      BY <1>2, <2>1 DEF ClientRecord
    <2>3. Position' /\ Carried'
      BY <1>1, <2>2 DEF IndInv, Position, Carried
    <2>4. c.n <= c'.n /\ \A m \in 1 .. c'.n : IF m <= c.n THEN Settled(m)' <=> Settled(m) ELSE ~Settled(m)'
      BY <1>1, <1>2, <2>2 DEF Settled
    <2> QED
      BY <1>1, <2>1, <2>2, <2>3, <2>4, ClientMoves
  <1> QED
    BY <1>3, <1>4

\* The wrapper answers a frame once, under an id that is not missing.
LEMMA AnswerClientKeeps == ASSUME IndInv, AnswerClient PROVE IndInv'
  <1>1. /\ c.pc = "answer" /\ c' = [c EXCEPT !.pc = "delimit"]
        /\ UNCHANGED <<mode, keys, sent, relayed, server, emitted, s>>
    BY DEF AnswerClient, serverSide
  <1>2. /\ c \in ClientRecord /\ c.n \in Nat /\ c.n \in 1 .. c.n /\ sent[c.n] \in ClientFrame
        /\ stdout \in Seq(Chunk)
    BY <1>1, AtFrame DEF IndInv, TypeOK
  <1>3. PICK id : id = IF peek_envelope(sent[c.n]) = "error" THEN Null ELSE sent[c.n].id
    OBVIOUS
  <1>4. id \in {sent[c.n].id, Null} \ {NoId} /\ id \in Id
    <2>1. sent[c.n].id \in Id /\ Null \in Id /\ Null # NoId
      BY <1>2 DEF Id, Null, NoId
    <2>2. Inspected(sent[c.n]) \/ peek_envelope(sent[c.n]) = "error"
      BY <1>1 DEF IndInv, Carried
    <2>3. Inspected(sent[c.n]) => sent[c.n].id # NoId
      BY <1>2, CallsAreInspected
    <2> QED
      BY <1>3, <2>1, <2>2, <2>3
  <1>5. PICK answer : answer = [kind |-> "answer", n |-> c.n, id |-> id]
    OBVIOUS
  <1>6. answer \in Chunk /\ answer.kind = "answer" /\ answer.n = c.n /\ answer.id = id
    BY <1>2, <1>4, <1>5 DEF Chunk, Answer
  <1>7. stdout' = Append(stdout, answer)
    BY <1>3, <1>5 DEF AnswerClient
  <1>8. PICK last : last = Len(stdout) + 1
    OBVIOUS
  <1>9. /\ stdout' \in Seq(Chunk) /\ Len(stdout) \in Nat
        /\ \A i \in 1 .. Len(stdout) : stdout'[i] = stdout[i]
        /\ stdout'[last] = answer
        /\ Chunks("answer") \subseteq 1 .. Len(stdout)
        /\ Chunks("answer")' = Chunks("answer") \cup {last}
    BY <1>2, <1>6, <1>7, <1>8, Written
  <1>10. Chunks("frame") \subseteq 1 .. Len(stdout) /\ Chunks("frame")' = Chunks("frame")
    <2>1. "answer" # "frame"
      OBVIOUS
    <2> QED
      BY <1>2, <1>6, <1>7, <2>1, Written
  <1>11. /\ c' \in ClientRecord /\ c'.pc = "delimit" /\ c'.n = c.n /\ c'.params = c.params
         /\ c'.verdicts = c.verdicts
    BY <1>1, <1>2 DEF ClientRecord
  <1>12. ~Passed(c.n) /\ ~Answered(c.n)
    BY <1>1, <1>2 DEF IndInv, OneFate, Settled
  <1>13. TypeOK'
    BY <1>1, <1>9, <1>11 DEF IndInv, TypeOK
  <1>14. Position' /\ Carried'
    BY <1>1, <1>11 DEF IndInv, Position, Carried
  <1>15. c'.n \in Nat /\ c.n <= c'.n
    BY <1>2, <1>11
  <1>16. LinesPassed' /\ (\A n : Passed(n)' <=> Passed(n))
    BY <1>1, <1>11, <1>15, LinesKept
  <1>17. \A i \in Chunks("answer") : stdout[i].n \in 1 .. c.n /\ stdout[i].n < c.n
    <2>1. \A i \in Chunks("answer") : stdout[i].n \in 1 .. c.n /\ stdout[i].n # c.n
      BY <1>12 DEF IndInv, AnswersGiven, Answered
    <2> QED
      BY <1>2, <2>1
  <1>18. AnswersGiven'
    <2>1. ASSUME NEW i \in Chunks("answer")'
          PROVE  stdout'[i].n \in 1 .. c'.n /\ stdout'[i].id \in {sent'[stdout'[i].n].id, Null} \ {NoId}
      <3>1. CASE i \in Chunks("answer")
        <4>1. stdout'[i] = stdout[i]
          BY <1>9, <3>1
        <4> QED
          BY <1>1, <1>11, <3>1, <4>1 DEF IndInv, AnswersGiven
      <3>2. CASE i = last
        BY <1>1, <1>2, <1>4, <1>6, <1>9, <1>11, <3>2
      <3> QED
        BY <1>9, <3>1, <3>2
    <2>2. ASSUME NEW i \in Chunks("answer")', NEW j \in Chunks("answer")', i < j
          PROVE  stdout'[i].n < stdout'[j].n
      <3>1. i \in Chunks("answer") /\ stdout'[i] = stdout[i]
        BY <1>8, <1>9, <2>2
      <3>2. CASE j \in Chunks("answer")
        <4>1. stdout'[j] = stdout[j]
          BY <1>9, <3>2
        <4> QED
          BY <2>2, <3>1, <3>2, <4>1 DEF IndInv, AnswersGiven
      <3>3. CASE j = last
        BY <1>6, <1>9, <1>17, <3>1, <3>3
      <3> QED
        BY <1>9, <3>2, <3>3
    <2> QED
      BY <2>1, <2>2 DEF AnswersGiven
  <1>19. \A n : Answered(n)' <=> Answered(n) \/ n = c.n
    BY <1>6, <1>9 DEF Answered
  <1>20. \A n \in 1 .. c.n : Settled(n)' /\ (n # c.n => Settled(n))
    BY <1>1, <1>2, <1>11 DEF Settled
  <1>21. OneFate'
    BY <1>11, <1>12, <1>16, <1>19, <1>20 DEF IndInv, OneFate
  <1>22. RepliesEmitted'
    BY <1>1 DEF IndInv, RepliesEmitted
  <1>23. FramesGiven'
    <2>1. Len(emitted) \in Nat
      BY DEF IndInv, TypeOK
    <2>2. Len(emitted') = Len(emitted) /\ Len(emitted) <= Len(emitted')
      BY <1>1, <2>1
    <2> QED
      BY <1>1, <1>9, <1>10, <2>1, <2>2, FramesKept
  <1> QED
    BY <1>13, <1>14, <1>16, <1>18, <1>21, <1>22, <1>23 DEF IndInv

\* A delimiter is neither an answer nor a frame.
LEMMA Delimited ==
  ASSUME IndInv, stdout' = Append(stdout, NEWLINE)
  PROVE  /\ stdout' \in Seq(Chunk)
         /\ Chunks("answer")' = Chunks("answer") /\ Chunks("frame")' = Chunks("frame")
         /\ \A i \in Chunks("answer") \cup Chunks("frame") : stdout'[i] = stdout[i]
  <1>1. stdout \in Seq(Chunk) /\ NEWLINE \in Chunk
    BY DEF IndInv, TypeOK, Chunk
  <1>2. NEWLINE.kind # "answer" /\ NEWLINE.kind # "frame"
    BY DEF NEWLINE
  <1>3. /\ stdout' \in Seq(Chunk) /\ Chunks("answer")' = Chunks("answer")
        /\ Chunks("answer") \subseteq 1 .. Len(stdout)
        /\ \A i \in 1 .. Len(stdout) : stdout'[i] = stdout[i]
    BY <1>1, <1>2, Written
  <1>4. Chunks("frame")' = Chunks("frame") /\ Chunks("frame") \subseteq 1 .. Len(stdout)
    BY <1>1, <1>2, Written
  <1> QED
    BY <1>3, <1>4

\* The delimiter of an answer ends the frame.
LEMMA DelimitAnswerKeeps == ASSUME IndInv, DelimitAnswer PROVE IndInv'
  <1>1. /\ c.pc = "delimit" /\ c' = [c EXCEPT !.pc = "read"]
        /\ UNCHANGED <<mode, keys, sent, relayed, server, emitted, s>>
        /\ stdout' = Append(stdout, NEWLINE)
    BY DEF DelimitAnswer, serverSide
  <1>2. c \in ClientRecord /\ c.n \in Nat
    BY AtFrame
  <1>3. /\ c' \in ClientRecord /\ c'.pc = "read" /\ c'.n = c.n /\ c'.params = c.params
        /\ c'.verdicts = c.verdicts
    BY <1>1, <1>2 DEF ClientRecord
  <1>4. /\ stdout' \in Seq(Chunk)
        /\ Chunks("answer")' = Chunks("answer") /\ Chunks("frame")' = Chunks("frame")
        /\ \A i \in Chunks("answer") : stdout'[i] = stdout[i]
        /\ \A i \in Chunks("frame") : stdout'[i] = stdout[i]
    BY <1>1, Delimited
  <1>5. TypeOK'
    BY <1>1, <1>3, <1>4 DEF IndInv, TypeOK
  <1>6. Position' /\ Carried'
    BY <1>1, <1>3 DEF IndInv, Position, Carried
  <1>7. c'.n \in Nat /\ c.n <= c'.n
    BY <1>2, <1>3
  <1>8. LinesPassed' /\ (\A n : Passed(n)' <=> Passed(n))
    BY <1>1, <1>3, <1>7, LinesKept
  <1>9. AnswersGiven' /\ (\A n : Answered(n)' <=> Answered(n))
    BY <1>1, <1>4, <1>7, AnswersKept
  <1>10. \A n : Settled(n)' <=> Settled(n)
    BY <1>1, <1>3 DEF Settled
  <1>11. OneFate'
    BY <1>3, <1>8, <1>9, <1>10 DEF IndInv, OneFate
  <1>12. RepliesEmitted'
    BY <1>1 DEF IndInv, RepliesEmitted
  <1>13. FramesGiven'
    <2>1. Len(emitted) \in Nat
      BY DEF IndInv, TypeOK
    <2>2. Len(emitted') = Len(emitted) /\ Len(emitted) <= Len(emitted')
      BY <1>1, <2>1
    <2> QED
      BY <1>1, <1>4, <2>1, <2>2, FramesKept
  <1> QED
    BY <1>5, <1>6, <1>8, <1>9, <1>11, <1>12, <1>13 DEF IndInv

-----------------------------------------------------------------------------
(* The server and the task that reads it. *)

\* A step that leaves the client's side alone keeps what is said about it.
LEMMA ClientSideKept ==
  ASSUME IndInv, UNCHANGED <<mode, sent, c, relayed>>, Chunks("answer")' = Chunks("answer"),
         \A i \in Chunks("answer") : stdout'[i] = stdout[i]
  PROVE  Position' /\ Carried' /\ LinesPassed' /\ AnswersGiven' /\ OneFate'
  <1>1. c'.n \in Nat /\ c.n <= c'.n
    BY AtFrame
  <1>2. Position' /\ Carried'
    BY DEF IndInv, Position, Carried, MayPass
  <1>3. LinesPassed' /\ (\A n : Passed(n)' <=> Passed(n))
    BY <1>1, LinesKept
  <1>4. AnswersGiven' /\ (\A n : Answered(n)' <=> Answered(n))
    BY <1>1, AnswersKept
  <1>5. \A n : Settled(n)' <=> Settled(n)
    BY DEF Settled
  <1>6. OneFate'
    BY <1>3, <1>4, <1>5 DEF IndInv, OneFate
  <1> QED
    BY <1>2, <1>3, <1>4, <1>6

\* A frame of the server is a reply to the line it has just read, or none at all.
LEMMA EmissionKeeps ==
  ASSUME IndInv, UNCHANGED <<mode, keys, sent, c, relayed, s, stdout>>,
         server' \in [up : BOOLEAN, read : Nat],
         server'.read <= Len(relayed), server.read <= server'.read,
         NEW emission \in Emission, emitted' = Append(emitted, emission),
         emission.n # 0 => server'.read = server.read + 1 /\ emission.n = relayed[server'.read].n
  PROVE  IndInv'
  <1>1. /\ emitted \in Seq(Emission) /\ relayed \in Seq(Line) /\ Len(relayed) \in Nat
        /\ server.read \in Nat /\ server'.read \in Nat /\ DOMAIN relayed = 1 .. Len(relayed)
    BY DEF IndInv, TypeOK
  <1>2. PICK last : last = Len(emitted) + 1
    OBVIOUS
  <1>3. /\ emitted' \in Seq(Emission) /\ Len(emitted) \in Nat /\ Len(emitted') = Len(emitted) + 1
        /\ DOMAIN emitted = 1 .. Len(emitted) /\ DOMAIN emitted' = (DOMAIN emitted) \cup {last}
        /\ \A k \in DOMAIN emitted : emitted'[k] = emitted[k]
        /\ emitted'[last] = emission /\ last \notin DOMAIN emitted
    BY <1>1, <1>2
  <1>4. TypeOK'
    BY <1>3 DEF IndInv, TypeOK
  <1>5. Chunks("answer")' = Chunks("answer") /\ Chunks("frame")' = Chunks("frame")
    BY DEF Chunks
  <1>6. Position' /\ Carried' /\ LinesPassed' /\ AnswersGiven' /\ OneFate'
    BY <1>5, ClientSideKept
  <1>7. \A k \in DOMAIN emitted :
           emitted[k].n # 0 => \E j \in 1 .. server.read : relayed[j].n = emitted[k].n
    BY DEF IndInv, RepliesEmitted
  <1>8. ASSUME NEW k \in DOMAIN emitted, emission.n # 0 PROVE emitted[k].n # emission.n
    <2>1. CASE emitted[k].n = 0
      BY <1>8, <2>1
    <2>2. CASE emitted[k].n # 0
      <3>1. PICK j \in 1 .. server.read : relayed[j].n = emitted[k].n
        BY <1>7, <2>2
      <3>2. /\ j \in DOMAIN relayed /\ server'.read \in DOMAIN relayed /\ j < server'.read
            /\ emission.n = relayed[server'.read].n
        BY <1>1, <1>8
      <3>3. relayed[j].n < relayed[server'.read].n
        BY <3>2 DEF IndInv, LinesPassed
      <3>4. relayed[j].n \in Nat
        <4>1. relayed[j] \in Line
          BY <1>1, <3>2
        <4> QED
          BY <4>1 DEF Line
      <3> QED
        BY <3>1, <3>2, <3>3, <3>4
    <2> QED
      BY <2>1, <2>2
  <1>9. RepliesEmitted'
    <2>1. ASSUME NEW k \in DOMAIN emitted', emitted'[k].n # 0
          PROVE  \E j \in 1 .. server'.read : relayed[j].n = emitted'[k].n
      <3>1. CASE k \in DOMAIN emitted
        <4>1. PICK j \in 1 .. server.read : relayed[j].n = emitted[k].n
          BY <1>3, <1>7, <2>1, <3>1
        <4>2. j \in 1 .. server'.read
          BY <1>1
        <4> QED
          BY <1>3, <3>1, <4>1, <4>2
      <3>2. CASE k = last
        BY <1>1, <1>3, <2>1, <3>2
      <3> QED
        BY <1>3, <3>1, <3>2
    <2>2. ASSUME NEW k \in DOMAIN emitted', NEW l \in DOMAIN emitted',
                 emitted'[k].n = emitted'[l].n, emitted'[k].n # 0
          PROVE  k = l
      <3>1. CASE k \in DOMAIN emitted /\ l \in DOMAIN emitted
        BY <1>3, <2>2, <3>1 DEF IndInv, RepliesEmitted
      <3>2. CASE k = last /\ l \in DOMAIN emitted
        BY <1>3, <1>8, <2>2, <3>2
      <3>3. CASE l = last /\ k \in DOMAIN emitted
        BY <1>3, <1>8, <2>2, <3>3
      <3> QED
        BY <1>3, <3>1, <3>2, <3>3
    <2> QED
      BY <2>1, <2>2 DEF RepliesEmitted
  <1>10. Len(emitted') \in Nat /\ Len(emitted) <= Len(emitted')
    BY <1>3
  <1>11. FramesGiven'
    BY <1>3, <1>5, <1>10, FramesKept
  <1> QED
    BY <1>4, <1>6, <1>9, <1>11 DEF IndInv

\* The server reads a line, and may answer a request.
LEMMA ServerReadsKeeps == ASSUME IndInv, ServerReads PROVE IndInv'
  <1>1. /\ server.read < Len(relayed) /\ server' = [server EXCEPT !.read = @ + 1]
        /\ UNCHANGED <<mode, keys, sent, c, relayed, s, stdout>>
    BY DEF ServerReads, clientSide
  <1>2. /\ server \in [up : BOOLEAN, read : Nat] /\ server.read \in Nat /\ Len(relayed) \in Nat
        /\ relayed \in Seq(Line)
    BY DEF IndInv, TypeOK
  <1>3. PICK next : next = server.read + 1
    OBVIOUS
  <1>4. next \in Nat /\ next \in 1 .. Len(relayed) /\ relayed[next].n \in Nat
    <2>1. next \in Nat /\ next \in 1 .. Len(relayed)
      BY <1>1, <1>2, <1>3
    <2>2. relayed[next] \in Line
      BY <1>2, <2>1
    <2> QED
      BY <2>1, <2>2 DEF Line
  <1>5. /\ server' \in [up : BOOLEAN, read : Nat] /\ server'.read = next
        /\ server'.read <= Len(relayed) /\ server.read <= server'.read
    BY <1>1, <1>2, <1>3, <1>4
  <1>6. CASE UNCHANGED emitted
    <2>1. TypeOK'
      BY <1>1, <1>5, <1>6 DEF IndInv, TypeOK
    <2>2. Chunks("answer")' = Chunks("answer") /\ Chunks("frame")' = Chunks("frame")
      BY <1>1 DEF Chunks
    <2>3. Position' /\ Carried' /\ LinesPassed' /\ AnswersGiven' /\ OneFate'
      BY <1>1, <2>2, ClientSideKept
    <2>4. \A j \in 1 .. server.read : j \in 1 .. server'.read
      BY <1>2, <1>5
    <2>5. RepliesEmitted'
      BY <1>1, <1>5, <1>6, <2>4 DEF IndInv, RepliesEmitted
    <2>6. FramesGiven'
      BY <1>1, <1>6 DEF IndInv, FramesGiven, Chunks, Given
    <2> QED
      BY <2>1, <2>3, <2>5, <2>6 DEF IndInv
  <1>7. CASE \E body \in ServerBody :
               emitted' = Append(emitted, [n |-> relayed[server.read + 1].n, body |-> body])
    <2>1. PICK body \in ServerBody :
                 emitted' = Append(emitted, [n |-> relayed[server.read + 1].n, body |-> body])
      BY <1>7
    <2>2. PICK emission : emission = [n |-> relayed[next].n, body |-> body]
      OBVIOUS
    <2>3. emission \in Emission /\ emission.n = relayed[next].n
      BY <1>4, <2>2 DEF Emission
    <2>4. emitted' = Append(emitted, emission)
      BY <1>3, <2>1, <2>2
    <2> QED
      BY <1>1, <1>3, <1>5, <2>3, <2>4, EmissionKeeps
  <1> QED
    BY <1>6, <1>7 DEF ServerReads

\* What the server says on its own is no reply.
LEMMA ServerNotifiesKeeps ==
  ASSUME IndInv, NEW body \in ServerBody, ServerNotifies(body) PROVE IndInv'
  <1>1. PICK emission : emission = [n |-> 0, body |-> body]
    OBVIOUS
  <1>2. emission \in Emission /\ emission.n = 0
    BY <1>1 DEF Emission
  <1>3. /\ emitted' = Append(emitted, emission)
        /\ UNCHANGED <<mode, keys, sent, c, relayed, server, s, stdout>>
    BY <1>1 DEF ServerNotifies, clientSide
  <1>4. /\ server' \in [up : BOOLEAN, read : Nat] /\ server'.read <= Len(relayed)
        /\ server.read <= server'.read
    BY <1>3 DEF IndInv, TypeOK, RepliesEmitted
  <1> QED
    BY <1>2, <1>3, <1>4, EmissionKeeps

\* A step that moves no frame: only the two processes' ends change.
LEMMA QuietKeeps ==
  ASSUME IndInv, UNCHANGED <<mode, keys, sent, c, relayed, emitted, s, stdout>>,
         server' \in [up : BOOLEAN, read : Nat], server'.read = server.read
  PROVE  IndInv'
  <1>1. TypeOK'
    BY DEF IndInv, TypeOK
  <1>2. Chunks("answer")' = Chunks("answer")
    BY DEF Chunks
  <1>3. Position' /\ Carried' /\ LinesPassed' /\ AnswersGiven' /\ OneFate'
    BY <1>2, ClientSideKept
  <1>4. RepliesEmitted'
    BY DEF IndInv, RepliesEmitted
  <1>5. FramesGiven'
    BY DEF IndInv, FramesGiven, Chunks, Given
  <1> QED
    BY <1>1, <1>3, <1>4, <1>5 DEF IndInv

\* The other task takes the server's next frame, or ends.
LEMMA ReadServerKeeps == ASSUME IndInv, ReadServer \/ ServerEnds PROVE IndInv'
  <1>1. UNCHANGED <<mode, keys, sent, c, relayed, server, emitted, stdout>>
    BY DEF ReadServer, ServerEnds, clientSide, serverSide
  <1>2. s \in ServerRecord /\ s.n \in Nat /\ Len(emitted) \in Nat /\ s.n <= Len(emitted) /\ s.pc = "read"
    BY DEF IndInv, TypeOK, ServerRecord, FramesGiven, ReadServer, ServerEnds
  <1>3. s' \in ServerRecord /\ s'.n <= Len(emitted) /\ (s'.pc = "forward" => s'.n > 0) /\ Given' = Given
    <2>1. CASE ReadServer
      <3>1. PICK next : next = s.n + 1
        OBVIOUS
      <3>2. next \in Nat /\ next <= Len(emitted) /\ next > 0 /\ next - 1 = s.n
        BY <1>2, <2>1, <3>1 DEF ReadServer
      <3>3. s' = [pc |-> "forward", n |-> next]
        BY <2>1, <3>1 DEF ReadServer
      <3> QED
        BY <1>2, <3>2, <3>3 DEF ServerRecord, Given
    <2>2. CASE ServerEnds
      <3>1. s' = [s EXCEPT !.pc = "done"]
        BY <2>2 DEF ServerEnds
      <3> QED
        BY <1>2, <3>1 DEF ServerRecord, Given
    <2> QED
      BY <2>1, <2>2
  <1>4. TypeOK'
    BY <1>1, <1>3 DEF IndInv, TypeOK
  <1>5. Chunks("answer")' = Chunks("answer") /\ Chunks("frame")' = Chunks("frame")
    BY <1>1 DEF Chunks
  <1>6. Position' /\ Carried' /\ LinesPassed' /\ AnswersGiven' /\ OneFate'
    BY <1>1, <1>5, ClientSideKept
  <1>7. RepliesEmitted'
    BY <1>1 DEF IndInv, RepliesEmitted
  <1>8. FramesGiven'
    BY <1>1, <1>3, <1>5 DEF IndInv, FramesGiven
  <1> QED
    BY <1>4, <1>6, <1>7, <1>8 DEF IndInv

\* What leaves for the client is the frame sanitized with the keys in force.
LEMMA SanitizedIsFrame ==
  ASSUME keys \in RedactKeys, NEW body \in ServerBody
  PROVE  /\ SanitizedBody(body) = sanitize_server_frame(keys, body)
         /\ SanitizedBody(body) \in SanitizedFrame
  <1> DEFINE mine(t) == t \in Sanitized /\ t[1] = keys /\ t[2] = body
  <1>1. <<keys, body, sanitize_server_frame(keys, body)>> \in Sanitized
    BY DEF Sanitized
  <1>2. \E t \in Sanitized : t[1] = keys /\ t[2] = body
    BY <1>1
  <1>3. PICK t : t = CHOOSE u \in Sanitized : u[1] = keys /\ u[2] = body
    OBVIOUS
  <1>4. t \in Sanitized /\ t[1] = keys /\ t[2] = body
    BY <1>2, <1>3
  <1>5. t[3] = sanitize_server_frame(keys, body)
    BY <1>4 DEF Sanitized
  <1>6. SanitizedBody(body) = t[3]
    BY <1>3 DEF SanitizedBody
  <1> QED
    BY <1>4, <1>5, <1>6 DEF SanitizedFrame

\* The frame that was taken is written after the ones before it.
LEMMA ForwardToClientKeeps == ASSUME IndInv, ForwardToClient PROVE IndInv'
  <1>1. /\ s.pc = "forward" /\ s' = [s EXCEPT !.pc = "delimit"]
        /\ UNCHANGED <<mode, keys, sent, c, relayed, server, emitted>>
    BY DEF ForwardToClient, clientSide, serverSide
  <1>2. /\ s \in ServerRecord /\ s.n \in Nat /\ stdout \in Seq(Chunk) /\ keys \in RedactKeys
        /\ emitted \in Seq(Emission) /\ Len(emitted) \in Nat /\ s.n <= Len(emitted) /\ s.n > 0
    BY <1>1 DEF IndInv, TypeOK, ServerRecord, FramesGiven
  <1>3. /\ s.n \in DOMAIN emitted /\ emitted[s.n] \in Emission
        /\ emitted[s.n].n \in Nat /\ emitted[s.n].body \in ServerBody
    <2>1. s.n \in DOMAIN emitted /\ emitted[s.n] \in Emission
      BY <1>2
    <2> QED
      BY <2>1 DEF Emission
  <1>4. PICK body : body = SanitizedBody(emitted[s.n].body)
    OBVIOUS
  <1>5. body = sanitize_server_frame(keys, emitted[s.n].body) /\ body \in SanitizedFrame
    BY <1>2, <1>3, <1>4, SanitizedIsFrame
  <1>6. PICK frame : frame = [kind |-> "frame", n |-> emitted[s.n].n, body |-> body]
    OBVIOUS
  <1>7. frame \in Chunk /\ frame.kind = "frame" /\ frame.n = emitted[s.n].n /\ frame.body = body
    BY <1>3, <1>5, <1>6 DEF Chunk, Frame
  <1>8. stdout' = Append(stdout, frame)
    BY <1>4, <1>6 DEF ForwardToClient
  <1>9. PICK last : last = Len(stdout) + 1
    OBVIOUS
  <1>10. /\ stdout' \in Seq(Chunk) /\ Len(stdout) \in Nat
         /\ \A i \in 1 .. Len(stdout) : stdout'[i] = stdout[i]
         /\ stdout'[last] = frame
         /\ Chunks("frame") \subseteq 1 .. Len(stdout)
         /\ Chunks("frame")' = Chunks("frame") \cup {last}
    BY <1>2, <1>7, <1>8, <1>9, Written
  <1>11. Chunks("answer") \subseteq 1 .. Len(stdout) /\ Chunks("answer")' = Chunks("answer")
    <2>1. "answer" # "frame"
      OBVIOUS
    <2> QED
      BY <1>2, <1>7, <1>8, <2>1, Written
  <1>12. s' \in ServerRecord /\ s'.pc = "delimit" /\ s'.n = s.n
    BY <1>1, <1>2 DEF ServerRecord
  <1>13. TypeOK'
    BY <1>1, <1>10, <1>12 DEF IndInv, TypeOK
  <1>14. Position' /\ Carried' /\ LinesPassed' /\ AnswersGiven' /\ OneFate'
    BY <1>1, <1>10, <1>11, ClientSideKept
  <1>15. RepliesEmitted'
    BY <1>1 DEF IndInv, RepliesEmitted
  <1>16. Given = s.n - 1 /\ Given' = s.n
    BY <1>1, <1>12 DEF Given
  <1>17. \A i \in Chunks("frame") : \E k \in 1 .. Given :
            /\ stdout[i].n = emitted[k].n
            /\ stdout[i].body = sanitize_server_frame(keys, emitted[k].body)
    BY DEF IndInv, FramesGiven
  <1>18. ASSUME NEW i \in Chunks("frame"), frame.n # 0 PROVE stdout[i].n # frame.n
    <2>1. PICK k \in 1 .. Given : stdout[i].n = emitted[k].n
      BY <1>17
    <2>2. k \in DOMAIN emitted /\ k # s.n
      BY <1>2, <1>16
    <2> QED
      BY <1>3, <1>7, <1>18, <2>1, <2>2 DEF IndInv, RepliesEmitted
  <1>19. FramesGiven'
    <2>1. ASSUME NEW i \in Chunks("frame")'
          PROVE  \E k \in 1 .. s.n : /\ stdout'[i].n = emitted[k].n
                                    /\ stdout'[i].body = sanitize_server_frame(keys, emitted[k].body)
      <3>1. CASE i \in Chunks("frame")
        <4>1. PICK k \in 1 .. Given : /\ stdout[i].n = emitted[k].n
                                     /\ stdout[i].body = sanitize_server_frame(keys, emitted[k].body)
          BY <1>17, <3>1
        <4>2. k \in 1 .. s.n /\ stdout'[i] = stdout[i]
          BY <1>2, <1>10, <1>16, <3>1
        <4> QED
          BY <4>1, <4>2
      <3>2. CASE i = last
        <4>1. s.n \in 1 .. s.n
          BY <1>2
        <4> QED
          BY <1>5, <1>7, <1>10, <3>2, <4>1
      <3> QED
        BY <1>10, <3>1, <3>2
    <2>2. ASSUME NEW i \in Chunks("frame")', NEW j \in Chunks("frame")',
                 stdout'[i].n = stdout'[j].n, stdout'[i].n # 0
          PROVE  i = j
      <3>1. CASE i \in Chunks("frame") /\ j \in Chunks("frame")
        <4>1. stdout'[i] = stdout[i] /\ stdout'[j] = stdout[j]
          BY <1>10, <3>1
        <4> QED
          BY <2>2, <3>1, <4>1 DEF IndInv, FramesGiven
      <3>2. CASE i = last /\ j \in Chunks("frame")
        BY <1>10, <1>18, <2>2, <3>2
      <3>3. CASE j = last /\ i \in Chunks("frame")
        BY <1>10, <1>18, <2>2, <3>3
      <3> QED
        BY <1>10, <3>1, <3>2, <3>3
    <2>3. s'.n <= Len(emitted') /\ s'.pc # "forward"
      BY <1>1, <1>2, <1>12
    <2> QED
      BY <1>1, <1>16, <2>1, <2>2, <2>3 DEF FramesGiven
  <1> QED
    BY <1>13, <1>14, <1>15, <1>19 DEF IndInv

\* The delimiter of a frame.
LEMMA DelimitFrameKeeps == ASSUME IndInv, DelimitFrame PROVE IndInv'
  <1>1. /\ s.pc = "delimit" /\ s' = [s EXCEPT !.pc = "read"]
        /\ UNCHANGED <<mode, keys, sent, c, relayed, server, emitted>>
        /\ stdout' = Append(stdout, NEWLINE)
    BY DEF DelimitFrame, clientSide, serverSide
  <1>2. s \in ServerRecord
    BY DEF IndInv, TypeOK
  <1>3. s' \in ServerRecord /\ s'.pc = "read" /\ s'.n = s.n /\ Given' = Given
    BY <1>1, <1>2 DEF ServerRecord, Given
  <1>4. /\ stdout' \in Seq(Chunk)
        /\ Chunks("answer")' = Chunks("answer") /\ Chunks("frame")' = Chunks("frame")
        /\ \A i \in Chunks("answer") : stdout'[i] = stdout[i]
        /\ \A i \in Chunks("frame") : stdout'[i] = stdout[i]
    BY <1>1, Delimited
  <1>5. TypeOK'
    BY <1>1, <1>3, <1>4 DEF IndInv, TypeOK
  <1>6. Position' /\ Carried' /\ LinesPassed' /\ AnswersGiven' /\ OneFate'
    BY <1>1, <1>4, ClientSideKept
  <1>7. RepliesEmitted'
    BY <1>1 DEF IndInv, RepliesEmitted
  <1>8. FramesGiven'
    <2>1. \A i \in Chunks("frame") : \E k \in 1 .. Given :
             /\ stdout'[i].n = emitted[k].n
             /\ stdout'[i].body = sanitize_server_frame(keys, emitted[k].body)
      BY <1>4 DEF IndInv, FramesGiven
    <2>2. \A i, j \in Chunks("frame") : stdout'[i].n = stdout'[j].n /\ stdout'[i].n # 0 => i = j
      BY <1>4 DEF IndInv, FramesGiven
    <2>3. s'.n <= Len(emitted') /\ s'.pc # "forward"
      BY <1>1, <1>3 DEF IndInv, FramesGiven
    <2> QED
      BY <1>1, <1>3, <1>4, <2>1, <2>2, <2>3 DEF FramesGiven
  <1> QED
    BY <1>5, <1>6, <1>7, <1>8 DEF IndInv

-----------------------------------------------------------------------------
(* The invariant and what follows from it. *)

\* The wrapper starts with nothing read and nothing written.
LEMMA InitIndInv == Init => IndInv
  <1> SUFFICES ASSUME Init PROVE IndInv
    OBVIOUS
  <1>1. /\ keys \in RedactKeys /\ sent = << >> /\ relayed = << >> /\ emitted = << >> /\ stdout = << >>
        /\ c = [pc |-> "read", n |-> 0, params |-> "none", verdicts |-> << >>]
        /\ s = [pc |-> "read", n |-> 0] /\ server = [up |-> TRUE, read |-> 0]
    BY DEF Init
  <1>2. /\ << >> \in Seq({"none"} \cup Verdict) /\ << >> \in Seq(ClientFrame) /\ << >> \in Seq(Line)
        /\ << >> \in Seq(Emission) /\ << >> \in Seq(Chunk) /\ 0 \in Nat
        /\ DOMAIN << >> = {} /\ Len(<< >>) = 0
    OBVIOUS
  <1>3. /\ c.pc = "read" /\ c.n = 0 /\ c.verdicts = << >> /\ s.pc = "read" /\ s.n = 0
        /\ server.read = 0
    BY <1>1
  <1>4. "none" \in Params
    BY DEF Params
  <1>5. c \in ClientRecord /\ s \in ServerRecord /\ server \in [up : BOOLEAN, read : Nat]
    BY <1>1, <1>2, <1>4 DEF ClientRecord, ServerRecord
  <1>6. TypeOK
    BY <1>1, <1>2, <1>5 DEF TypeOK
  <1>7. Position /\ Carried
    BY <1>1, <1>2, <1>3 DEF Position, Carried
  <1>8. \A kind : Chunks(kind) = {}
    BY <1>1, <1>2 DEF Chunks
  <1>9. LinesPassed /\ AnswersGiven
    BY <1>1, <1>2, <1>8 DEF LinesPassed, AnswersGiven
  <1>10. OneFate
    BY <1>3 DEF OneFate
  <1>11. RepliesEmitted
    BY <1>1, <1>2, <1>3 DEF RepliesEmitted
  <1>12. FramesGiven
    BY <1>1, <1>2, <1>3, <1>8 DEF FramesGiven
  <1> QED
    BY <1>6, <1>7, <1>9, <1>10, <1>11, <1>12 DEF IndInv

\* Every step keeps the invariant.
LEMMA NextIndInv == IndInv /\ [Next]_vars => IndInv'
  <1> SUFFICES ASSUME IndInv, [Next]_vars PROVE IndInv'
    OBVIOUS
  <1>1. server \in [up : BOOLEAN, read : Nat]
    BY DEF IndInv, TypeOK
  <1>2. ASSUME NEW f \in ClientFrame, ClientSends(f) PROVE IndInv'
    BY <1>2, ClientSendsKeeps
  <1>3. CASE ClientCloses
    BY <1>1, <1>3, QuietKeeps DEF ClientCloses, clientSide, serverSide
  <1>4. CASE ClientRelay
    BY <1>4, ReadClientKeeps, ClientEndsKeeps, ForwardToServerKeeps, AnswerClientKeeps,
       DelimitAnswerKeeps DEF ClientRelay
  <1>5. ASSUME NEW verdict \in Verdict, Evaluate(verdict) PROVE IndInv'
    BY <1>5, EvaluateKeeps
  <1>6. CASE ServerReads
    BY <1>6, ServerReadsKeeps
  <1>7. ASSUME NEW body \in ServerBody, ServerNotifies(body) PROVE IndInv'
    BY <1>7, ServerNotifiesKeeps
  <1>8. CASE ServerExits
    <2>1. server' = [server EXCEPT !.up = FALSE]
      BY <1>8 DEF ServerExits
    <2>2. server' \in [up : BOOLEAN, read : Nat] /\ server'.read = server.read
      BY <1>1, <2>1
    <2> QED
      BY <1>8, <2>2, QuietKeeps DEF ServerExits, clientSide
  <1>9. CASE ServerRelay
    BY <1>9, ReadServerKeeps, ForwardToClientKeeps, DelimitFrameKeeps DEF ServerRelay
  <1>10. CASE join_relays
    BY <1>1, <1>10, QuietKeeps DEF join_relays, clientSide, serverSide
  <1>11. CASE UNCHANGED vars
    BY <1>1, <1>11, QuietKeeps DEF vars, clientSide, serverSide
  <1> QED
    BY <1>2, <1>3, <1>4, <1>5, <1>6, <1>7, <1>8, <1>9, <1>10, <1>11 DEF Next

\* The invariant holds in every reachable state.
THEOREM RelayInvariant == Spec => []IndInv
  <1> QED
    BY InitIndInv, NextIndInv, PTL DEF Spec

\* Of the calls the wrapper has to judge the server reads only what the gateway allowed, as
\* it was allowed; what cannot be read or decoded passes only when the failure mode says so.
THEOREM OnlyAllowedReachesTheServer == Spec => []OnlyWhatWasAllowedIsRelayed
  <1>1. IndInv => OnlyWhatWasAllowedIsRelayed
    BY DEF IndInv, LinesPassed, MayPass, OnlyWhatWasAllowedIsRelayed
  <1> QED
    BY <1>1, RelayInvariant, PTL

\* A set with at most one element is counted as one when it has one.
LEMMA CountOfOne ==
  ASSUME NEW S, \A x, y \in S : x = y
  PROVE  Cardinality(S) = IF S = {} THEN 0 ELSE 1
  <1>1. CASE S = {}
    BY <1>1, FS_EmptySet
  <1>2. CASE S # {}
    <2>1. PICK x : x \in S
      BY <1>2
    <2>2. S = {x}
      BY <2>1
    <2>3. Cardinality({x}) = 1
      BY FS_Singleton
    <2> QED
      BY <1>2, <2>2, <2>3
  <1> QED
    BY <1>1, <1>2

\* Every frame of the client reaches the server once or is answered once, never both and
\* never neither, in order; no request is answered by the wrapper and by the server, and no
\* answer has a foreign id.
THEOREM EveryFrameOneFate == Spec => []EveryFrameHasOneFate
  <1>1. IndInv => EveryFrameHasOneFate
    <2> SUFFICES ASSUME IndInv PROVE EveryFrameHasOneFate
      OBVIOUS
    <2>1. /\ \A i, j \in DOMAIN relayed : i < j => relayed[i].n < relayed[j].n
          /\ \A i, j \in Chunks("answer") : i < j => stdout[i].n < stdout[j].n
      BY DEF IndInv, LinesPassed, AnswersGiven
    <2>2. ASSUME NEW n \in 1 .. c.n
          PROVE  /\ Cardinality(Answers(n)) + Cardinality(Lines(n)) <= 1
                 /\ Settled(n) => Cardinality(Answers(n)) + Cardinality(Lines(n)) = 1
                 /\ Cardinality(Answers(n)) + Cardinality(Replies(n)) <= 1
                 /\ \A i \in Answers(n) : stdout[i].id \in {sent[n].id, Null} \ {NoId}
      <3>1. /\ DOMAIN stdout = 1 .. Len(stdout) /\ Len(stdout) \in Nat /\ c.n \in Nat /\ n \in Nat
            /\ DOMAIN relayed = 1 .. Len(relayed) /\ Len(relayed) \in Nat /\ n # 0
        BY DEF IndInv, TypeOK, ClientRecord
      <3>2. /\ Answers(n) # {} <=> Answered(n)
            /\ Lines(n) # {} <=> Passed(n)
        BY DEF Answers, Answered, Lines, Passed
      <3>3. \A i, j \in Answers(n) : i = j
        <4>1. \A i \in Answers(n) : i \in Chunks("answer") /\ i \in Nat /\ stdout[i].n = n
          BY <3>1 DEF Answers, Chunks
        <4>2. \A i, j \in Answers(n) : ~(i < j)
          BY <2>1, <3>1, <4>1
        <4> QED
          BY <4>1, <4>2
      <3>4. \A i, j \in Lines(n) : i = j
        <4>1. \A i \in Lines(n) : i \in DOMAIN relayed /\ i \in Nat /\ relayed[i].n = n
          BY <3>1 DEF Lines
        <4>2. \A i, j \in Lines(n) : ~(i < j)
          BY <2>1, <3>1, <4>1
        <4> QED
          BY <4>1, <4>2
      <3>5. \A i, j \in Replies(n) : i = j
        BY <3>1 DEF IndInv, FramesGiven, Replies
      <3>6. Replies(n) # {} => Passed(n)
        <4> SUFFICES ASSUME NEW i \in Replies(n) PROVE Passed(n)
          OBVIOUS
        <4>1. i \in Chunks("frame") /\ stdout[i].n = n
          BY DEF Replies
        <4>2. PICK k \in 1 .. Given : stdout[i].n = emitted[k].n
          BY <4>1 DEF IndInv, FramesGiven
        <4>3. k \in DOMAIN emitted
          <5>1. s.n \in Nat /\ DOMAIN emitted = 1 .. Len(emitted) /\ Len(emitted) \in Nat /\ s.n <= Len(emitted)
            BY DEF IndInv, TypeOK, ServerRecord, FramesGiven
          <5> QED
            BY <5>1 DEF Given
        <4>4. PICK j \in 1 .. server.read : relayed[j].n = emitted[k].n
          BY <3>1, <4>1, <4>2, <4>3 DEF IndInv, RepliesEmitted
        <4>5. j \in DOMAIN relayed
          BY <3>1 DEF IndInv, TypeOK, RepliesEmitted
        <4> QED
          BY <4>1, <4>2, <4>4, <4>5 DEF Passed
      <3>7. /\ Cardinality(Answers(n)) = IF Answered(n) THEN 1 ELSE 0
            /\ Cardinality(Lines(n)) = IF Passed(n) THEN 1 ELSE 0
        BY <3>2, <3>3, <3>4, CountOfOne
      <3>8. Cardinality(Replies(n)) = IF Replies(n) = {} THEN 0 ELSE 1
        BY <3>5, CountOfOne
      <3>9. IF Settled(n) THEN Answered(n) <=> ~Passed(n) ELSE ~Answered(n) /\ ~Passed(n)
        BY DEF IndInv, OneFate
      <3>10. \A i \in Answers(n) : stdout[i].id \in {sent[n].id, Null} \ {NoId}
        BY DEF Answers, IndInv, AnswersGiven
      <3> QED
        BY <3>6, <3>7, <3>8, <3>9, <3>10
    <2> QED
      BY <2>1, <2>2 DEF EveryFrameHasOneFate
  <1> QED
    BY <1>1, RelayInvariant, PTL

\* What the client is given of the server's frames is, frame by frame, what the sanitizer
\* makes of them with the keys in force, and no reply is given twice.
THEOREM FramesLeaveSanitized == Spec => []FramesGiven
  <1>1. IndInv => FramesGiven
    BY DEF IndInv
  <1> QED
    BY <1>1, RelayInvariant, PTL

\* What ServerFramesAreSanitized says of a frame that left under the given keys.
Clean(redacted, body) ==
  /\ MaskedBody(body)
  /\ body.utf8 /\ body.json =>
       \A k \in DOMAIN body.leaves :
         body.leaves[k].key \in redacted => body.leaves[k].text = <<"[REDACTED]">>

\* What the sanitizer has to do with each of the bodies, one at a time.
SanitizerCleans ==
  \A redacted \in RedactKeys, body \in ServerBody : Clean(redacted, sanitize_server_frame(redacted, body))

\* The relay adds no way out of its own: if the sanitizer cleans each body the server can
\* send, then no frame leaves unsanitized, whatever is interleaved with it.
THEOREM RelayLeavesNothingOut ==
  ASSUME SanitizerCleans
  PROVE  Spec => []ServerFramesAreSanitized
  <1>1. IndInv => ServerFramesAreSanitized
    <2> SUFFICES ASSUME IndInv, NEW i \in Chunks("frame") PROVE Clean(keys, stdout[i].body)
      BY DEF ServerFramesAreSanitized, Clean
    <2>1. PICK k \in 1 .. Given : stdout[i].body = sanitize_server_frame(keys, emitted[k].body)
      BY DEF IndInv, FramesGiven
    <2>2. /\ s.n \in Nat /\ emitted \in Seq(Emission) /\ Len(emitted) \in Nat /\ s.n <= Len(emitted)
          /\ keys \in RedactKeys
      BY DEF IndInv, TypeOK, ServerRecord, FramesGiven
    <2>3. k \in 1 .. Len(emitted)
      BY <2>2 DEF Given
    <2>4. emitted[k] \in Emission
      BY <2>2, <2>3
    <2>5. emitted[k].body \in ServerBody
      BY <2>4 DEF Emission
    <2> QED
      BY <2>1, <2>2, <2>5 DEF SanitizerCleans
  <1> QED
    BY <1>1, RelayInvariant, PTL

=============================================================================
