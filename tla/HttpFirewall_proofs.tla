-------------------------- MODULE HttpFirewall_proofs --------------------------
(***************************************************************************)
(* Proofs about HttpFirewall: a response is judged as a whole by one guard *)
(* however many connections there are and whatever the background task     *)
(* installs meanwhile, and no exchange has a way out that is not masked.   *)
(***************************************************************************)
EXTENDS HttpFirewall, TLAPS

-----------------------------------------------------------------------------
(* What comes from the model, and what the firewall makes of it.           *)

Offered == UNION {{response.choices[i] : i \in DOMAIN response.choices} : response \in Responses}
Asked == UNION {{choice.tool_calls[k] : k \in DOMAIN choice.tool_calls} : choice \in Offered}
Said == {choice.content : choice \in Offered}

\* A choice whose calls are being judged has lost some of them from the front.
Pending == [content : Said, asks : BOOLEAN, tool_calls : Seq(Asked)]

\* What is kept of a call, and what a choice becomes.
Kept == {Forwarded(call) : call \in Asked}
Rewritten ==
  [ content : {mask_secrets_in_text(text) : text \in Said} \cup {BlockedNotice},
    asks : BOOLEAN, tool_calls : Seq(Kept) ]

\* The calls and the choices of the responses have the fields of the protocol.
LEMMA Shapes ==
  /\ Asked \subseteq ModelCall
  /\ Offered \subseteq Pending
  /\ \A response \in Responses : response.choices \in Seq(Offered)
<1>1. \A response \in Responses : response.choices \in Seq(Offered)
  <2> SUFFICES ASSUME NEW response \in Responses PROVE response.choices \in Seq(Offered)
    OBVIOUS
  <2>1. response.choices \in Seq(ModelChoice)
    BY ResponseAssumption
  <2>2. \A i \in DOMAIN response.choices : response.choices[i] \in Offered
    BY DEF Offered
  <2> QED
    BY <2>1, <2>2
<1>2. Offered \subseteq ModelChoice
  <2> SUFFICES ASSUME NEW response \in Responses, NEW i \in DOMAIN response.choices
               PROVE  response.choices[i] \in ModelChoice
    BY DEF Offered
  <2>1. response.choices \in Seq(ModelChoice)
    BY ResponseAssumption
  <2> QED
    BY <2>1
<1>3. Asked \subseteq ModelCall
  <2> SUFFICES ASSUME NEW choice \in Offered, NEW k \in DOMAIN choice.tool_calls
               PROVE  choice.tool_calls[k] \in ModelCall
    BY DEF Asked
  <2>1. choice.tool_calls \in Seq(ModelCall)
    BY <1>2 DEF ModelChoice
  <2> QED
    BY <2>1
<1>4. Offered \subseteq Pending
  <2> SUFFICES ASSUME NEW choice \in Offered PROVE choice \in Pending
    OBVIOUS
  <2>1. choice \in ModelChoice
    BY <1>2
  <2>2. choice.tool_calls \in Seq(ModelCall)
    BY <2>1 DEF ModelChoice
  <2>3. \A k \in DOMAIN choice.tool_calls : choice.tool_calls[k] \in Asked
    BY DEF Asked
  <2>4. choice.tool_calls \in Seq(Asked)
    BY <2>2, <2>3
  <2>5. choice.content \in Said
    BY DEF Said
  <2> QED
    BY <2>1, <2>4, <2>5 DEF ModelChoice, Pending
<1> QED
  BY <1>1, <1>3, <1>4

\* Scanning and masking change the arguments of a call and nothing else.
LEMMA ForwardedIsTheCall ==
  ASSUME NEW call \in Asked
  PROVE  Forwarded(call) \in Kept /\ Forwarded(call).id = call.id
<1>1. call \in ModelCall
  BY Shapes
<1>2. PICK text : Forwarded(call) = [call EXCEPT !.arguments = text]
  <2> DEFINE scanned == scan_string(call.arguments)
             text == IF scanned # call.arguments THEN scanned
                     ELSE mask_secrets_in_text(call.arguments)
  <2>1. Forwarded(call) = [call EXCEPT !.arguments = text]
    BY DEF Forwarded
  <2> HIDE DEF text
  <2> QED
    BY <2>1
<1>3. Forwarded(call).id = call.id
  BY <1>1, <1>2 DEF ModelCall
<1> QED
  BY <1>3 DEF Kept

-----------------------------------------------------------------------------
(* Judging the calls of a choice, one after the other.                     *)

\* kept is what the guard g left of the first m of the calls.
JudgedUpTo(g, calls, m, kept) ==
  \E from \in [DOMAIN kept -> 1 .. m] :
    /\ \A i, j \in DOMAIN kept : i < j => from[i] < from[j]
    /\ \A i \in DOMAIN kept :
         /\ kept[i].id = calls[from[i]].id
         /\ calls[from[i]].wellFormed /\ calls[from[i]].tool \notin g.policy
    /\ \A k \in 1 .. m :
         (\E i \in DOMAIN kept : from[i] = k)
           \/ ~calls[k].wellFormed \/ calls[k].tool \in g.policy \cup g.intel

\* Before the first call nothing is kept.
LEMMA NothingJudged ==
  ASSUME NEW g, NEW calls
  PROVE  JudgedUpTo(g, calls, 0, << >>)
<1>1. [i \in {} |-> 0] \in [{} -> 1 .. 0] /\ DOMAIN << >> = {} /\ 1 .. 0 = {}
  OBVIOUS
<1> QED
  BY <1>1 DEF JudgedUpTo

\* The next call is kept behind the others, or dropped for a reason of its own
\* (enforce_one_tool_call).
LEMMA OneMoreJudged ==
  ASSUME NEW g, NEW calls \in Seq(Asked), NEW m \in Nat, m < Len(calls),
         NEW kept \in Seq(Kept), JudgedUpTo(g, calls, m, kept),
         NEW new \in enforce_one_tool_call(g, calls[m + 1])
  PROVE  kept \o new \in Seq(Kept) /\ JudgedUpTo(g, calls, m + 1, kept \o new)
<1> DEFINE call == calls[m + 1]
           n == Len(kept)
<1>1. call \in Asked /\ n \in Nat /\ DOMAIN kept = 1 .. n
  OBVIOUS
<1>2. PICK from \in [1 .. n -> 1 .. m] :
        /\ \A i, j \in 1 .. n : i < j => from[i] < from[j]
        /\ \A i \in 1 .. n :
             /\ kept[i].id = calls[from[i]].id
             /\ calls[from[i]].wellFormed /\ calls[from[i]].tool \notin g.policy
        /\ \A k \in 1 .. m :
             (\E i \in 1 .. n : from[i] = k)
               \/ ~calls[k].wellFormed \/ calls[k].tool \in g.policy \cup g.intel
  BY <1>1 DEF JudgedUpTo
<1>3. CASE new = << >> /\ (~call.wellFormed \/ call.tool \in g.policy \cup g.intel)
  <2>1. kept \o new = kept
    BY <1>3
  <2>2. from \in [1 .. n -> 1 .. m + 1]
    BY <1>1, <1>2
  <2>3. \A k \in 1 .. m + 1 :
          (\E i \in 1 .. n : from[i] = k)
            \/ ~calls[k].wellFormed \/ calls[k].tool \in g.policy \cup g.intel
    <3> SUFFICES ASSUME NEW k \in 1 .. m + 1, k # m + 1
                 PROVE  (\E i \in 1 .. n : from[i] = k)
                          \/ ~calls[k].wellFormed \/ calls[k].tool \in g.policy \cup g.intel
      BY <1>3
    <3>1. k \in 1 .. m
      OBVIOUS
    <3> QED
      BY <1>2, <3>1
  <2>4. JudgedUpTo(g, calls, m + 1, kept)
    <3> HIDE DEF n, call
    <3>1. DOMAIN kept = 1 .. n /\ from \in [DOMAIN kept -> 1 .. m + 1]
      BY <1>1, <2>2
    <3> QED
      BY <1>2, <2>3, <3>1, ZenonT(60) DEF JudgedUpTo
  <2> QED
    BY <2>1, <2>4
<1>4. CASE new = <<Forwarded(call)>> /\ call.wellFormed /\ call.tool \notin g.policy
  <2>1. Forwarded(call) \in Kept /\ Forwarded(call).id = call.id
    BY <1>1, ForwardedIsTheCall
  <2>2. PICK f : f = Forwarded(call)
    OBVIOUS
  <2>3. PICK all : all = kept \o new
    OBVIOUS
  <2>4. /\ all \in Seq(Kept) /\ Len(all) = n + 1 /\ DOMAIN all = 1 .. n + 1
        /\ \A i \in 1 .. n : all[i] = kept[i]
        /\ all[n + 1] = f
    BY <1>1, <1>4, <2>1, <2>2, <2>3
  <2>5. PICK at : at = [i \in 1 .. n + 1 |-> IF i = n + 1 THEN m + 1 ELSE from[i]]
    OBVIOUS
  <2> HIDE DEF n, call
  <2>6. /\ at \in [1 .. n + 1 -> 1 .. m + 1] /\ at[n + 1] = m + 1
        /\ \A i \in 1 .. n : at[i] = from[i] /\ at[i] \in 1 .. m
    <3>1. \A i \in 1 .. n + 1 : i # n + 1 => i \in 1 .. n
      BY <1>1
    <3>2. m + 1 \in 1 .. m + 1 /\ n + 1 \in 1 .. n + 1 /\ 1 .. m \subseteq 1 .. m + 1
      BY <1>1
    <3>3. \A i \in 1 .. n : i \in 1 .. n + 1 /\ i # n + 1 /\ from[i] \in 1 .. m
      BY <1>1, <1>2
    <3> QED
      BY <2>5, <3>1, <3>2, <3>3
  <2>7. \A i, j \in 1 .. n + 1 : i < j => at[i] < at[j]
    <3> SUFFICES ASSUME NEW i \in 1 .. n + 1, NEW j \in 1 .. n + 1, i < j
                 PROVE  at[i] < at[j]
      OBVIOUS
    <3>1. i \in 1 .. n
      BY <1>1
    <3>2. CASE j = n + 1
      BY <2>6, <3>1, <3>2
    <3>3. CASE j # n + 1
      <4>1. j \in 1 .. n
        BY <1>1, <3>3
      <4> QED
        BY <1>2, <2>6, <3>1, <4>1
    <3> QED
      BY <3>2, <3>3
  <2>8. ASSUME NEW i \in 1 .. n + 1
        PROVE  /\ all[i].id = calls[at[i]].id
               /\ calls[at[i]].wellFormed /\ calls[at[i]].tool \notin g.policy
    <3>1. CASE i = n + 1
      BY <1>4, <2>1, <2>2, <2>4, <2>6, <3>1 DEF call
    <3>2. CASE i # n + 1
      <4>1. i \in 1 .. n
        BY <1>1, <3>2
      <4> QED
        BY <1>2, <2>4, <2>6, <4>1
    <3> QED
      BY <3>1, <3>2
  <2>9. ASSUME NEW k \in 1 .. m + 1
        PROVE  (\E i \in 1 .. n + 1 : at[i] = k)
                 \/ ~calls[k].wellFormed \/ calls[k].tool \in g.policy \cup g.intel
    <3>1. CASE k = m + 1
      <4>1. n + 1 \in 1 .. n + 1
        BY <1>1
      <4> QED
        BY <2>6, <3>1, <4>1
    <3>2. CASE k # m + 1
      <4>1. k \in 1 .. m
        BY <3>2
      <4>2. \A i \in 1 .. n : i \in 1 .. n + 1
        BY <1>1
      <4> QED
        BY <1>2, <2>6, <4>1, <4>2
    <3> QED
      BY <3>1, <3>2
  <2>10. JudgedUpTo(g, calls, m + 1, all)
    <3>1. DOMAIN all = 1 .. n + 1
      BY <2>4
    <3>2. at \in [DOMAIN all -> 1 .. m + 1]
      BY <2>6, <3>1
    <3> QED
      BY <2>7, <2>8, <2>9, <3>1, <3>2, ZenonT(60) DEF JudgedUpTo
  <2> QED
    BY <2>3, <2>4, <2>10
<1>5. CASE ~call.wellFormed
  BY <1>3, <1>5 DEF enforce_one_tool_call
<1>6. CASE call.wellFormed
  <2>1. PICK verdict \in Evaluate(g, call) :
          new = IF verdict = "allow" THEN <<Forwarded(call)>> ELSE << >>
    BY <1>6 DEF enforce_one_tool_call
  <2> HIDE DEF call
  <2>2. CASE verdict = "allow"
    <3>1. call.tool \notin g.policy
      BY <2>1, <2>2 DEF Evaluate
    <3> QED
      BY <1>4, <1>6, <2>1, <2>2, <3>1
  <2>3. CASE verdict # "allow"
    <3>1. call.tool \in g.policy \cup g.intel
      BY <2>1, <2>3 DEF Evaluate
    <3> QED
      BY <1>3, <2>1, <2>3, <3>1
  <2> QED
    BY <2>2, <2>3
<1> QED
  BY <1>5, <1>6

\* A choice of which all calls are judged.
LEMMA AllJudged ==
  ASSUME NEW g, NEW before, NEW after, before.tool_calls \in Seq(Asked),
         JudgedUpTo(g, before.tool_calls, Len(before.tool_calls), after.tool_calls)
  PROVE  JudgedBy(g, before, after)
<1>1. DOMAIN before.tool_calls = 1 .. Len(before.tool_calls)
  OBVIOUS
<1> QED
  BY <1>1 DEF JudgedUpTo, JudgedBy

-----------------------------------------------------------------------------
(* The inductive invariant.                                                *)

Guards == [policy : Policies, intel : SUBSET Tool]

Judging ==
  [ pc : {"judging"}, guard : Guards, response : Seq(Offered), todo : Seq(Pending),
    kept : Seq(Kept), choices : Seq(Rewritten), inForce : SUBSET Guards ]

\* How far the response that x judges has come: the guard was in force when the first
\* call was judged, the choices that are finished are its answer to the first ones of
\* the response, and the others are still what the model said, but for the calls that
\* were drained of the first of them.
Progress(x) ==
  LET done == Len(x.choices)
  IN  /\ x.guard \in x.inForce
      /\ done + Len(x.todo) = Len(x.response)
      /\ \A i \in 1 .. done : JudgedBy(x.guard, x.response[i], x.choices[i])
      /\ \A k \in 2 .. Len(x.todo) : x.todo[k] = x.response[done + k]
      /\ x.todo # << >> =>
           LET calls == x.response[done + 1].tool_calls
               rest == x.todo[1].tool_calls
               m == Len(calls) - Len(rest)
           IN  /\ m \in Nat
               /\ \A k \in 1 .. Len(rest) : rest[k] = calls[m + k]
               /\ JudgedUpTo(x.guard, calls, m, x.kept)

\* A response that was judged is the answer of one guard that was in force.
Settled(x) ==
  /\ x.choices \in Seq(Rewritten)
  /\ \E g \in x.inForce :
       /\ Len(x.choices) = Len(x.response)
       /\ \A i \in DOMAIN x.choices : JudgedBy(g, x.response[i], x.choices[i])

\* A body that is on its way was masked.
Sent(x) == \E request \in Requests : x.sent = mask_secrets_in_frame(request.body)
Passed(x) == \E response \in Responses : x.body = mask_secrets_in_frame(response.body)

\* What an exchange is in the middle of.
Proper(x) ==
  /\ x.pc \in {"idle", "request", "upstream", "judging", "answered", "passed", "enforced"}
  /\ x.pc = "request" => x.request \in Requests
  /\ x.pc = "upstream" => Sent(x)
  /\ x.pc = "passed" => Passed(x)
  /\ x.pc = "judging" => x \in Judging /\ Progress(x)
  /\ x.pc = "enforced" => Settled(x)

IndInv ==
  /\ policy \in Policies /\ intel \in SUBSET Tool
  /\ local \in SUBSET Tool /\ remote \in SUBSET Tool
  /\ refresh.pc = "fetch" => refresh.local \in SUBSET Tool
  /\ DOMAIN conn = Conn /\ conn = [c \in Conn |-> conn[c]]
  /\ \A c \in Conn : Proper(conn[c])

\* An exchange goes on, to a state of its own that is proper.
LEMMA ExchangeGoesOn ==
  ASSUME IndInv, NEW c \in Conn, NEW x, Proper(x), conn' = [conn EXCEPT ![c] = x],
         UNCHANGED <<policy, intel, refresh, local, remote>>
  PROVE  IndInv'
<1>1. /\ DOMAIN conn' = Conn /\ conn' = [d \in Conn |-> conn'[d]]
      /\ \A d \in Conn : conn'[d] = IF d = c THEN x ELSE conn[d]
  BY DEF IndInv
<1>2. \A d \in Conn : Proper(conn'[d])
  BY <1>1 DEF IndInv
<1> QED
  BY <1>1, <1>2 DEF IndInv

\* The guard of a moment.
LEMMA GuardIsGuard == ASSUME IndInv PROVE Guard \in Guards
BY DEF IndInv, Guard, Guards

\* Nobody is connected yet, and the store holds what its sources listed.
LEMMA InitIndInv == Init => IndInv
<1> SUFFICES ASSUME Init PROVE IndInv
  OBVIOUS
<1>1. \A feed \in Feeds : feed \in SUBSET Tool
  BY SetsAssumption
<1>2. local \in SUBSET Tool /\ remote \in SUBSET Tool /\ intel \in SUBSET Tool
  BY <1>1 DEF Init
<1>3. conn = [c \in Conn |-> Idle]
  BY DEF Init
<1>4. DOMAIN conn = Conn /\ conn = [c \in Conn |-> conn[c]]
  BY <1>3
<1>5. Proper(Idle)
  BY DEF Proper, Idle
<1>6. policy \in Policies /\ refresh.pc = "idle"
  BY DEF Init
<1> QED
  BY <1>2, <1>3, <1>4, <1>5, <1>6 DEF IndInv

-----------------------------------------------------------------------------
(* The steps of an exchange.                                               *)

\* Where an exchange ends without an answer of the model.
LEMMA AnswerIsProper == ASSUME NEW status PROVE Proper(Answer(status))
BY DEF Proper, Answer

\* A request arrives.
LEMMA ReadRequestStep ==
  ASSUME IndInv, NEW c \in Conn, NEW request \in Requests, ReadRequest(c, request)
  PROVE  IndInv'
<1>1. PICK x : x = [pc |-> "request", request |-> request]
  OBVIOUS
<1>2. Proper(x)
  BY <1>1 DEF Proper
<1> QED
  BY <1>1, <1>2, ExchangeGoesOn DEF ReadRequest

\* It is masked and sent on, or refused.
LEMMA SendUpstreamStep == ASSUME IndInv, NEW c \in Conn, SendUpstream(c) PROVE IndInv'
<1>1. PICK request \in Requests : request = conn[c].request
  BY DEF SendUpstream, IndInv, Proper
<1>2. PICK outbound : outbound = mask_secrets_in_frame(request.body)
  OBVIOUS
<1>3. PICK x : x = [pc |-> "upstream", chat |-> request.chat, sent |-> outbound]
  OBVIOUS
<1>4. Proper(x)
  BY <1>2, <1>3 DEF Proper, Sent
<1>5. conn' \in {[conn EXCEPT ![c] = Answer("bad request")], [conn EXCEPT ![c] = x]}
  BY <1>1, <1>2, <1>3 DEF SendUpstream
<1>6. UNCHANGED <<policy, intel, refresh, local, remote>>
  BY DEF SendUpstream
<1> QED
  BY <1>4, <1>5, <1>6, AnswerIsProper, ExchangeGoesOn

\* The upstream fails.
LEMMA UpstreamFailsStep == ASSUME IndInv, NEW c \in Conn, UpstreamFails(c) PROVE IndInv'
BY AnswerIsProper, ExchangeGoesOn DEF UpstreamFails

\* It answers: the guard that is taken is the one in force, and nothing is judged yet.
LEMMA ReceiveStep ==
  ASSUME IndInv, NEW c \in Conn, NEW response \in Responses, Receive(c, response)
  PROVE  IndInv'
<1>1. PICK g : g = Guard
  OBVIOUS
<1>2. g \in Guards
  BY <1>1, GuardIsGuard
<1>3. PICK s : s = response.choices
  OBVIOUS
<1>4. s \in Seq(Offered) /\ Offered \subseteq Pending /\ s \in Seq(Pending)
  BY <1>3, Shapes
<1>5. PICK x : x = [ pc |-> "judging", guard |-> g, response |-> s, todo |-> s,
                     kept |-> << >>, choices |-> << >>, inForce |-> {g} ]
  OBVIOUS
<1>6. PICK y : y = [pc |-> "passed", body |-> mask_secrets_in_frame(response.body)]
  OBVIOUS
<1>7. Proper(y)
  BY <1>6 DEF Proper, Passed
<1>8. Progress(x)
  <2>1. /\ x.guard = g /\ x.inForce = {g} /\ x.response = s /\ x.todo = s
        /\ x.kept = << >> /\ x.choices = << >>
    BY <1>5
  <2>2. Len(x.choices) = 0 /\ Len(s) \in Nat
    BY <1>4, <2>1
  <2>3. ASSUME s # << >>
        PROVE  /\ Len(s[1].tool_calls) - Len(s[1].tool_calls) = 0
               /\ \A k \in 1 .. Len(s[1].tool_calls) :
                    s[1].tool_calls[k] = s[1].tool_calls[0 + k]
               /\ JudgedUpTo(g, s[1].tool_calls, 0, << >>)
    <3>1. s[1] \in Pending
      BY <1>4, <2>3
    <3>2. s[1].tool_calls \in Seq(Asked)
      BY <3>1 DEF Pending
    <3>3. Len(s[1].tool_calls) \in Nat
      BY <3>2
    <3> QED
      BY <3>3, NothingJudged
  <2> QED
    BY <2>1, <2>2, <2>3 DEF Progress
<1>9. x \in Judging
  BY <1>2, <1>4, <1>5 DEF Judging
<1>10. Proper(x)
  BY <1>5, <1>8, <1>9 DEF Proper
<1>11. conn' \in {[conn EXCEPT ![c] = Answer("bad gateway")], [conn EXCEPT ![c] = x],
                  [conn EXCEPT ![c] = y]}
  BY <1>1, <1>3, <1>5, <1>6 DEF Receive
<1>12. UNCHANGED <<policy, intel, refresh, local, remote>>
  BY DEF Receive
<1> QED
  BY <1>7, <1>10, <1>11, <1>12, AnswerIsProper, ExchangeGoesOn

\* A record of an exchange that judges, field by field.
LEMMA JudgingFields ==
  ASSUME NEW x \in Judging
  PROVE  /\ x.guard \in Guards /\ x.response \in Seq(Offered) /\ x.todo \in Seq(Pending)
         /\ x.kept \in Seq(Kept) /\ x.choices \in Seq(Rewritten)
         /\ x.inForce \in SUBSET Guards
         /\ x = [ pc |-> "judging", guard |-> x.guard, response |-> x.response,
                  todo |-> x.todo, kept |-> x.kept, choices |-> x.choices,
                  inForce |-> x.inForce ]
BY DEF Judging

\* One call of the choice is drained and judged by the guard of the response.
LEMMA JudgeCallStep == ASSUME IndInv, NEW c \in Conn, JudgeCall(c) PROVE IndInv'
<1>1. PICK x : x = conn[c]
  OBVIOUS
<1>2. x \in Judging /\ Progress(x)
  BY <1>1 DEF JudgeCall, IndInv, Proper
<1>3. PICK g, r, todo, kept, done, inForce :
        /\ g = x.guard /\ r = x.response /\ todo = x.todo /\ kept = x.kept
        /\ done = x.choices /\ inForce = x.inForce
  OBVIOUS
<1>4. /\ g \in Guards /\ r \in Seq(Offered) /\ todo \in Seq(Pending)
      /\ kept \in Seq(Kept) /\ done \in Seq(Rewritten) /\ inForce \in SUBSET Guards
      /\ x = [ pc |-> "judging", guard |-> g, response |-> r, todo |-> todo,
               kept |-> kept, choices |-> done, inForce |-> inForce ]
  BY <1>2, <1>3, JudgingFields
<1>5. PICK first, rest : first = todo[1] /\ rest = first.tool_calls
  OBVIOUS
<1>6. /\ todo # << >> /\ Len(todo) \in Nat /\ Len(todo) >= 1
      /\ first \in Pending /\ rest \in Seq(Asked) /\ rest # << >>
      /\ Len(rest) \in Nat /\ Len(rest) >= 1
  <2>1. todo # << >> /\ rest # << >>
    BY <1>1, <1>3, <1>5 DEF JudgeCall
  <2>2. first \in Pending
    BY <1>4, <1>5, <2>1
  <2>3. rest \in Seq(Asked)
    BY <1>5, <2>2 DEF Pending
  <2> QED
    BY <1>4, <2>1, <2>2, <2>3
<1>7. PICK d, m, calls :
        /\ d = Len(done) /\ calls = r[d + 1].tool_calls /\ m = Len(calls) - Len(rest)
  OBVIOUS
<1>8. /\ g \in inForce
      /\ d + Len(todo) = Len(r)
      /\ \A i \in 1 .. d : JudgedBy(g, r[i], done[i])
      /\ \A k \in 2 .. Len(todo) : todo[k] = r[d + k]
      /\ m \in Nat
      /\ \A k \in 1 .. Len(rest) : rest[k] = calls[m + k]
      /\ JudgedUpTo(g, calls, m, kept)
  BY <1>2, <1>3, <1>5, <1>6, <1>7, ZenonT(60) DEF Progress
<1>9. /\ d \in Nat /\ calls \in Seq(Asked) /\ Len(calls) \in Nat /\ Len(calls) = m + Len(rest)
  <2>1. d \in Nat /\ Len(r) \in Nat
    BY <1>4, <1>7
  <2>2. d + 1 \in 1 .. Len(r)
    BY <1>6, <1>8, <2>1
  <2>3. r[d + 1] \in Pending
    BY <1>4, <2>2, Shapes
  <2>4. calls \in Seq(Asked)
    BY <1>7, <2>3 DEF Pending
  <2>5. Len(calls) \in Nat
    BY <2>4
  <2> QED
    BY <1>6, <1>7, <2>1, <2>4, <2>5
<1>10. PICK new \in enforce_one_tool_call(g, rest[1]) :
         conn' = [conn EXCEPT ![c].kept = @ \o new, ![c].todo[1].tool_calls = Tail(@)]
  <2>1. Head(Head(conn[c].todo).tool_calls) = rest[1]
    BY <1>1, <1>3, <1>4, <1>5, <1>6
  <2>2. conn[c].guard = g
    BY <1>1, <1>3
  <2> QED
    BY <2>1, <2>2 DEF JudgeCall
<1>11. rest[1] = calls[m + 1] /\ m < Len(calls)
  BY <1>6, <1>8, <1>9
<1>12. kept \o new \in Seq(Kept) /\ JudgedUpTo(g, calls, m + 1, kept \o new)
  BY <1>4, <1>8, <1>9, <1>10, <1>11, OneMoreJudged
<1>13. PICK first1, todo1, y :
         /\ first1 = [first EXCEPT !.tool_calls = Tail(rest)]
         /\ todo1 = [todo EXCEPT ![1] = first1]
         /\ y = [ pc |-> "judging", guard |-> g, response |-> r, todo |-> todo1,
                  kept |-> kept \o new, choices |-> done, inForce |-> inForce ]
  OBVIOUS
<1>14. /\ Tail(rest) \in Seq(Asked) /\ Len(Tail(rest)) = Len(rest) - 1
       /\ \A k \in 1 .. Len(rest) - 1 : Tail(rest)[k] = rest[k + 1]
  BY <1>6
<1>15. first1 \in Pending /\ first1.tool_calls = Tail(rest)
  BY <1>6, <1>13, <1>14 DEF Pending
<1>16. /\ todo1 \in Seq(Pending) /\ Len(todo1) = Len(todo) /\ todo1 # << >>
       /\ todo1[1] = first1
       /\ \A k \in 2 .. Len(todo) : todo1[k] = todo[k]
  BY <1>4, <1>6, <1>13, <1>15
<1>17. conn' = [conn EXCEPT ![c] = y]
  <2>1. DOMAIN conn = Conn
    BY DEF IndInv
  <2>2. [x EXCEPT !.kept = @ \o new, !.todo[1].tool_calls = Tail(@)] = y
    <3>1. todo1 = [todo EXCEPT ![1].tool_calls = Tail(@)]
      BY <1>5, <1>13
    <3>2. PICK all, left : all = kept \o new /\ left = todo1
      OBVIOUS
    <3>3. [x EXCEPT !.kept = all, !.todo = left] = y
      <4>1. x = [ pc |-> "judging", guard |-> g, response |-> r, todo |-> todo,
                  kept |-> kept, choices |-> done, inForce |-> inForce ]
        BY <1>4
      <4>2. PICK mid : mid = [ pc |-> "judging", guard |-> g, response |-> r, todo |-> todo,
                               kept |-> all, choices |-> done, inForce |-> inForce ]
        OBVIOUS
      <4>3. [x EXCEPT !.kept = all] = mid
        BY ONLY <4>1, <4>2
      <4>4. [mid EXCEPT !.todo = left]
              = [ pc |-> "judging", guard |-> g, response |-> r, todo |-> left,
                  kept |-> all, choices |-> done, inForce |-> inForce ]
        BY ONLY <4>2
      <4>5. [x EXCEPT !.kept = all, !.todo = left]
              = [[x EXCEPT !.kept = all] EXCEPT !.todo = left]
        OBVIOUS
      <4>6. y = [ pc |-> "judging", guard |-> g, response |-> r, todo |-> left,
                  kept |-> all, choices |-> done, inForce |-> inForce ]
        BY ONLY <1>13, <3>2
      <4> QED
        BY ONLY <4>3, <4>4, <4>5, <4>6
    <3>4. x.kept = kept /\ x.todo = todo
      BY <1>3
    <3>5. [x EXCEPT !.kept = @ \o new, !.todo[1].tool_calls = Tail(@)]
            = [x EXCEPT !.kept = kept \o new, !.todo = [todo EXCEPT ![1].tool_calls = Tail(@)]]
      BY <3>4
    <3> QED
      BY <3>1, <3>2, <3>3, <3>5
  <2>3. conn' = [conn EXCEPT ![c] =
                   [x EXCEPT !.kept = @ \o new, !.todo[1].tool_calls = Tail(@)]]
    BY <1>1, <1>10, <2>1
  <2> QED
    BY <2>2, <2>3
<1>18. y \in Judging
  BY <1>4, <1>12, <1>13, <1>16 DEF Judging
<1>19. Progress(y)
  <2>1. PICK kept1, rest1 : kept1 = kept \o new /\ rest1 = Tail(rest)
    OBVIOUS
  <2>2. /\ y.guard = g /\ y.inForce = inForce /\ y.response = r /\ y.todo = todo1
        /\ y.kept = kept1 /\ y.choices = done
    BY <1>13, <2>1
  <2>3. /\ Len(calls) - Len(rest1) = m + 1
        /\ m + 1 \in Nat
    BY <1>6, <1>8, <1>9, <1>14, <2>1
  <2>4. \A k \in 1 .. Len(rest1) : rest1[k] = calls[m + 1 + k]
    <3> SUFFICES ASSUME NEW k \in 1 .. Len(rest1) PROVE rest1[k] = calls[m + 1 + k]
      OBVIOUS
    <3>1. /\ k \in 1 .. Len(rest) - 1 /\ k + 1 \in 1 .. Len(rest)
          /\ m + 1 + k = m + (k + 1)
      BY <1>6, <1>8, <1>14, <2>1
    <3> QED
      BY <1>8, <1>14, <2>1, <3>1
  <2>5. \A k \in 2 .. Len(todo1) : todo1[k] = r[d + k]
    BY <1>8, <1>16
  <2>6. todo1[1].tool_calls = rest1
    BY <1>15, <1>16, <2>1
  <2>7. Len(y.choices) = d /\ Len(y.choices) + 1 = d + 1
    BY <1>7, <2>2
  <2>8. y.guard \in y.inForce /\ Len(y.choices) + Len(y.todo) = Len(y.response)
    BY <1>8, <1>16, <2>2, <2>7
  <2>9. \A i \in 1 .. Len(y.choices) : JudgedBy(y.guard, y.response[i], y.choices[i])
    BY <1>8, <2>2, <2>7
  <2>10. \A k \in 2 .. Len(y.todo) : y.todo[k] = y.response[Len(y.choices) + k]
    BY <2>2, <2>5, <2>7
  <2>11. y.response[Len(y.choices) + 1].tool_calls = calls /\ y.todo[1].tool_calls = rest1
    BY <1>7, <2>2, <2>6, <2>7
  <2>12. JudgedUpTo(y.guard, calls, m + 1, y.kept)
    BY <1>12, <2>1, <2>2
  <2> QED
    BY ONLY <2>3, <2>4, <2>8, <2>9, <2>10, <2>11, <2>12 DEF Progress
<1>20. Proper(y)
  BY <1>13, <1>18, <1>19 DEF Proper
<1>21. UNCHANGED <<policy, intel, refresh, local, remote>>
  BY DEF JudgeCall
<1> QED
  BY ONLY IndInv, c \in Conn, <1>17, <1>20, <1>21, ExchangeGoesOn

\* What becomes of a choice: its words masked or a notice, and the calls that were kept.
LEMMA EnforcedIsRewritten ==
  ASSUME NEW first \in Pending, NEW kept \in Seq(Kept)
  PROVE  LET masked == [first EXCEPT !.content = mask_secrets_in_text(@)]
         IN  Enforced(masked, kept) \in Rewritten /\ Enforced(masked, kept).tool_calls = kept
<1>1. PICK text : text = mask_secrets_in_text(first.content)
  OBVIOUS
<1>2. PICK masked : masked = [first EXCEPT !.content = text]
  OBVIOUS
<1>3. masked.content = text
  BY <1>2 DEF Pending
<1>4. PICK words : words = IF masked.asks /\ kept = << >> /\ masked.content = << >>
                           THEN BlockedNotice ELSE masked.content
  OBVIOUS
<1>5. words \in {mask_secrets_in_text(t) : t \in Said} \cup {BlockedNotice}
  BY <1>1, <1>3, <1>4 DEF Pending
<1>6. Enforced(masked, kept) = [content |-> words, asks |-> kept # << >>, tool_calls |-> kept]
  BY <1>4 DEF Enforced
<1>7. PICK asks \in BOOLEAN : asks = (kept # << >>)
  OBVIOUS
<1>8. Enforced(masked, kept) \in Rewritten /\ Enforced(masked, kept).tool_calls = kept
  BY <1>5, <1>6, <1>7 DEF Rewritten
<1> QED
  BY <1>1, <1>2, <1>8

\* A choice of which every call is judged takes its place in the answer.
LEMMA FinishChoiceStep == ASSUME IndInv, NEW c \in Conn, FinishChoice(c) PROVE IndInv'
<1>1. PICK x : x = conn[c]
  OBVIOUS
<1>2. x \in Judging /\ Progress(x)
  BY <1>1 DEF FinishChoice, IndInv, Proper
<1>3. PICK g, r, todo, kept, done, inForce :
        /\ g = x.guard /\ r = x.response /\ todo = x.todo /\ kept = x.kept
        /\ done = x.choices /\ inForce = x.inForce
  OBVIOUS
<1>4. /\ g \in Guards /\ r \in Seq(Offered) /\ todo \in Seq(Pending)
      /\ kept \in Seq(Kept) /\ done \in Seq(Rewritten) /\ inForce \in SUBSET Guards
      /\ x = [ pc |-> "judging", guard |-> g, response |-> r, todo |-> todo,
               kept |-> kept, choices |-> done, inForce |-> inForce ]
  BY <1>2, <1>3, JudgingFields
<1>5. PICK first : first = todo[1]
  OBVIOUS
<1>6. /\ todo # << >> /\ Len(todo) \in Nat /\ Len(todo) >= 1
      /\ first \in Pending /\ first.tool_calls = << >> /\ Head(todo) = first
  <2>1. todo # << >> /\ Head(todo).tool_calls = << >>
    BY <1>1, <1>3 DEF FinishChoice
  <2>2. Len(todo) \in Nat /\ Len(todo) >= 1 /\ Head(todo) = first /\ first \in Pending
    BY <1>4, <1>5, <2>1
  <2> QED
    BY <2>1, <2>2
<1>7. PICK d, calls : d = Len(done) /\ calls = r[d + 1].tool_calls
  OBVIOUS
<1>8. /\ g \in inForce
      /\ d + Len(todo) = Len(r)
      /\ \A i \in 1 .. d : JudgedBy(g, r[i], done[i])
      /\ \A k \in 2 .. Len(todo) : todo[k] = r[d + k]
      /\ JudgedUpTo(g, calls, Len(calls) - 0, kept)
  <2>1. Len(first.tool_calls) = 0
    BY <1>6
  <2> QED
    BY <1>2, <1>3, <1>5, <1>6, <1>7, <2>1, ZenonT(60) DEF Progress
<1>9. d \in Nat /\ Len(r) \in Nat /\ r[d + 1] \in Pending /\ calls \in Seq(Asked)
      /\ Len(calls) \in Nat /\ Len(calls) - 0 = Len(calls)
  <2>1. d \in Nat /\ Len(r) \in Nat
    BY <1>4, <1>7
  <2>2. d + 1 \in 1 .. Len(r)
    BY <1>6, <1>8, <2>1
  <2>3. r[d + 1] \in Pending
    BY <1>4, <2>2, Shapes
  <2>4. calls \in Seq(Asked)
    BY <1>7, <2>3 DEF Pending
  <2>5. Len(calls) \in Nat
    BY <2>4
  <2> QED
    BY <2>1, <2>3, <2>4, <2>5
<1>10. PICK out : out = Enforced([first EXCEPT !.content = mask_secrets_in_text(@)], kept)
  OBVIOUS
<1>11. out \in Rewritten /\ out.tool_calls = kept
  BY <1>4, <1>6, <1>10, EnforcedIsRewritten
<1>12. JudgedBy(g, r[d + 1], out)
  BY <1>7, <1>8, <1>9, <1>11, AllJudged
<1>13. PICK done1, todo1, y :
         /\ done1 = Append(done, out)
         /\ todo1 = Tail(todo)
         /\ y = [ pc |-> "judging", guard |-> g, response |-> r, todo |-> todo1,
                  kept |-> << >>, choices |-> done1, inForce |-> inForce ]
  OBVIOUS
<1>14. /\ done1 \in Seq(Rewritten) /\ Len(done1) = d + 1
       /\ \A i \in 1 .. d : done1[i] = done[i]
       /\ done1[d + 1] = out
  BY <1>4, <1>7, <1>11, <1>13
<1>15. /\ todo1 \in Seq(Pending) /\ Len(todo1) = Len(todo) - 1
       /\ \A k \in 1 .. Len(todo) - 1 : todo1[k] = todo[k + 1]
  BY <1>4, <1>6, <1>13
<1>16. conn' = [conn EXCEPT ![c] = y]
  <2>1. DOMAIN conn = Conn
    BY DEF IndInv
  <2>2. conn' = [conn EXCEPT ![c].choices = Append(@, out), ![c].todo = Tail(@),
                             ![c].kept = << >>]
    BY <1>1, <1>3, <1>6, <1>10 DEF FinishChoice
  <2>3. conn' = [conn EXCEPT ![c] = [x EXCEPT !.choices = done1, !.todo = todo1,
                                              !.kept = << >>]]
    BY <1>1, <1>3, <1>13, <2>1, <2>2
  <2>4. x = [ pc |-> "judging", guard |-> g, response |-> r, todo |-> todo,
              kept |-> kept, choices |-> done, inForce |-> inForce ]
    BY <1>4
  <2>5. PICK u, v :
          /\ u = [ pc |-> "judging", guard |-> g, response |-> r, todo |-> todo,
                   kept |-> kept, choices |-> done1, inForce |-> inForce ]
          /\ v = [ pc |-> "judging", guard |-> g, response |-> r, todo |-> todo1,
                   kept |-> kept, choices |-> done1, inForce |-> inForce ]
    OBVIOUS
  <2>6. y = [ pc |-> "judging", guard |-> g, response |-> r, todo |-> todo1,
              kept |-> << >>, choices |-> done1, inForce |-> inForce ]
    BY <1>13
  <2>7. [x EXCEPT !.choices = done1] = u
    BY ONLY <2>4, <2>5
  <2>8. [u EXCEPT !.todo = todo1] = v
    BY ONLY <2>5
  <2>9. [v EXCEPT !.kept = << >>] = y
    BY ONLY <2>5, <2>6
  <2>10. [x EXCEPT !.choices = done1, !.todo = todo1, !.kept = << >>]
           = [[[x EXCEPT !.choices = done1] EXCEPT !.todo = todo1] EXCEPT !.kept = << >>]
    OBVIOUS
  <2>11. [x EXCEPT !.choices = done1, !.todo = todo1, !.kept = << >>] = y
    BY ONLY <2>7, <2>8, <2>9, <2>10
  <2> QED
    BY <2>3, <2>11
<1>17. y \in Judging
  BY <1>4, <1>13, <1>14, <1>15 DEF Judging
<1>18. Progress(y)
  <2>1. /\ y.guard = g /\ y.inForce = inForce /\ y.response = r /\ y.todo = todo1
        /\ y.kept = << >> /\ y.choices = done1
    BY <1>13
  <2>2. \A i \in 1 .. d + 1 : JudgedBy(g, r[i], done1[i])
    <3> SUFFICES ASSUME NEW i \in 1 .. d + 1 PROVE JudgedBy(g, r[i], done1[i])
      OBVIOUS
    <3>1. CASE i = d + 1
      BY <1>12, <1>14, <3>1
    <3>2. CASE i # d + 1
      <4>1. i \in 1 .. d
        BY <1>9, <3>2
      <4> QED
        BY <1>8, <1>14, <4>1
    <3> QED
      BY <3>1, <3>2
  <2>3. \A k \in 1 .. Len(todo1) : todo1[k] = r[d + 1 + k]
    <3> SUFFICES ASSUME NEW k \in 1 .. Len(todo1) PROVE todo1[k] = r[d + 1 + k]
      OBVIOUS
    <3>1. /\ k \in 1 .. Len(todo) - 1 /\ k + 1 \in 2 .. Len(todo)
          /\ d + 1 + k = d + (k + 1)
      BY <1>6, <1>9, <1>15
    <3> QED
      BY <1>8, <1>15, <3>1
  <2>4. ASSUME todo1 # << >>
        PROVE  LET left == todo1[1].tool_calls
                   all == r[d + 1 + 1].tool_calls
               IN  /\ Len(all) - Len(left) = 0
                   /\ left = all
    <3>1. 1 \in 1 .. Len(todo1)
      BY <1>15, <2>4
    <3>2. todo1[1] = r[d + 1 + 1] /\ todo1[1] \in Pending
      BY <1>15, <2>3, <3>1
    <3>3. todo1[1].tool_calls \in Seq(Asked)
      BY <3>2 DEF Pending
    <3>4. Len(todo1[1].tool_calls) \in Nat
      BY <3>3
    <3> QED
      BY <3>2, <3>4
  <2>5. ASSUME todo1 # << >>
        PROVE  LET left == todo1[1].tool_calls
                   all == r[d + 1 + 1].tool_calls
                   m == Len(all) - Len(left)
               IN  /\ m \in Nat
                   /\ \A k \in 1 .. Len(left) : left[k] = all[m + k]
                   /\ JudgedUpTo(g, all, m, << >>)
    <3>1. PICK left, all : left = todo1[1].tool_calls /\ all = r[d + 1 + 1].tool_calls
      OBVIOUS
    <3>2. Len(all) - Len(left) = 0 /\ left = all
      BY <2>4, <2>5, <3>1
    <3>3. JudgedUpTo(g, all, 0, << >>)
      BY NothingJudged
    <3>4. \A k \in 1 .. Len(left) : 0 + k = k
      OBVIOUS
    <3>5. \A k \in 1 .. Len(left) : left[k] = all[0 + k]
      BY <3>2, <3>4
    <3> QED
      BY <3>1, <3>2, <3>3, <3>5
  <2>6. d + 1 + Len(todo1) = Len(r)
    BY <1>6, <1>8, <1>9, <1>15
  <2>7. \A k \in 2 .. Len(todo1) : todo1[k] = r[d + 1 + k]
    <3>1. \A k \in 2 .. Len(todo1) : k \in 1 .. Len(todo1)
      BY <1>6, <1>15
    <3> QED
      BY <2>3, <3>1
  <2> QED
    BY <1>8, <1>14, <2>1, <2>2, <2>5, <2>6, <2>7, ZenonT(60) DEF Progress
<1>19. Proper(y)
  BY <1>13, <1>17, <1>18 DEF Proper
<1>20. UNCHANGED <<policy, intel, refresh, local, remote>>
  BY DEF FinishChoice
<1> QED
  BY <1>16, <1>19, <1>20, ExchangeGoesOn

\* The answer goes out once no choice is left.
LEMMA ReplyStep == ASSUME IndInv, NEW c \in Conn, Reply(c) PROVE IndInv'
<1>1. PICK x : x = conn[c]
  OBVIOUS
<1>2. x \in Judging /\ Progress(x) /\ x.todo = << >>
  BY <1>1 DEF Reply, IndInv, Proper
<1>3. /\ x.choices \in Seq(Rewritten) /\ x.response \in Seq(Offered)
  BY <1>2, JudgingFields
<1>4. PICK y : y = [ pc |-> "enforced", response |-> x.response, choices |-> x.choices,
                     inForce |-> x.inForce ]
  OBVIOUS
<1>5. Settled(y)
  <2>1. /\ x.guard \in x.inForce
        /\ Len(x.choices) + 0 = Len(x.response)
        /\ \A i \in 1 .. Len(x.choices) : JudgedBy(x.guard, x.response[i], x.choices[i])
    <3>1. Len(x.todo) = 0
      BY <1>2
    <3> QED
      BY <1>2, <3>1 DEF Progress
  <2>2. /\ Len(x.choices) \in Nat /\ DOMAIN x.choices = 1 .. Len(x.choices)
        /\ Len(x.choices) + 0 = Len(x.choices)
    BY <1>3
  <2>3. y.choices = x.choices /\ y.response = x.response /\ y.inForce = x.inForce
    BY <1>4
  <2> QED
    BY <1>3, <2>1, <2>2, <2>3, ZenonT(60) DEF Settled
<1>6. Proper(y)
  BY <1>4, <1>5 DEF Proper
<1>7. conn' = [conn EXCEPT ![c] = y] /\ UNCHANGED <<policy, intel, refresh, local, remote>>
  BY <1>1, <1>4 DEF Reply
<1> QED
  BY <1>6, <1>7, ExchangeGoesOn

-----------------------------------------------------------------------------
(* The background task and what it reads.                                  *)

\* What comes into force while a response is judged is noted, and leaves the guard and
\* the progress of the response as they are.
LEMMA NotedIsProper ==
  ASSUME NEW x, Proper(x), NEW guard \in Guards
  PROVE  Proper(IF x.pc = "judging" THEN [x EXCEPT !.inForce = @ \cup {guard}] ELSE x)
<1>1. CASE x.pc # "judging"
  BY <1>1
<1>2. CASE x.pc = "judging"
  <2>1. x \in Judging /\ Progress(x)
    BY <1>2 DEF Proper
  <2>2. PICK inForce : inForce = x.inForce \cup {guard}
    OBVIOUS
  <2>3. PICK y : y = [x EXCEPT !.inForce = inForce]
    OBVIOUS
  <2>4. /\ y \in Judging /\ y.pc = "judging" /\ y.inForce = inForce
        /\ y.guard = x.guard /\ y.response = x.response /\ y.todo = x.todo
        /\ y.kept = x.kept /\ y.choices = x.choices
    <3>1. inForce \in SUBSET Guards
      BY <2>1, <2>2 DEF Judging
    <3> QED
      BY <2>1, <2>3, <3>1 DEF Judging
  <2>5. x.guard \in y.inForce
    BY <2>1, <2>2, <2>4 DEF Progress
  <2>6. Progress(y)
    BY <2>1, <2>4, <2>5, ZenonT(60) DEF Progress
  <2>7. Proper(y)
    BY <2>4, <2>6 DEF Proper
  <2> QED
    BY <1>2, <2>2, <2>3, <2>7
<1> QED
  BY <1>1, <1>2

\* Something comes into force: a policy, or what the refresh of the indicators installs.
LEMMA InForceStep ==
  ASSUME IndInv, NEW guard \in Guards, NoteInForce(guard),
         policy' \in Policies, intel' \in SUBSET Tool, UNCHANGED <<local, remote>>,
         UNCHANGED refresh \/ refresh' = [pc |-> "idle"]
  PROVE  IndInv'
<1> DEFINE Noted(x) == IF x.pc = "judging" THEN [x EXCEPT !.inForce = @ \cup {guard}] ELSE x
<1>1. conn' = [c \in Conn |-> Noted(conn[c])]
  BY DEF NoteInForce
<1>2. \A c \in Conn : Proper(Noted(conn[c]))
  BY NotedIsProper DEF IndInv
<1> HIDE DEF Noted
<1>3. \A c \in Conn : Proper(conn'[c])
  BY <1>1, <1>2
<1>4. DOMAIN conn' = Conn /\ conn' = [c \in Conn |-> conn'[c]]
  BY <1>1
<1>5. refresh'.pc = "fetch" => refresh'.local \in SUBSET Tool
  BY DEF IndInv
<1> QED
  BY <1>3, <1>4, <1>5 DEF IndInv

\* A policy refresh.
LEMMA InstallPolicyStep ==
  ASSUME IndInv, NEW p \in Policies, InstallPolicy(p)
  PROVE  IndInv'
<1>1. [policy |-> p, intel |-> intel] \in Guards
  BY DEF IndInv, Guards
<1>2. policy' = p /\ UNCHANGED <<intel, refresh, local, remote>>
      /\ NoteInForce([policy |-> p, intel |-> intel])
  BY DEF InstallPolicy
<1>3. policy' \in Policies /\ intel' \in SUBSET Tool
  BY <1>2 DEF IndInv
<1> QED
  BY <1>1, <1>2, <1>3, InForceStep

\* The refresh of the indicators.
LEMMA RefreshInstallsStep == ASSUME IndInv, RefreshInstalls PROVE IndInv'
<1>1. /\ intel' \in {refresh.local \cup remote, refresh.local}
      /\ NoteInForce([policy |-> policy, intel |-> intel'])
      /\ UNCHANGED <<policy, local, remote>> /\ refresh' = [pc |-> "idle"]
  BY DEF RefreshInstalls
<1>2. refresh.local \in SUBSET Tool /\ remote \in SUBSET Tool
  BY DEF RefreshInstalls, IndInv
<1>3. intel' \in SUBSET Tool
  BY <1>1, <1>2
<1>4. PICK guard : guard = [policy |-> policy, intel |-> intel']
  OBVIOUS
<1>5. guard \in Guards
  BY <1>3, <1>4 DEF IndInv, Guards
<1>6. policy' \in Policies
  BY <1>1 DEF IndInv
<1> QED
  BY <1>1, <1>3, <1>4, <1>5, <1>6, InForceStep

\* The sources change, the interval elapses, the refresh reads the file.
LEMMA SourcesStep ==
  ASSUME IndInv,
         (\E feed \in Feeds : ChangeFeed(feed)) \/ IntervalElapses \/ RefreshReadsFile
  PROVE  IndInv'
<1>1. UNCHANGED <<conn, policy, intel>>
  BY DEF ChangeFeed, IntervalElapses, RefreshReadsFile
<1>2. local' \in SUBSET Tool /\ remote' \in SUBSET Tool
  BY SetsAssumption DEF ChangeFeed, IntervalElapses, RefreshReadsFile, IndInv
<1>3. refresh'.pc = "fetch" => refresh'.local \in SUBSET Tool
  BY DEF ChangeFeed, IntervalElapses, RefreshReadsFile, IndInv
<1> QED
  BY <1>1, <1>2, <1>3 DEF IndInv

\* Every step keeps the invariant.
LEMMA NextIndInv == IndInv /\ [Next]_vars => IndInv'
<1> SUFFICES ASSUME IndInv, [Next]_vars PROVE IndInv'
  OBVIOUS
<1>1. CASE UNCHANGED vars
  BY <1>1 DEF vars, IndInv
<1>2. CASE \E c \in Conn : Exchange(c)
  BY <1>2, ReadRequestStep, SendUpstreamStep, UpstreamFailsStep, ReceiveStep, JudgeCallStep,
     FinishChoiceStep, ReplyStep DEF Exchange
<1>3. CASE \E p \in Policies : InstallPolicy(p)
  BY <1>3, InstallPolicyStep
<1>4. CASE RefreshInstalls
  BY <1>4, RefreshInstallsStep
<1>5. CASE (\E feed \in Feeds : ChangeFeed(feed)) \/ IntervalElapses \/ RefreshReadsFile
  BY <1>5, SourcesStep
<1> QED
  BY <1>1, <1>2, <1>3, <1>4, <1>5 DEF Next

-----------------------------------------------------------------------------
(* The theorems.                                                           *)

\* The inductive invariant holds of every reachable state.
THEOREM FirewallInvariant == Spec => []IndInv
<1>1. IndInv /\ [Next]_vars => IndInv'
  BY NextIndInv
<1> QED
  BY InitIndInv, <1>1, PTL DEF Spec

\* Every response is enforced as a whole by one guard that was in force while it was
\* judged, whatever is installed between two of its calls, and a call that is dropped
\* takes no sibling with it (enforce_response_tool_calls takes its guard once).
THEOREM OneGuardJudges == Spec => []ResponsesAreJudgedByOneGuard
<1>1. IndInv => ResponsesAreJudgedByOneGuard
  BY DEF IndInv, Proper, Settled, ResponsesAreJudgedByOneGuard
<1> QED
  BY <1>1, FirewallInvariant, PTL

\* What masking has to do with each body, each text and each call, one at a time.
MaskingCleans ==
  /\ \A request \in Requests : MaskedBody(mask_secrets_in_frame(request.body))
  /\ \A response \in Responses : MaskedBody(mask_secrets_in_frame(response.body))
  /\ \A text \in Said : SecretFree(mask_secrets_in_text(text))
  /\ \A call \in Asked : Masked(Forwarded(call).arguments)

\* An exchange has no way out around the masking: if masking clears each body, text and
\* call, then nothing the scanner recognizes leaves, in either direction, whichever steps
\* of other exchanges and of the background task come between.
THEOREM NothingLeavesAround ==
  ASSUME MaskingCleans
  PROVE  Spec => []NothingRecognizedLeaves
<1>1. IndInv => NothingRecognizedLeaves
  <2> SUFFICES ASSUME IndInv, NEW c \in Conn
               PROVE  /\ conn[c].pc = "upstream" => MaskedBody(conn[c].sent)
                      /\ conn[c].pc = "passed" => MaskedBody(conn[c].body)
                      /\ conn[c].pc = "enforced" =>
                           \A i \in DOMAIN conn[c].choices :
                             /\ SecretFree(conn[c].choices[i].content)
                             /\ \A k \in DOMAIN conn[c].choices[i].tool_calls :
                                  Masked(conn[c].choices[i].tool_calls[k].arguments)
    BY DEF NothingRecognizedLeaves
  <2>1. Proper(conn[c])
    BY DEF IndInv
  <2>2. conn[c].pc = "upstream" => MaskedBody(conn[c].sent)
    BY <2>1 DEF Proper, Sent, MaskingCleans
  <2>3. conn[c].pc = "passed" => MaskedBody(conn[c].body)
    BY <2>1 DEF Proper, Passed, MaskingCleans
  <2>4. ASSUME conn[c].pc = "enforced", NEW i \in DOMAIN conn[c].choices
        PROVE  /\ SecretFree(conn[c].choices[i].content)
               /\ \A k \in DOMAIN conn[c].choices[i].tool_calls :
                    Masked(conn[c].choices[i].tool_calls[k].arguments)
    <3>1. PICK out \in Rewritten : out = conn[c].choices[i]
      BY <2>1, <2>4 DEF Proper, Settled
    <3>2. SecretFree(BlockedNotice)
      BY DEF SecretFree, BlockedNotice, SecretPattern
    <3>3. SecretFree(out.content)
      BY <3>2 DEF Rewritten, MaskingCleans
    <3>4. out.tool_calls \in Seq(Kept)
      BY DEF Rewritten
    <3>5. \A k \in DOMAIN out.tool_calls : Masked(out.tool_calls[k].arguments)
      BY <3>4 DEF Kept, MaskingCleans
    <3> QED
      BY <3>1, <3>3, <3>5
  <2> QED
    BY <2>2, <2>3, <2>4
<1> QED
  BY <1>1, FirewallInvariant, PTL
=============================================================================
