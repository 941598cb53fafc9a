---------------------------- MODULE HttpFirewall ----------------------------
(***************************************************************************)
(* The agent firewall (http_serve.rs): an HTTP proxy for chat completions  *)
(* that masks what goes to the model and judges each tool call the model   *)
(* asks for, while the background task of main.rs refreshes the policy and *)
(* the threat-intel store (threat_intel.rs) under it.                      *)
(*                                                                         *)
(* Every connection is served by a task of its own.  An exchange reads its *)
(* request, masks it, waits for the upstream, takes one guard for the      *)
(* response, and then waits for the gateway once per tool call.  Between   *)
(* any two of these the other tasks run.                                   *)
(*                                                                         *)
(* External: the upstream, which answers anything; the policy store, whose *)
(* refreshes are modelled in PolicyStore and appear here as one step that  *)
(* installs another policy; and the gateway (Gateway), which denies what   *)
(* its policy denies, may deny what its indicators match (an operator      *)
(* confirms or declines), allows the rest, and hands back the arguments as *)
(* the content scanner left them.                                          *)
(***************************************************************************)
EXTENDS DlpScanner, FiniteSets

CONSTANTS
  Conn,        \* connections
  Requests,    \* requests: [chat, stream, body], where only a POST asks for a stream
  Responses,   \* what the upstream may send: [success, body, lists, choices], where
               \* lists tells whether the body has an array of choices
  Tool,        \* tools the model may call
  Policies,    \* policies, each the set of tools it denies
  Feeds,       \* states of a threat-intel source, each a set of tools it lists
  MaxChanges   \* bound: how often policies and feeds change

\* The indicators of the model match the calls of a tool.
ASSUME SetsAssumption ==
  /\ Policies \subseteq SUBSET Tool /\ Feeds \subseteq SUBSET Tool /\ MaxChanges \in Nat

\* What the upstream lists: choices with the calls the model asks for.
Text == Seq(STRING)
ModelCall == [id : Nat, tool : Tool, wellFormed : BOOLEAN, arguments : Text]
ModelChoice == [content : Text, asks : BOOLEAN, tool_calls : Seq(ModelCall)]

ASSUME ResponseAssumption == \A response \in Responses : response.choices \in Seq(ModelChoice)

VARIABLES
  conn,     \* [Conn -> what the exchange is in the middle of]
  policy,   \* the engine the policy store holds
  intel,    \* the matcher the threat-intel store holds
  fresh,    \* whether the store was refreshed within THREAT_INTEL_REFRESH_INTERVAL
  refresh,  \* the background task: idle, or what it read of the local file
  local,    \* external: the indicators of the local file
  remote,   \* external: the indicators of the control plane
  changes   \* how often policy, local and remote have changed

vars == <<conn, policy, intel, fresh, refresh, local, remote, changes>>

Idle == [pc |-> "idle"]

\* Startup merges both sources, or takes the local one when the other fails; the new
\* store counts as stale.
Init ==
  /\ conn = [c \in Conn |-> Idle]
  /\ policy \in Policies
  /\ local \in Feeds /\ remote \in Feeds
  /\ intel \in {local, local \cup remote}
  /\ fresh = FALSE /\ refresh = [pc |-> "idle"]
  /\ changes = 0

-----------------------------------------------------------------------------
(* Judging a response.  A choice is [content, asks, tool_calls]: content   *)
(* is a text, empty for null; asks tells whether there is a tool_calls     *)
(* field.  A call is [id, tool, wellFormed, arguments].                    *)

\* AppState::guard: the two snapshots (the third, the availability of the policy, is
\* PolicyStore's).
Guard == [policy |-> policy, intel |-> intel]

\* What the gateway may decide; its risk stage masks what the scanner recognizes.
Evaluate(guard, call) ==
  IF call.tool \in guard.policy THEN {"deny"}
  ELSE IF call.tool \in guard.intel THEN {"deny", "allow"}
  ELSE {"allow"}

\* mask_secrets_in_text
mask_secrets_in_text(text) == mask_secret_patterns(text)

\* An allowed call with its arguments as scanned; a call whose arguments the gateway
\* left alone is masked for secrets here.
Forwarded(call) ==
  LET scanned == scan_string(call.arguments)
  IN  [call EXCEPT !.arguments =
         IF scanned # @ THEN scanned ELSE mask_secrets_in_text(@)]

\* Mutant of enforce_one_tool_call: each call is judged by the policy of the moment.
enforce_one_tool_call_live(guard, call) ==
  IF ~call.wellFormed THEN {<< >>}
  ELSE {IF verdict = "allow" THEN <<Forwarded(call)>> ELSE << >> :
          verdict \in Evaluate([guard EXCEPT !.policy = policy], call)}

\* enforce_one_tool_call: nothing is kept of a call that cannot be normalized or that
\* is denied.
enforce_one_tool_call(guard, call) ==
  IF ~call.wellFormed THEN {<< >>}
  ELSE {IF verdict = "allow" THEN <<Forwarded(call)>> ELSE << >> :
          verdict \in Evaluate(guard, call)}

BlockedNotice == <<"[blocked]">>

\* The choice once all its calls are judged: one with nothing kept loses the field,
\* and gets a notice when it would say nothing.
Enforced(choice, kept) ==
  [ content |-> IF choice.asks /\ kept = << >> /\ choice.content = << >>
                THEN BlockedNotice ELSE choice.content,
    asks |-> kept # << >>,
    tool_calls |-> kept ]

-----------------------------------------------------------------------------
(* An exchange. *)

Answer(status) == [pc |-> "answered", status |-> status]

ReadRequest(c, request) ==
  /\ conn[c].pc = "idle"
  /\ conn' = [conn EXCEPT ![c] = [pc |-> "request", request |-> request]]
  /\ UNCHANGED <<policy, intel, fresh, refresh, local, remote, changes>>

\* handle_request_inner up to send(): the body is masked, a stream is refused.
SendUpstream(c) ==
  /\ conn[c].pc = "request"
  /\ LET request == conn[c].request
         outbound == mask_secrets_in_frame(request.body)
     IN  IF request.chat /\ request.stream /\ request.body.json
         THEN conn' = [conn EXCEPT ![c] = Answer("bad request")]
         ELSE conn' = [conn EXCEPT ![c] =
                         [pc |-> "upstream", chat |-> request.chat, sent |-> outbound]]
  /\ UNCHANGED <<policy, intel, fresh, refresh, local, remote, changes>>

\* send() or bytes() fails.
UpstreamFails(c) ==
  /\ conn[c].pc = "upstream"
  /\ conn' = [conn EXCEPT ![c] = Answer("bad gateway")]
  /\ UNCHANGED <<policy, intel, fresh, refresh, local, remote, changes>>

\* A successful chat response has to be JSON; when it lists choices, a guard is taken
\* for all its calls.  Any other body is masked and passed on.
Receive(c, response) ==
  /\ conn[c].pc = "upstream"
  /\ conn' = [conn EXCEPT ![c] =
       IF conn[c].chat /\ response.success /\ ~(response.body.utf8 /\ response.body.json)
       THEN Answer("bad gateway")
       ELSE IF conn[c].chat /\ response.success /\ response.lists
       THEN [ pc |-> "judging", guard |-> Guard, response |-> response.choices,
              todo |-> response.choices, kept |-> << >>, choices |-> << >>,
              inForce |-> {Guard} ]
       ELSE [pc |-> "passed", body |-> mask_secrets_in_frame(response.body)]]
  /\ UNCHANGED <<policy, intel, fresh, refresh, local, remote, changes>>

\* One tool call is drained, evaluated and kept or dropped.
JudgeCall(c) ==
  /\ conn[c].pc = "judging"
  /\ conn[c].todo # << >>
  /\ Head(conn[c].todo).tool_calls # << >>
  /\ \E kept \in enforce_one_tool_call(conn[c].guard, Head(Head(conn[c].todo).tool_calls)) :
       conn' = [conn EXCEPT ![c].kept = @ \o kept,
                            ![c].todo[1].tool_calls = Tail(@)]
  /\ UNCHANGED <<policy, intel, fresh, refresh, local, remote, changes>>

\* A choice has no more calls: its content is masked and its calls replaced.
FinishChoice(c) ==
  /\ conn[c].pc = "judging"
  /\ conn[c].todo # << >>
  /\ Head(conn[c].todo).tool_calls = << >>
  /\ LET masked == [Head(conn[c].todo) EXCEPT !.content = mask_secrets_in_text(@)]
     IN  conn' = [conn EXCEPT ![c].choices = Append(@, Enforced(masked, conn[c].kept)),
                              ![c].todo = Tail(@),
                              ![c].kept = << >>]
  /\ UNCHANGED <<policy, intel, fresh, refresh, local, remote, changes>>

Reply(c) ==
  /\ conn[c].pc = "judging"
  /\ conn[c].todo = << >>
  /\ conn' = [conn EXCEPT ![c] =
       [ pc |-> "enforced", response |-> conn[c].response, choices |-> conn[c].choices,
         inForce |-> conn[c].inForce ]]
  /\ UNCHANGED <<policy, intel, fresh, refresh, local, remote, changes>>

-----------------------------------------------------------------------------
(* The background task and what it reads. *)

Changed == changes < MaxChanges /\ changes' = changes + 1

\* Ghost: what comes into force while a response is being judged.
NoteInForce(guard) ==
  conn' = [c \in Conn |->
             IF conn[c].pc = "judging" THEN [conn[c] EXCEPT !.inForce = @ \cup {guard}]
             ELSE conn[c]]

\* A policy refresh installs p.
InstallPolicy(p) ==
  /\ p # policy /\ Changed
  /\ policy' = p
  /\ NoteInForce([policy |-> p, intel |-> intel])
  /\ UNCHANGED <<intel, fresh, refresh, local, remote>>

ChangeFeed(feed) ==
  /\ Changed
  /\ \/ feed # local /\ local' = feed /\ UNCHANGED remote
     \/ feed # remote /\ remote' = feed /\ UNCHANGED local
  /\ UNCHANGED <<conn, policy, intel, fresh, refresh>>

IntervalElapses ==
  /\ fresh /\ fresh' = FALSE
  /\ UNCHANGED <<conn, policy, intel, refresh, local, remote, changes>>

\* refresh_if_stale reads the file, and then waits for the control plane.
RefreshReadsFile ==
  /\ refresh.pc = "idle" /\ ~fresh
  /\ refresh' = [pc |-> "fetch", local |-> local]
  /\ UNCHANGED <<conn, policy, intel, fresh, local, remote, changes>>

\* Mutant of RefreshInstalls: an unreachable control plane leaves the store as it was.
RefreshInstallsOrKeeps ==
  /\ refresh.pc = "fetch"
  /\ intel' \in {refresh.local \cup remote, intel}
  /\ NoteInForce([policy |-> policy, intel |-> intel'])
  /\ fresh' = TRUE /\ refresh' = [pc |-> "idle"]
  /\ UNCHANGED <<policy, local, remote, changes>>

\* The control plane answers, or does not: the file alone is installed then.
RefreshInstalls ==
  /\ refresh.pc = "fetch"
  /\ intel' \in {refresh.local \cup remote, refresh.local}
  /\ NoteInForce([policy |-> policy, intel |-> intel'])
  /\ fresh' = TRUE /\ refresh' = [pc |-> "idle"]
  /\ UNCHANGED <<policy, local, remote, changes>>

Exchange(c) ==
  \/ \E request \in Requests : ReadRequest(c, request)
  \/ SendUpstream(c)
  \/ UpstreamFails(c)
  \/ \E response \in Responses : Receive(c, response)
  \/ JudgeCall(c)
  \/ FinishChoice(c)
  \/ Reply(c)

Next ==
  \/ \E c \in Conn : Exchange(c)
  \/ \E p \in Policies : InstallPolicy(p)
  \/ \E feed \in Feeds : ChangeFeed(feed)
  \/ IntervalElapses
  \/ RefreshReadsFile
  \/ RefreshInstalls

Spec == Init /\ [][Next]_vars

\* The background task runs every five seconds for as long as the process does, and a
\* fetch of the client has a timeout.
FairSpec ==
  /\ Spec
  /\ WF_vars(IntervalElapses) /\ WF_vars(RefreshReadsFile) /\ WF_vars(RefreshInstalls)

-----------------------------------------------------------------------------
(* Properties. *)

\* What happened to one choice is what one guard g says of it: each call that is kept
\* comes from one of the model's, in their order, well formed and not denied, and those
\* no kept call comes from are not well formed, denied, or listed by an indicator.
JudgedBy(g, before, after) ==
  LET calls == before.tool_calls
      kept == after.tool_calls
  IN  \E from \in [DOMAIN kept -> DOMAIN calls] :
        /\ \A i, j \in DOMAIN kept : i < j => from[i] < from[j]
        /\ \A i \in DOMAIN kept :
             /\ kept[i].id = calls[from[i]].id
             /\ calls[from[i]].wellFormed /\ calls[from[i]].tool \notin g.policy
        /\ \A k \in DOMAIN calls :
             (\E i \in DOMAIN kept : from[i] = k)
               \/ ~calls[k].wellFormed \/ calls[k].tool \in g.policy \cup g.intel

\* Every response is enforced as a whole by one policy and one set of indicators that
\* were in force while it was judged, whatever the background task installs between two
\* of its calls; and a call that is dropped takes none of its siblings, in its choice
\* or in another, with it.
ResponsesAreJudgedByOneGuard ==
  \A c \in Conn : conn[c].pc = "enforced" =>
    \E g \in conn[c].inForce :
      /\ Len(conn[c].choices) = Len(conn[c].response)
      /\ \A i \in DOMAIN conn[c].choices :
           JudgedBy(g, conn[c].response[i], conn[c].choices[i])

\* Nothing the scanner recognizes leaves in a body, in either direction, or in the
\* arguments of a call, whatever passes ran before the one that recognizes it; what still
\* looks like a card or a social security number stands in front of a mark, where the
\* masking of its end closed it.  The words of the model are cleared of secrets.
NothingRecognizedLeaves ==
  \A c \in Conn :
    /\ conn[c].pc = "upstream" => MaskedBody(conn[c].sent)
    /\ conn[c].pc = "passed" => MaskedBody(conn[c].body)
    /\ conn[c].pc = "enforced" =>
         \A i \in DOMAIN conn[c].choices :
           /\ SecretFree(conn[c].choices[i].content)
           /\ \A k \in DOMAIN conn[c].choices[i].tool_calls :
                Masked(conn[c].choices[i].tool_calls[k].arguments)

\* An indicator of the local file is in force in the end, even when the control plane
\* never answers, unless the file changes again.
LocalIndicatorsArrive ==
  \A feed \in Feeds : (local = feed) ~> (feed \subseteq intel \/ local # feed)
=============================================================================
