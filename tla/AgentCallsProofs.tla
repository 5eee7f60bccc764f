-------------------------- MODULE AgentCallsProofs --------------------------
(***************************************************************************)
(* AnswersTrue and GrantTold for every policy of retries, any number of    *)
(* calls, and whatever is lost, refused or done by others in between.      *)
(***************************************************************************)
EXTENDS CallProperties, TLAPS

\* The invariant holds at the start.
LEMMA CallInit == Init => CallInv
  BY DEF Init, WireInit, CallInv, Asks, Between, AnswerMeans, ResultMeans, Gives, NoAgent

-----------------------------------------------------------------------------
(* The platform's steps.                                                   *)

\* What an answer, or its loss, leaves of a request that made no result.
LEMMA Responding ==
  ASSUME NEW a, answer = None, Respond(a)
  PROVE  /\ answer' \in {None, a, Nothing}
         /\ seen' = [project |-> project, agent |-> agent']
  BY DEF Respond, Deliver, Again

\* What a step of the platform has to show.
LEMMA Serving ==
  ASSUME CallInv, request # None, answer = None,
         UNCHANGED <<project, request, result>>,
         seen' = [project |-> project, agent |-> agent'],
         issued' \in Nat,
         DOMAIN agent' = DOMAIN NoAgent,
         agent'.exists \/ agent'.versions = {},
         did \subseteq did',
         Asks("CreateVersion") => did' \subseteq 1 .. issued',
         AnswerMeans'
  PROVE  CallInv'
  <1>1. Between'
    BY DEF CallInv, Between
  <1>2. ResultMeans'
    <2>1. CASE result = None
      BY <2>1 DEF ResultMeans, Gives
    <2>2. CASE result # None
      <3>1. result.of = "CreateAgent" /\ result.is = "ok"
        BY <2>2 DEF CallInv, Between
      <3>2. "created" \in did
        BY <2>2, <3>1 DEF CallInv, ResultMeans, Gives
      <3> QED
        BY <3>1, <3>2 DEF ResultMeans, Gives
    <2> QED
      BY <2>1, <2>2
  <1>3. seen'.project = project' /\ (seen'.agent.exists \/ seen'.agent.versions = {})
    OBVIOUS
  <1>4. (Asks("CreateVersion") => did \subseteq 1 .. issued)' /\ (Asks("DeleteAgent") => request.on = "force")'
    BY DEF CallInv, Asks
  <1> QED
    BY <1>1, <1>2, <1>3, <1>4 DEF CallInv

\* A request that finds nothing.
LEMMA MissingKeeps ==
  ASSUME CallInv, ServeMissing, UNCHANGED clientVars
  PROVE  CallInv'
  <1>1. PICK a \in Missing : Respond(a)
    BY DEF ServeMissing
  <1>2. /\ answer' \in {None, a, Nothing}
        /\ seen' = [project |-> project, agent |-> agent']
    BY <1>1, Responding DEF ServeMissing
  <1>3. /\ UNCHANGED <<project, agent, issued, request, did>>
        /\ request # None /\ request.op \in DataPlane /\ answer = None
        /\ project => \/ request.op # "CreateAgent" /\ ~agent.exists
                      \/ request.op = "GetVersion" /\ request.on \notin agent.versions
    BY DEF ServeMissing, planeVars
  <1>4. /\ a.status = "missing"
        /\ a.body \in IF project THEN AgentBodies ELSE ProjectBodies
    BY DEF Missing, Answer
  <1>5. Nothing.status = "none"
    BY DEF Nothing, Answer
  <1>6. AnswerMeans'
    BY <1>2, <1>3, <1>4, <1>5 DEF AnswerMeans
  <1> QED
    BY <1>2, <1>3, <1>6, Serving DEF CallInv, Asks, clientVars

\* A request of which only the answer matters: the lookups.
LEMMA LookupKeeps ==
  ASSUME CallInv, UNCHANGED clientVars,
         ServeGetAgent \/ ServeGetVersion \/ ServeList \/ ServeFind
  PROVE  CallInv'
  <1>1. /\ UNCHANGED <<project, agent, issued, request, did>>
        /\ request # None /\ answer = None
        /\ request.op \in {"GetAgent", "GetVersion", "ListSubscriptions", "FindAccount"}
    BY DEF ServeGetAgent, ServeGetVersion, ServeList, ServeFind, Reached, Waits, planeVars
  <1>2. PICK a : Respond(a) /\ (request.op \in DataPlane => a.status = "ok")
    <2>1. CASE ServeGetAgent
      <3>1. Respond(Answer("ok", [identity |-> agent.identity, rules |-> agent.rules]))
        BY <2>1 DEF ServeGetAgent
      <3> QED
        BY <3>1 DEF Answer
    <2>2. CASE ServeGetVersion
      <3>1. Respond(Answer("ok", request.on))
        BY <2>2 DEF ServeGetVersion
      <3> QED
        BY <3>1 DEF Answer
    <2>3. CASE ServeList
      BY <2>3 DEF ServeList, Waits, DataPlane
    <2>4. CASE ServeFind
      <3>1. request.op \notin DataPlane
        BY <2>4 DEF ServeFind, Waits, DataPlane
      <3>2. \E a : Respond(a)
        BY <2>4 DEF ServeFind
      <3> QED
        BY <3>1, <3>2
    <2> QED
      BY <2>1, <2>2, <2>3, <2>4
  <1>3. /\ answer' \in {None, a, Nothing}
        /\ seen' = [project |-> project, agent |-> agent']
    BY <1>1, <1>2, Responding
  <1>4. Nothing.status = "none"
    BY DEF Nothing, Answer
  <1>5. AnswerMeans'
    BY <1>1, <1>2, <1>3, <1>4 DEF AnswerMeans
  <1> QED
    BY <1>1, <1>3, <1>5, Serving DEF CallInv, Asks, clientVars

\* A creation of the agent, or a conflict.
LEMMA CreateAgentKeeps ==
  ASSUME CallInv, ServeCreateAgent, UNCHANGED clientVars
  PROVE  CallInv'
  <1>1. /\ UNCHANGED <<project, issued, request>>
        /\ request # None /\ answer = None /\ request.op = "CreateAgent"
    BY DEF ServeCreateAgent, Waits, planeVars
  <1>2. PICK a : /\ Respond(a)
                 /\ a.status \in {"ok", "conflict"}
                 /\ a.status = "ok" => "created" \in did'
                 /\ did \subseteq did'
                 /\ DOMAIN agent' = DOMAIN NoAgent
                 /\ agent'.exists \/ agent'.versions = {}
    <2>1. CASE agent.exists
      <3>1. Respond(Answer("conflict", None)) /\ UNCHANGED <<planeVars, did>>
        BY <2>1 DEF ServeCreateAgent
      <3> QED
        BY <3>1 DEF Answer, planeVars, CallInv
    <2>2. CASE ~agent.exists
      <3>1. PICK who : Respond(Answer("ok", [identity |-> who, rules |-> <<>>]))
        BY <2>2 DEF ServeCreateAgent
      <3>2. did' = did \union {"created"}
        BY <2>2 DEF ServeCreateAgent
      <3>3. agent' = [NoAgent EXCEPT !.exists = TRUE, !.identity = minted']
        BY <2>2 DEF ServeCreateAgent
      <3>4. DOMAIN agent' = DOMAIN NoAgent /\ agent'.versions = {}
        BY <3>3 DEF NoAgent
      <3> QED
        BY <3>1, <3>2, <3>4 DEF Answer
    <2> QED
      BY <2>1, <2>2
  <1>3. /\ answer' \in {None, a, Nothing}
        /\ seen' = [project |-> project, agent |-> agent']
    BY <1>1, <1>2, Responding
  <1>4. Nothing.status = "none"
    BY DEF Nothing, Answer
  <1>5. AnswerMeans'
    BY <1>1, <1>2, <1>3, <1>4 DEF AnswerMeans
  <1> QED
    BY <1>1, <1>2, <1>3, <1>5, Serving DEF CallInv, Asks, clientVars

\* A new version has the highest number of all.
LEMMA CreateVersionKeeps ==
  ASSUME CallInv, ServeCreateVersion, UNCHANGED clientVars
  PROVE  CallInv'
  <1>1. /\ UNCHANGED <<project, request>>
        /\ request # None /\ answer = None /\ request.op = "CreateVersion"
        /\ issued' = issued + 1 /\ did' = did \union {issued'}
        /\ Respond(Answer("ok", issued'))
        /\ agent.exists /\ agent' = [agent EXCEPT !.versions = @ \union {issued'}]
    BY DEF ServeCreateVersion, Reached, Waits
  <1>2. /\ answer' \in {None, Answer("ok", issued'), Nothing}
        /\ seen' = [project |-> project, agent |-> agent']
    BY <1>1, Responding
  <1>3. /\ Nothing.status = "none"
        /\ Answer("ok", issued').status = "ok" /\ Answer("ok", issued').body = issued'
    BY DEF Nothing, Answer
  <1>4. AnswerMeans'
    BY <1>1, <1>2, <1>3 DEF AnswerMeans
  <1>5. issued' \in Nat /\ did' \subseteq 1 .. issued'
    <2>1. issued \in Nat /\ did \subseteq 1 .. issued
      BY <1>1 DEF CallInv, Asks
    <2> QED
      BY <1>1, <2>1
  <1>6. agent'.exists \/ agent'.versions = {}
    <2>1. "exists" \in DOMAIN agent /\ "versions" \in DOMAIN agent
      BY DEF CallInv, NoAgent
    <2> QED
      BY <1>1, <2>1
  <1>7. DOMAIN agent' = DOMAIN NoAgent
    BY <1>1 DEF CallInv
  <1> QED
    BY <1>1, <1>2, <1>4, <1>5, <1>6, <1>7, Serving DEF clientVars

\* The endpoint is set.
LEMMA SetEndpointKeeps ==
  ASSUME CallInv, ServeSetEndpoint, UNCHANGED clientVars
  PROVE  CallInv'
  <1>1. /\ UNCHANGED <<project, issued, request>>
        /\ request # None /\ answer = None /\ request.op = "SetEndpoint"
        /\ did' = did \union {"served"}
        /\ Respond(Answer("ok", None))
        /\ agent.exists /\ agent' = [agent EXCEPT !.rules = <<request.on>>]
    BY DEF ServeSetEndpoint, Reached, Waits
  <1>2. /\ answer' \in {None, Answer("ok", None), Nothing}
        /\ seen' = [project |-> project, agent |-> agent']
    BY <1>1, Responding
  <1>3. Nothing.status = "none" /\ Answer("ok", None).status = "ok"
    BY DEF Nothing, Answer
  <1>4. AnswerMeans'
    BY <1>1, <1>2, <1>3 DEF AnswerMeans
  <1>5. DOMAIN agent' = DOMAIN NoAgent
    BY <1>1 DEF CallInv
  <1>6. agent'.exists
    <2>1. "exists" \in DOMAIN agent
      BY DEF CallInv, NoAgent
    <2> QED
      BY <1>1, <2>1
  <1> QED
    BY <1>1, <1>2, <1>4, <1>5, <1>6, Serving DEF CallInv, Asks, clientVars

\* The agent is deleted, by force if need be.
LEMMA DeleteAgentKeeps ==
  ASSUME CallInv, ServeDeleteAgent, UNCHANGED clientVars
  PROVE  CallInv'
  <1>1. /\ request # None /\ answer = None /\ request.op = "DeleteAgent"
        /\ request.on = "force"
    BY DEF ServeDeleteAgent, Reached, Waits, CallInv, Asks
  <1>2. /\ UNCHANGED <<project, issued, request>>
        /\ agent' = NoAgent
        /\ did \subseteq did'
        /\ Respond(Answer("ok", None))
    BY <1>1 DEF ServeDeleteAgent
  <1>3. /\ answer' \in {None, Answer("ok", None), Nothing}
        /\ seen' = [project |-> project, agent |-> agent']
    BY <1>1, <1>2, Responding
  <1>4. Nothing.status = "none" /\ Answer("ok", None).status = "ok"
    BY DEF Nothing, Answer
  <1>5. ~agent'.exists /\ agent'.versions = {}
    BY <1>2 DEF NoAgent
  <1>6. AnswerMeans'
    BY <1>1, <1>2, <1>3, <1>4, <1>5 DEF AnswerMeans
  <1> QED
    BY <1>1, <1>2, <1>3, <1>5, <1>6, Serving DEF CallInv, Asks, clientVars

\* The role is assigned.
LEMMA AssignKeeps ==
  ASSUME CallInv, ServeAssign, UNCHANGED clientVars
  PROVE  CallInv'
  <1>1. /\ UNCHANGED <<project, agent, issued, request, did>>
        /\ request # None /\ answer = None /\ request.op = "PutAssignment"
    BY DEF ServeAssign, Waits
  <1>2. \E a : Respond(a)
    BY DEF ServeAssign
  <1>3. seen' = [project |-> project, agent |-> agent']
    BY <1>1, <1>2, Responding
  <1>4. AnswerMeans'
    BY <1>1 DEF AnswerMeans, DataPlane
  <1> QED
    BY <1>1, <1>3, <1>4, Serving DEF CallInv, Asks, clientVars

\* A refusal.
LEMMA RefuseKeeps ==
  ASSUME CallInv, Refuse, UNCHANGED clientVars
  PROVE  CallInv'
  <1>1. /\ UNCHANGED <<project, agent, issued, request, did>>
        /\ request # None /\ answer = None
        /\ seen' = [project |-> project, agent |-> agent']
        /\ answer' \in {None, Answer("throttled", None), Answer("denied", None)}
    BY DEF Refuse, Again, planeVars
  <1>2. /\ Answer("throttled", None).status = "throttled"
        /\ Answer("denied", None).status = "denied"
    BY DEF Answer
  <1>3. AnswerMeans'
    BY <1>1, <1>2 DEF AnswerMeans
  <1> QED
    BY <1>1, <1>3, Serving DEF CallInv, Asks, clientVars

\* What others do leaves what was answered as it was.
LEMMA OthersKeep ==
  ASSUME CallInv, Others, UNCHANGED clientVars
  PROVE  CallInv'
  <1>1. UNCHANGED <<project, issued, request, answer, seen, did>>
    BY DEF Others
  <1>2. DOMAIN agent' = DOMAIN NoAgent /\ (agent'.exists \/ agent'.versions = {})
    <2>1. DOMAIN agent = DOMAIN NoAgent /\ agent.exists
      BY DEF Others, CallInv
    <2>2. "exists" \in DOMAIN agent
      BY <2>1 DEF NoAgent
    <2>3. \/ agent' = NoAgent
          \/ agent' = [agent EXCEPT !.busy = TRUE]
          \/ \E v, w \in agent.versions : agent' = [agent EXCEPT !.rules = <<v, w>>]
          \/ agent' = agent
      BY DEF Others
    <2>4. ~NoAgent.exists /\ NoAgent.versions = {}
      BY DEF NoAgent
    <2> QED
      BY <2>1, <2>2, <2>3, <2>4
  <1>3. Between' /\ AnswerMeans' /\ ResultMeans'
    BY <1>1 DEF CallInv, Between, AnswerMeans, ResultMeans, Gives, clientVars
  <1> QED
    BY <1>1, <1>2, <1>3 DEF CallInv, Asks

-----------------------------------------------------------------------------
(* The client's steps.                                                     *)

\* A request is sent: nothing was answered to it yet, and what it follows has to
\* be a creation that goes on.
LEMMA Sending ==
  ASSUME NEW op, NEW on, CallInv, Ask(op, on),
         ResultMeans', Between',
         op = "CreateVersion" => did' = {},
         op = "DeleteAgent" => on = "force"
  PROVE  CallInv'
  <1>1. /\ request' = [op |-> op, on |-> on] /\ answer' = None
        /\ UNCHANGED <<project, agent, issued, seen>>
    BY DEF Ask, planeVars
  <1>2. AnswerMeans'
    BY <1>1 DEF AnswerMeans
  <1>3. (Asks("CreateVersion") => did \subseteq 1 .. issued)'
        /\ (Asks("DeleteAgent") => request.on = "force")'
    BY <1>1 DEF Asks
  <1> QED
    BY <1>1, <1>2, <1>3 DEF CallInv

\* A call returns: what its result says has to follow from what was answered.
LEMMA Returning ==
  ASSUME NEW is, NEW got, CallInv, request # None, answer # None,
         Done(is, got), ResultMeans'
  PROVE  CallInv'
  <1>1. /\ request' = None /\ answer' = None
        /\ UNCHANGED <<project, agent, issued, seen, did>>
    BY DEF Done, planeVars
  <1> QED
    BY <1>1 DEF CallInv, Asks, Between, AnswerMeans

\* The first request of a call.
LEMMA CallKeeps ==
  ASSUME CallInv, Call
  PROVE  CallInv'
  <1>1. result' = None /\ did' = {}
    BY DEF Call
  <1>2. ResultMeans' /\ Between'
    BY <1>1 DEF ResultMeans, Between, Gives
  <1>3. PICK op, on : Ask(op, on) /\ (op = "DeleteAgent" => on = "force")
    BY DEF Call
  <1> QED
    BY <1>1, <1>2, <1>3, Sending

\* The calls whose answers are read alike.
LEMMA ReadKeeps ==
  ASSUME CallInv, GetAgent \/ GetVersion \/ SetEndpoint
  PROVE  CallInv'
  <1>1. PICK op \in {"GetAgent", "GetVersion", "SetEndpoint"} :
          /\ Answered(op)
          /\ \E got : Done(Read(answer), got)
    BY DEF GetAgent, GetVersion, SetEndpoint
  <1>2. PICK got : Done(Read(answer), got)
    BY <1>1
  <1>3. request # None /\ request.op = op /\ answer # None /\ op \in DataPlane
    BY <1>1 DEF Answered, DataPlane
  <1>4. /\ result'.of = op /\ result'.on = request.on /\ result'.is = Read(answer)
        /\ UNCHANGED <<project, seen, did>>
    BY <1>2, <1>3 DEF Done, planeVars
  <1>5. /\ Read(answer) = "ok" => answer.status = "ok"
        /\ Read(answer) \in {"absent", "no project"} => answer.status = "missing"
        /\ Read(answer) = "no project" => answer.body.parses /\ answer.body.code # "not_found"
                                           /\ answer.body.marker
        /\ Read(answer) = "absent" => ~(answer.body.parses /\ answer.body.code # "not_found"
                                         /\ answer.body.marker)
    BY DEF Read, notFoundError
  <1>6. Read(answer) = "no project" => ~project
    <2> SUFFICES ASSUME Read(answer) = "no project", project PROVE FALSE
      OBVIOUS
    <2>1. answer.body \in AgentBodies
      BY <1>3, <1>5 DEF CallInv, AnswerMeans
    <2>2. \A b \in AgentBodies : b.parses => b.code = "not_found" \/ ~b.marker
      <3>1. /\ ~Envelope("not_found", FALSE).marker /\ Envelope("not_found", TRUE).code = "not_found"
            /\ ~Envelope("gone", FALSE).marker /\ ~NoEnvelope.parses
        BY DEF Envelope, NoEnvelope
      <3> QED
        BY <3>1 DEF AgentBodies
    <2> QED
      BY <1>5, <2>1, <2>2
  <1>7. Read(answer) = "absent" => project
    <2> SUFFICES ASSUME Read(answer) = "absent", ~project PROVE FALSE
      OBVIOUS
    <2>1. answer.body \in ProjectBodies
      BY <1>3, <1>5 DEF CallInv, AnswerMeans
    <2>2. answer.body = [parses |-> TRUE, code |-> "ResourceNotFound", marker |-> TRUE]
      BY <2>1 DEF ProjectBodies, Envelope
    <2>3. answer.body.parses /\ answer.body.code = "ResourceNotFound" /\ answer.body.marker
      BY <2>2
    <2> QED
      BY <1>5, <2>3
  <1>8. (Gives("SetEndpoint", "ok") => "served" \in did)'
    BY <1>3, <1>4, <1>5 DEF Gives, CallInv, AnswerMeans
  <1>9. /\ seen.project = project
        /\ Read(answer) = "absent" /\ op = "GetAgent" => ~seen.agent.exists
        /\ Read(answer) = "absent" /\ op = "GetVersion" =>
             request.on \notin seen.agent.versions
    BY <1>3, <1>5, <1>7 DEF CallInv, AnswerMeans
  <1>10. ResultMeans'
    BY <1>3, <1>4, <1>6, <1>7, <1>8, <1>9 DEF ResultMeans, Gives
  <1> QED
    BY <1>2, <1>3, <1>10, Returning

LEMMA CreateVersionReturns ==
  ASSUME CallInv, CreateVersion
  PROVE  CallInv'
  <1>1. /\ request # None /\ request.op = "CreateVersion" /\ answer # None
        /\ request.op \in DataPlane
    BY DEF CreateVersion, Answered, DataPlane
  <1>2. PICK is, got : /\ Done(is, got)
                       /\ is \in {"ok", "error"}
                       /\ is = "ok" => answer.status = "ok" /\ got = answer.body
    BY DEF CreateVersion
  <1>3. /\ result'.of = "CreateVersion" /\ result'.is = is /\ result'.got = got
        /\ UNCHANGED <<issued, did>>
    BY <1>1, <1>2 DEF Done, planeVars
  <1>4. is = "ok" => got \in did /\ \A n \in did : n <= got
    BY <1>1, <1>2 DEF CallInv, Asks, AnswerMeans
  <1>5. ResultMeans'
    BY <1>2, <1>3, <1>4 DEF ResultMeans, Gives
  <1> QED
    BY <1>1, <1>2, <1>5, Returning

LEMMA DeleteAgentReturns ==
  ASSUME CallInv, DeleteAgent
  PROVE  CallInv'
  <1>1. /\ request # None /\ request.op = "DeleteAgent" /\ answer # None
        /\ request.op \in DataPlane
    BY DEF DeleteAgent, Answered, DataPlane
  <1> DEFINE is == IF answer.status \in {"ok", "missing"} THEN "ok" ELSE "error"
  <1>2. Done(is, 0)
    BY DEF DeleteAgent
  <1>3. /\ result'.of = "DeleteAgent" /\ result'.is = is /\ result'.status = answer.status
        /\ UNCHANGED <<project, seen>>
    BY <1>1, <1>2 DEF Done, planeVars
  <1>4. /\ is = "ok" => ~seen.project \/ ~seen.agent.exists
        /\ is = "error" => answer.status \in {"none", "denied", "throttled"}
    BY <1>1, <1>2 DEF CallInv, AnswerMeans
  <1>5. ResultMeans'
    BY <1>2, <1>3, <1>4 DEF ResultMeans, Gives
  <1> QED
    BY <1>1, <1>2, <1>5, Returning

\* A creation returns, or goes on to the grant with its result kept.
LEMMA CreateAgentReturns ==
  ASSUME CallInv, CreateAgent
  PROVE  CallInv'
  <1>1. /\ request # None /\ request.op = "CreateAgent" /\ answer # None
        /\ request.op \in DataPlane
    BY DEF CreateAgent, Answered, DataPlane
  <1>2. answer.status = "ok" => "created" \in did
    BY <1>1 DEF CallInv, AnswerMeans
  <1>3. CASE \E is, got : Done(is, got) /\ is \in {"ok", "error"}
                         /\ (is = "ok" => answer.status = "ok")
    <2>1. PICK is, got : Done(is, got) /\ is \in {"ok", "error"}
                         /\ (is = "ok" => answer.status = "ok")
      BY <1>3
    <2>2. result'.of = "CreateAgent" /\ result'.is = is /\ UNCHANGED did
      BY <1>1, <2>1 DEF Done
    <2>3. ResultMeans'
      BY <1>2, <2>1, <2>2 DEF ResultMeans, Gives
    <2> QED
      BY <1>1, <2>1, <2>3, Returning
  <1>4. CASE /\ Ask("ListSubscriptions", None)
             /\ result'.of = "CreateAgent" /\ result'.is = "ok"
             /\ answer.status = "ok" /\ UNCHANGED did
    <2>1. ResultMeans'
      BY <1>2, <1>4 DEF ResultMeans, Gives
    <2>2. Between'
      BY <1>4 DEF Between, Ask
    <2> QED
      BY <1>4, <2>1, <2>2, Sending
  <1>5. CASE answer.status # "ok"
    <2>1. Done("error", 0)
      BY <1>5 DEF CreateAgent
    <2> QED
      BY <1>3, <2>1
  <1>6. CASE answer.status = "ok" /\ ~(MayGrant /\ HasIdentity(answer))
    <2>1. Done("ok", answer.body.identity)
      BY <1>6 DEF CreateAgent
    <2> QED
      BY <1>3, <1>6, <2>1
  <1>7. CASE answer.status = "ok" /\ MayGrant /\ HasIdentity(answer)
    BY <1>4, <1>7 DEF CreateAgent
  <1> QED
    BY <1>5, <1>6, <1>7

\* The grant goes on, or ends: the result of the creation stays.
LEMMA GrantKeeps ==
  ASSUME CallInv, listSubscriptions \/ findAccount \/ ensureRoleAssignment
  PROVE  CallInv'
  <1>1. UNCHANGED <<did, result>>
    BY DEF listSubscriptions, findAccount, ensureRoleAssignment, SearchNext, Tell
  <1>2. request # None /\ answer # None
    BY DEF listSubscriptions, findAccount, ensureRoleAssignment, Answered
  <1>3. CASE \E report : Tell(report)
    <2>1. /\ request' = None /\ answer' = None
          /\ UNCHANGED <<project, agent, issued, seen>>
      BY <1>3 DEF Tell, planeVars
    <2>2. ResultMeans'
      BY <1>1, <2>1 DEF CallInv, ResultMeans, Gives
    <2> QED
      BY <2>1, <2>2 DEF CallInv, Asks, Between, AnswerMeans
  <1>4. CASE \E op \in {"FindAccount", "PutAssignment"} : \E on : Ask(op, on)
    <2>1. PICK op \in {"FindAccount", "PutAssignment"} : \E on : Ask(op, on)
      BY <1>4
    <2>2. PICK on : Ask(op, on)
      BY <2>1
    <2>3. /\ request'.op = op
          /\ UNCHANGED <<project, seen>>
      BY <2>2 DEF Ask, planeVars
    <2>4. ResultMeans' /\ Between'
      BY <1>1, <1>2, <2>3 DEF CallInv, ResultMeans, Gives, Between
    <2> QED
      BY <2>2, <2>4, Sending
  <1> QED
    BY <1>3, <1>4 DEF listSubscriptions, findAccount, ensureRoleAssignment, SearchNext

-----------------------------------------------------------------------------
\* Every step keeps the invariant.
LEMMA CallNext == CallInv /\ [Next]_vars => CallInv'
  <1> SUFFICES ASSUME CallInv, [Next]_vars PROVE CallInv'
    OBVIOUS
  <1>1. CASE WireNext /\ UNCHANGED clientVars
    BY <1>1, MissingKeeps, LookupKeeps, CreateAgentKeeps, CreateVersionKeeps,
       SetEndpointKeeps, DeleteAgentKeeps, AssignKeeps, RefuseKeeps, OthersKeep DEF WireNext
  <1>2. CASE Call \/ GetAgent \/ GetVersion \/ SetEndpoint
    BY <1>2, CallKeeps, ReadKeeps
  <1>3. CASE CreateAgent \/ CreateVersion \/ DeleteAgent
    BY <1>3, CreateAgentReturns, CreateVersionReturns, DeleteAgentReturns
  <1>4. CASE listSubscriptions \/ findAccount \/ ensureRoleAssignment
    BY <1>4, GrantKeeps
  <1>5. CASE UNCHANGED vars
    <2>1. UNCHANGED <<project, agent, issued, request, answer, seen, did, result>>
      BY <1>5 DEF vars, wireVars, planeVars, clientVars
    <2>2. Between' /\ AnswerMeans' /\ ResultMeans'
      BY <2>1 DEF CallInv, Between, AnswerMeans, ResultMeans, Gives
    <2> QED
      BY <2>1, <2>2 DEF CallInv, Asks
  <1> QED
    BY <1>1, <1>2, <1>3, <1>4, <1>5 DEF Next

(***************************************************************************)
(* What a call returns is true: a call that returns without an error did   *)
(* what it was asked to, and nothing is said not to exist that does,       *)
(* however often the pipeline repeats a request, for any number of calls,  *)
(* agents and versions, whatever is lost, refused or done by others.       *)
(***************************************************************************)
THEOREM AnswersAlwaysTrue == Spec => []AnswersTrue
  <1>1. CallInv => AnswersTrue
    BY DEF CallInv, ResultMeans, Gives, AnswersTrue, Returned
  <1> QED
    BY <1>1, CallInit, CallNext, PTL DEF Spec

-----------------------------------------------------------------------------
(* The grant: TypeOK and GrantInv together.                                *)

LEMMA GrantInit == Init => TypeOK /\ GrantInv
  <1> SUFFICES ASSUME Init PROVE TypeOK /\ GrantInv
    OBVIOUS
  <1>1. NoAgent \in Agents
    <2>1. <<>> \in Seq(Numbers)
      OBVIOUS
    <2> QED
      BY <2>1 DEF NoAgent, Agents
  <1>2. ~NoAgent.exists /\ NoAgent.versions = {}
    BY DEF NoAgent
  <1>3. TypeOK
    BY <1>1, <1>2, WireAssumption DEF Init, WireInit, TypeOK
  <1>4. left \in Seq(Listed)
    BY DEF Init
  <1>5. None \notin Reports
    BY NoneAssumption
  <1>6. GrantTold
    BY <1>5 DEF Init, WireInit, GrantTold, Returned, Reports
  <1>7. GrantFollows /\ Searched /\ GrantAnswer
    BY DEF Init, WireInit, GrantFollows, Granting, Searched, Asks, GrantAnswer
  <1> QED
    BY <1>2, <1>3, <1>4, <1>6, <1>7 DEF Init, WireInit, GrantInv, Asks

\* What the pipeline does with an answer, seen from the client.
LEMMA Piping ==
  ASSUME NEW a, TypeOK, GrantInv, answer = None, Respond(a)
  PROVE  /\ attempts' \in 0 .. MaxTries
         /\ trouble' \in {trouble, trouble + 1}
         /\ answer' \in {None, a} \/ (answer' = Nothing /\ trouble' = trouble + 1)
  BY WireAssumption DEF TypeOK, GrantInv, Respond, Deliver, Again

\* How the plane may move under the grant: it gains identities, versions and
\* assignments, and an agent has an identity it gave out.
PlaneMoves ==
  /\ project' = project
  /\ agent' \in Agents
  /\ issued' \in 0 .. MaxVersions
  /\ minted' \in 0 .. MaxAgents /\ minted <= minted'
  /\ agent'.versions \subseteq 1 .. issued'
  /\ agent'.exists => agent'.identity \in 1 .. minted'
  /\ assigned \subseteq assigned'
  /\ assigned' \subseteq [by : {"adapter", "operator"}, scope : {x.id : x \in Accounts},
                          principal : 1 .. minted']

LEMMA PlaneStays ==
  ASSUME TypeOK, GrantInv, UNCHANGED planeVars
  PROVE  PlaneMoves
  <1>1. UNCHANGED <<project, agent, issued, minted, assigned>>
    BY DEF planeVars
  <1> QED
    BY <1>1 DEF TypeOK, GrantInv, PlaneMoves

\* What a step of the platform has to show: only what its answer means.
LEMMA Carrying ==
  ASSUME TypeOK, GrantInv, PlaneMoves, UNCHANGED request, UNCHANGED clientVars,
         request # None, answer = None,
         attempts' \in 0 .. MaxTries,
         trouble' \in {trouble, trouble + 1},
         GrantAnswer'
  PROVE  TypeOK' /\ GrantInv'
  <1>1. UNCHANGED <<request, speech, granter, calls, left, result, told>>
    BY DEF clientVars
  <1>2. TypeOK'
    BY <1>1 DEF TypeOK, PlaneMoves
  <1>3. trouble \in Nat /\ trouble' \in Nat /\ (trouble' = 0 => trouble = 0)
    BY DEF GrantInv
  <1>4. told = None
    BY DEF GrantInv
  <1>5. GrantTold'
    <2>1. None \notin Reports
      BY NoneAssumption
    <2> QED
      BY <1>1, <1>4, <2>1 DEF GrantTold, Returned, Reports
  <1>6. GrantFollows'
    <2>1. minted \in Nat /\ minted' \in Nat /\ minted <= minted'
      BY WireAssumption DEF TypeOK, PlaneMoves
    <2>2. Granting => speech /\ granter /\ result.of = "CreateAgent" /\ result.is = "ok" /\ result.got \in 1 .. minted
      BY DEF GrantInv, GrantFollows
    <2>3. result.got \in 1 .. minted => result.got \in 1 .. minted'
      BY <2>1
    <2> QED
      BY <1>1, <2>2, <2>3 DEF GrantFollows, Granting
  <1>7. Searched'
    BY <1>1, <1>3 DEF GrantInv, Searched, Asks, Barren
  <1>8. left' \in Seq(Listed) /\ (told' # None => request' = None)
        /\ (Asks("PutAssignment") => request.on.principal = result.got)'
    BY <1>1 DEF GrantInv, Asks
  <1> QED
    BY <1>2, <1>3, <1>5, <1>6, <1>7, <1>8 DEF GrantInv, PlaneMoves

\* A request whose answer says nothing of the grant.
LEMMA SilentAnswer ==
  ASSUME UNCHANGED request,
         request.op \notin {"CreateAgent", "ListSubscriptions", "FindAccount", "PutAssignment"}
  PROVE  GrantAnswer'
  BY DEF GrantAnswer

LEMMA MissingCarries ==
  ASSUME TypeOK, GrantInv, ServeMissing, UNCHANGED clientVars
  PROVE  TypeOK' /\ GrantInv'
  <1>1. PICK a \in Missing : Respond(a)
    BY DEF ServeMissing
  <1>2. /\ UNCHANGED request /\ UNCHANGED planeVars
        /\ request # None /\ answer = None
        /\ request.op \in DataPlane
    BY DEF ServeMissing
  <1>3. a.status = "missing" /\ Nothing.status = "none"
    BY DEF Missing, Nothing, Answer
  <1>4. GrantAnswer'
    BY <1>1, <1>2, <1>3, Piping DEF GrantAnswer, DataPlane
  <1> QED
    BY <1>1, <1>2, <1>4, Piping, PlaneStays, Carrying

LEMMA LookupCarries ==
  ASSUME TypeOK, GrantInv, UNCHANGED clientVars,
         ServeGetAgent \/ ServeGetVersion
  PROVE  TypeOK' /\ GrantInv'
  <1>1. PICK a : Respond(a)
    BY DEF ServeGetAgent, ServeGetVersion
  <1>2. /\ UNCHANGED request /\ UNCHANGED planeVars
        /\ request # None /\ answer = None
        /\ request.op \in {"GetAgent", "GetVersion"}
    BY DEF ServeGetAgent, ServeGetVersion, Reached, Waits
  <1> QED
    BY <1>1, <1>2, SilentAnswer, Piping, PlaneStays, Carrying

\* The agent is created with the identity minted for it, or was there.
LEMMA CreateAgentCarries ==
  ASSUME TypeOK, GrantInv, ServeCreateAgent, UNCHANGED clientVars
  PROVE  TypeOK' /\ GrantInv'
  <1>1. /\ UNCHANGED request /\ project' = project
        /\ request # None /\ answer = None /\ request.op = "CreateAgent"
    BY DEF ServeCreateAgent, Waits, planeVars
  <1>2. Nothing.status = "none"
    BY DEF Nothing, Answer
  <1>3. PICK a : /\ Respond(a)
                 /\ PlaneMoves
                 /\ a.status = "ok" => a.body.identity \in 0 .. minted'
    <2>1. CASE agent.exists
      <3>1. Respond(Answer("conflict", None)) /\ UNCHANGED planeVars
        BY <2>1 DEF ServeCreateAgent
      <3>2. Answer("conflict", None).status # "ok"
        BY DEF Answer
      <3> QED
        BY <3>1, <3>2, PlaneStays
    <2>2. CASE ~agent.exists
      <3>1. /\ minted < MaxAgents /\ minted' = minted + 1
            /\ agent' = [NoAgent EXCEPT !.exists = TRUE, !.identity = minted']
            /\ UNCHANGED <<project, issued, assigned>>
        BY <2>2 DEF ServeCreateAgent
      <3>2. PICK who \in {0, minted'} : Respond(Answer("ok", [identity |-> who, rules |-> <<>>]))
        BY <2>2 DEF ServeCreateAgent
      <3>3. minted \in 0 .. MaxAgents /\ MaxAgents \in Nat
        BY WireAssumption DEF TypeOK
      <3>4. minted' \in Nat /\ minted' \in 1 .. MaxAgents /\ minted' \in 0 .. MaxAgents
        BY <3>1, <3>3
      <3>5. <<>> \in Seq(Numbers)
        OBVIOUS
      <3>6. agent' = [exists |-> TRUE, identity |-> minted', rules |-> <<>>,
                      versions |-> {}, busy |-> FALSE]
        BY <3>1 DEF NoAgent
      <3>7. agent' \in Agents /\ agent'.versions = {} /\ agent'.identity = minted'
        BY <3>4, <3>5, <3>6 DEF Agents, Identities
      <3>8. 1 .. minted \subseteq 1 .. minted'
        BY <3>1, <3>3
      <3>9. assigned' \subseteq [by : {"adapter", "operator"}, scope : {x.id : x \in Accounts},
                                 principal : 1 .. minted']
        <4>1. assigned' = assigned
          BY <3>1
        <4>2. assigned \subseteq [by : {"adapter", "operator"}, scope : {x.id : x \in Accounts},
                                  principal : 1 .. minted]
          BY DEF TypeOK
        <4> QED
          BY <3>8, <4>1, <4>2
      <3>10. PlaneMoves
        BY <3>1, <3>3, <3>4, <3>7, <3>9 DEF PlaneMoves, TypeOK
      <3>11. Answer("ok", [identity |-> who, rules |-> <<>>]).body.identity \in 0 .. minted'
        BY <3>2, <3>4 DEF Answer
      <3> QED
        BY <3>2, <3>10, <3>11
    <2> QED
      BY <2>1, <2>2
  <1>4. GrantAnswer'
    BY <1>1, <1>2, <1>3, Piping DEF GrantAnswer
  <1> QED
    BY <1>1, <1>3, <1>4, Piping, Carrying

LEMMA CreateVersionCarries ==
  ASSUME TypeOK, GrantInv, ServeCreateVersion, UNCHANGED clientVars
  PROVE  TypeOK' /\ GrantInv'
  <1>1. /\ UNCHANGED <<project, minted, assigned, request>>
        /\ request # None /\ answer = None /\ request.op = "CreateVersion"
        /\ issued < MaxVersions /\ issued' = issued + 1
        /\ Respond(Answer("ok", issued'))
        /\ agent' = [agent EXCEPT !.versions = @ \union {issued'}]
    BY DEF ServeCreateVersion, Reached, Waits
  <1>2. issued \in 0 .. MaxVersions /\ MaxVersions \in Nat /\ agent \in Agents
        /\ agent.versions \subseteq 1 .. issued
    BY WireAssumption DEF TypeOK
  <1>3. issued' \in 1 .. MaxVersions /\ 1 .. issued \subseteq 1 .. issued' /\ issued' \in 1 .. issued'
    BY <1>1, <1>2
  <1>4. agent' \in Agents /\ agent'.versions \subseteq 1 .. issued'
        /\ agent'.exists = agent.exists /\ agent'.identity = agent.identity
    BY <1>1, <1>2, <1>3 DEF Agents, Numbers
  <1>5. PlaneMoves
    BY <1>1, <1>2, <1>3, <1>4 DEF PlaneMoves, TypeOK, GrantInv
  <1> QED
    BY <1>1, <1>5, SilentAnswer, Piping, Carrying

LEMMA SetEndpointCarries ==
  ASSUME TypeOK, GrantInv, ServeSetEndpoint, UNCHANGED clientVars
  PROVE  TypeOK' /\ GrantInv'
  <1>1. /\ UNCHANGED <<project, issued, minted, assigned, request>>
        /\ request # None /\ answer = None /\ request.op = "SetEndpoint"
        /\ Respond(Answer("ok", None))
        /\ agent' = [agent EXCEPT !.rules = <<request.on>>]
    BY DEF ServeSetEndpoint, Reached, Waits
  <1>2. request.on \in Numbers
    BY <1>1 DEF TypeOK, Requests
  <1>3. <<request.on>> \in Seq(Numbers)
    BY <1>2
  <1>4. agent' \in Agents /\ agent'.versions = agent.versions
        /\ agent'.exists = agent.exists /\ agent'.identity = agent.identity
    BY <1>1, <1>3 DEF Agents, TypeOK
  <1>5. PlaneMoves
    BY <1>1, <1>4 DEF PlaneMoves, TypeOK, GrantInv
  <1> QED
    BY <1>1, <1>5, SilentAnswer, Piping, Carrying

LEMMA DeleteAgentCarries ==
  ASSUME TypeOK, GrantInv, ServeDeleteAgent, UNCHANGED clientVars
  PROVE  TypeOK' /\ GrantInv'
  <1>1. /\ request # None /\ answer = None /\ request.op = "DeleteAgent"
        /\ UNCHANGED request
        /\ \/ UNCHANGED planeVars
           \/ agent' = NoAgent /\ UNCHANGED <<project, issued, minted, assigned>>
    BY DEF ServeDeleteAgent, Reached, Waits
  <1>2. PICK a : Respond(a)
    BY DEF ServeDeleteAgent
  <1>3. PlaneMoves
    <2>1. NoAgent \in Agents /\ ~NoAgent.exists /\ NoAgent.versions = {}
      <3>1. <<>> \in Seq(Numbers)
        OBVIOUS
      <3> QED
        BY <3>1 DEF NoAgent, Agents
    <2> QED
      BY <1>1, <2>1, PlaneStays DEF PlaneMoves, TypeOK
  <1> QED
    BY <1>1, <1>2, <1>3, SilentAnswer, Piping, Carrying

\* The list of subscriptions is the first page, or never arrived.
LEMMA ListCarries ==
  ASSUME TypeOK, GrantInv, ServeList, UNCHANGED clientVars
  PROVE  TypeOK' /\ GrantInv'
  <1>1. /\ request # None /\ answer = None /\ request.op = "ListSubscriptions"
        /\ UNCHANGED request /\ UNCHANGED planeVars
        /\ Respond(Answer("ok", Subscriptions))
    BY DEF ServeList, Waits
  <1>2. Answer("ok", Subscriptions).body = Subscriptions /\ Nothing.status = "none"
        /\ Answer("ok", Subscriptions).status = "ok"
    BY DEF Answer, Nothing
  <1>3. trouble \in Nat
    BY DEF GrantInv
  <1>4. GrantAnswer'
    BY <1>1, <1>2, <1>3, Piping DEF GrantAnswer
  <1> QED
    BY <1>1, <1>4, Piping, PlaneStays, Carrying

\* An account is found in the subscription, or there is none to be found.
LEMMA FindCarries ==
  ASSUME TypeOK, GrantInv, ServeFind, UNCHANGED clientVars
  PROVE  TypeOK' /\ GrantInv'
  <1>1. /\ request # None /\ answer = None /\ request.op = "FindAccount"
        /\ UNCHANGED request /\ UNCHANGED planeVars
    BY DEF ServeFind, Waits
  <1>2. PICK a : /\ Respond(a)
                 /\ \/ a.status = "denied" /\ Barren(request.on)
                    \/ a.status = "ok" /\ a.body = None /\ Barren(request.on)
                    \/ a.status = "ok" /\ a.body # None /\ a.body \in Accounts
    <2> DEFINE here == {x \in Accounts : x.subscription = request.on}
    <2>1. CASE request.on \notin Readable
      <3>1. Respond(Answer("denied", None))
        BY <2>1 DEF ServeFind
      <3>2. Answer("denied", None).status = "denied" /\ Barren(request.on)
        BY <2>1 DEF Answer, Barren
      <3> QED
        BY <3>1, <3>2
    <2>2. CASE request.on \in Readable /\ here = {}
      <3>1. Respond(Answer("ok", None))
        BY <2>2 DEF ServeFind
      <3>2. /\ Answer("ok", None).status = "ok" /\ Answer("ok", None).body = None
            /\ Barren(request.on)
        BY <2>2 DEF Answer, Barren
      <3> QED
        BY <3>1, <3>2
    <2>3. CASE request.on \in Readable /\ here # {}
      <3>1. PICK x \in here : Respond(Answer("ok", x))
        BY <2>3 DEF ServeFind
      <3>2. x \in Accounts /\ x # None
        BY WireAssumption
      <3>3. Answer("ok", x).status = "ok" /\ Answer("ok", x).body = x
        BY DEF Answer
      <3> QED
        BY <3>1, <3>2, <3>3
    <2> QED
      BY <2>1, <2>2, <2>3
  <1>3. Nothing.status = "none" /\ trouble \in Nat
    BY DEF Answer, Nothing, GrantInv
  <1>4. GrantAnswer'
    BY <1>1, <1>2, <1>3, Piping DEF GrantAnswer, Barren
  <1> QED
    BY <1>1, <1>2, <1>4, Piping, PlaneStays, Carrying

\* The role is assigned to the identity the creation reported, by the adapter or
\* by someone before it.
LEMMA AssignCarries ==
  ASSUME TypeOK, GrantInv, ServeAssign, UNCHANGED clientVars
  PROVE  TypeOK' /\ GrantInv'
  <1>1. /\ request # None /\ answer = None /\ request.op = "PutAssignment"
        /\ UNCHANGED <<project, agent, issued, minted, request>>
    BY DEF ServeAssign, Waits
  <1>2. /\ request.on.principal = result.got /\ result.got \in 1 .. minted
        /\ result' = result /\ trouble \in Nat
    BY <1>1 DEF GrantInv, Asks, GrantFollows, Granting, clientVars
  <1>3. request.on.scope \in {x.id : x \in Accounts}
    BY <1>1 DEF TypeOK, Requests
  <1>4. PICK a : /\ Respond(a)
                 /\ Assigned(a)
                 /\ assigned \subseteq assigned'
                 /\ assigned' \subseteq [by : {"adapter", "operator"}, scope : {x.id : x \in Accounts},
                                         principal : 1 .. minted]
                 /\ \E x \in assigned' : x.principal = result.got
    <2> DEFINE same == {x \in assigned : x.scope = request.on.scope
                                       /\ x.principal = request.on.principal}
               new  == [by |-> "adapter", scope |-> request.on.scope,
                        principal |-> request.on.principal]
    <2>1. CASE \E x \in same : x.by # "adapter"
      <3>1. assigned' = assigned /\ Respond(Answer("conflict", None))
        BY <2>1 DEF ServeAssign
      <3> QED
        BY <1>2, <2>1, <3>1 DEF TypeOK, Assigned, Answer
    <2>2. CASE ~\E x \in same : x.by # "adapter"
      <3>1. assigned' = assigned \union {new} /\ Respond(Answer("ok", None))
        BY <2>2 DEF ServeAssign
      <3>2. new \in [by : {"adapter", "operator"}, scope : {x.id : x \in Accounts},
                     principal : 1 .. minted]
        BY <1>2, <1>3
      <3>3. new.principal = result.got
        BY <1>2
      <3> HIDE DEF new
      <3> QED
        BY <3>1, <3>2, <3>3 DEF TypeOK, Assigned, Answer
    <2> QED
      BY <2>1, <2>2
  <1>5. PlaneMoves
    BY <1>1, <1>4 DEF PlaneMoves, TypeOK, GrantInv
  <1>6. Nothing.status = "none"
    BY DEF Nothing, Answer
  <1>7. GrantAnswer'
    BY <1>1, <1>2, <1>4, <1>6, Piping DEF GrantAnswer, Assigned
  <1> QED
    BY <1>1, <1>4, <1>5, <1>7, Piping, Carrying

LEMMA RefuseCarries ==
  ASSUME TypeOK, GrantInv, Refuse, UNCHANGED clientVars
  PROVE  TypeOK' /\ GrantInv'
  <1>1. /\ request # None /\ answer = None
        /\ UNCHANGED request /\ UNCHANGED planeVars
        /\ trouble' = trouble + 1 /\ trouble \in Nat
        /\ attempts' \in 0 .. MaxTries
        /\ answer' \in {None, Answer("throttled", None), Answer("denied", None)}
    BY WireAssumption DEF Refuse, Again, TypeOK, GrantInv
  <1>2. Answer("throttled", None).status = "throttled" /\ Answer("denied", None).status = "denied"
    BY DEF Answer
  <1>3. GrantAnswer'
    BY <1>1, <1>2 DEF GrantAnswer, Assigned
  <1> QED
    BY <1>1, <1>3, PlaneStays, Carrying

\* What others do takes nothing from a grant that was told.
LEMMA OthersCarry ==
  ASSUME TypeOK, GrantInv, Others, UNCHANGED clientVars
  PROVE  TypeOK' /\ GrantInv'
  <1>1. /\ UNCHANGED <<project, issued, minted, request, attempts, answer, trouble>>
        /\ UNCHANGED <<speech, granter, calls, left, result, told>>
        /\ agent.exists
    BY DEF Others, clientVars
  <1>2. /\ agent' \in Agents /\ agent'.versions \subseteq 1 .. issued
        /\ agent'.exists => agent'.identity \in 1 .. minted
    <2>1. agent \in Agents /\ agent.versions \subseteq 1 .. issued /\ agent.identity \in 1 .. minted
      BY <1>1 DEF TypeOK, GrantInv
    <2>2. CASE agent' = NoAgent
      <3>1. <<>> \in Seq(Numbers)
        OBVIOUS
      <3> QED
        BY <2>2, <3>1 DEF NoAgent, Agents
    <2>3. CASE agent' = [agent EXCEPT !.busy = TRUE]
      BY <2>1, <2>3 DEF Agents
    <2>4. CASE \E v, w \in agent.versions : agent' = [agent EXCEPT !.rules = <<v, w>>]
      <3>1. PICK v, w \in agent.versions : agent' = [agent EXCEPT !.rules = <<v, w>>]
        BY <2>4
      <3>2. v \in Numbers /\ w \in Numbers
        BY <2>1 DEF Agents
      <3>3. <<v, w>> \in Seq(Numbers)
        BY <3>2
      <3> QED
        BY <2>1, <3>1, <3>3 DEF Agents
    <2>5. CASE agent' = agent
      BY <2>1, <2>5
    <2> QED
      BY <2>2, <2>3, <2>4, <2>5 DEF Others
  <1>3. /\ assigned \subseteq assigned'
        /\ assigned' \subseteq [by : {"adapter", "operator"}, scope : {x.id : x \in Accounts},
                                principal : 1 .. minted]
    <2>1. CASE assigned' = assigned
      BY <2>1 DEF TypeOK
    <2>2. CASE \E x \in Accounts : assigned' = assigned \union
                 {[by |-> "operator", scope |-> x.id, principal |-> agent.identity]}
      <3>1. PICK x \in Accounts : assigned' = assigned \union
                 {[by |-> "operator", scope |-> x.id, principal |-> agent.identity]}
        BY <2>2
      <3>2. agent.identity \in 1 .. minted
        BY <1>1 DEF GrantInv
      <3>3. [by |-> "operator", scope |-> x.id, principal |-> agent.identity]
              \in [by : {"adapter", "operator"}, scope : {y.id : y \in Accounts},
                   principal : 1 .. minted]
        BY <3>1, <3>2
      <3> QED
        BY <3>1, <3>3 DEF TypeOK
    <2> QED
      BY <2>1, <2>2 DEF Others
  <1>4. TypeOK'
    BY <1>1, <1>2, <1>3 DEF TypeOK
  <1>5. GrantAnswer'
    BY <1>1, <1>3 DEF GrantInv, GrantAnswer, Barren
  <1>6. GrantTold'
    BY <1>1, <1>3 DEF GrantInv, GrantTold, Returned
  <1>7. GrantFollows' /\ Searched'
    BY <1>1 DEF GrantInv, GrantFollows, Granting, Searched, Asks, Barren
  <1> QED
    BY <1>1, <1>2, <1>4, <1>5, <1>6, <1>7 DEF GrantInv, Asks

-----------------------------------------------------------------------------
(* The client's steps.                                                     *)

LEMMA Tries == 0 \in 0 .. MaxTries /\ 1 \in 0 .. MaxTries
  <1>1. MaxTries \in Nat \ {0}
    BY WireAssumption
  <1> QED
    BY <1>1

LEMMA NothingLeft == <<>> \in Seq(Listed)
  OBVIOUS

\* A request outside a grant is sent: nothing was told and nothing listed.
LEMMA Asking ==
  ASSUME NEW op, NEW on, TypeOK, GrantInv, Ask(op, on),
         [op |-> op, on |-> on] \in Requests,
         UNCHANGED <<speech, granter>>,
         left' \in Seq(Listed), left' # <<>> => op = "FindAccount",
         result' # None => result'.is \in Outcomes,
         told' = None,
         op = "PutAssignment" => on.principal = result'.got,
         op \in {"ListSubscriptions", "FindAccount", "PutAssignment"} =>
           speech /\ granter /\ result'.of = "CreateAgent" /\ result'.is = "ok" /\ result'.got \in 1 .. minted,
         op = "FindAccount" =>
           \A s \in Listed : \/ s \in {on} \union {left'[j] : j \in DOMAIN left'}
                             \/ trouble = 0 => Barren(s)
  PROVE  TypeOK' /\ GrantInv'
  <1>1. /\ request' = [op |-> op, on |-> on] /\ request'.op = op /\ request'.on = on
        /\ attempts' = 1 /\ answer' = None
        /\ UNCHANGED <<project, agent, issued, minted, assigned, trouble>>
    BY DEF Ask, planeVars
  <1>2. request' \in Requests /\ request' # None
    BY <1>1, NoneAssumption
  <1>3. attempts' \in 0 .. MaxTries
    BY <1>1, Tries
  <1>4. TypeOK'
    BY <1>1, <1>2, <1>3 DEF TypeOK
  <1>5. GrantTold'
    <2>1. None \notin Reports
      BY NoneAssumption
    <2> QED
      BY <1>2, <2>1 DEF GrantTold, Returned, Reports
  <1>6. Searched'
    BY <1>1 DEF Searched, Asks, Barren, Listed
  <1>7. GrantFollows' /\ GrantAnswer'
    BY <1>1 DEF GrantFollows, Granting, GrantAnswer
  <1> QED
    BY <1>1, <1>4, <1>5, <1>6, <1>7 DEF GrantInv, Asks

\* A call returns that was no grant: only a creation of a voice agent has
\* something to tell.
LEMMA Ending ==
  ASSUME NEW is, NEW got, TypeOK, GrantInv, request # None, answer # None,
         ~Granting,
         Done(is, got), is \in Outcomes, left' = left,
         told' \in {None, "no identity"},
         told' # None => speech /\ granter,
         request.op = "CreateAgent" /\ is = "ok" /\ speech /\ granter => told' = "no identity"
  PROVE  TypeOK' /\ GrantInv'
  <1>1. /\ request' = None /\ answer' = None /\ attempts' = 0
        /\ result'.of = request.op /\ result'.is = is
        /\ UNCHANGED <<project, agent, issued, minted, assigned, trouble, speech, granter>>
    BY DEF Done, planeVars
  <1>2. left = <<>>
    BY DEF TypeOK, Granting
  <1>3. None \notin Reports
    BY NoneAssumption
  <1>4. told' \in Reports \union {None} /\ attempts' \in 0 .. MaxTries
    BY <1>1, Tries DEF Reports
  <1>5. TypeOK'
    BY <1>1, <1>2, <1>4 DEF TypeOK
  <1>6. GrantTold'
    BY <1>1, <1>3 DEF GrantTold, Returned, Reports
  <1>7. GrantFollows' /\ Searched' /\ GrantAnswer'
    BY <1>1 DEF GrantFollows, Granting, Searched, Asks, GrantAnswer
  <1> QED
    BY <1>1, <1>5, <1>6, <1>7 DEF GrantInv, Asks, Listed

\* A grant ends: what is told has to be true of it.
LEMMA Telling ==
  ASSUME NEW report \in Reports, TypeOK, GrantInv, Granting, Tell(report),
         report # "no identity",
         report = "granted" => \E x \in assigned : x.principal = result.got,
         report = "not found" /\ trouble = 0 => \A s \in Listed : Barren(s),
         report \in {"not listed", "denied", "failed"} => trouble > 0
  PROVE  TypeOK' /\ GrantInv'
  <1>1. /\ told' = report /\ left' = <<>> /\ request' = None /\ answer' = None
        /\ attempts' = 0
        /\ UNCHANGED <<project, agent, issued, minted, assigned, trouble, speech, granter, result>>
    BY DEF Tell, planeVars
  <1>2. speech /\ granter
    BY DEF GrantInv, GrantFollows
  <1>3. attempts' \in 0 .. MaxTries
    BY <1>1, Tries
  <1>4. TypeOK'
    BY <1>1, <1>2, <1>3 DEF TypeOK
  <1>5. report # None
    BY NoneAssumption
  <1>6. GrantTold'
    BY <1>1, <1>2, <1>5 DEF GrantTold, Returned, Barren, Listed
  <1>7. GrantFollows' /\ Searched' /\ GrantAnswer'
    BY <1>1 DEF GrantFollows, Granting, Searched, Asks, GrantAnswer
  <1>8. left' \in Seq(Listed)
    BY <1>1, NothingLeft
  <1> QED
    BY <1>1, <1>4, <1>6, <1>7, <1>8 DEF GrantInv, Asks

LEMMA CallCarries ==
  ASSUME TypeOK, GrantInv, Call
  PROVE  TypeOK' /\ GrantInv'
  <1>1. request = None /\ result' = None /\ told' = None /\ UNCHANGED <<speech, granter, left>>
    BY DEF Call
  <1>2. left = <<>> /\ left \in Seq(Listed)
    BY <1>1 DEF TypeOK, GrantInv
  <1>3. PICK op, on : /\ Ask(op, on)
                      /\ [op |-> op, on |-> on] \in Requests
                      /\ op \notin {"ListSubscriptions", "FindAccount", "PutAssignment"}
    <2>1. 1 .. issued \subseteq Numbers
      BY WireAssumption DEF TypeOK, Numbers
    <2>2. CASE \E op \in {"GetAgent", "CreateAgent", "CreateVersion"} : Ask(op, None)
      BY <2>2 DEF Requests
    <2>3. CASE \E op \in {"GetVersion", "SetEndpoint"}, v \in 1 .. issued : Ask(op, v)
      BY <2>1, <2>3 DEF Requests
    <2>4. CASE Ask("DeleteAgent", "force")
      BY <2>4 DEF Requests
    <2> QED
      BY <2>2, <2>3, <2>4 DEF Call
  <1> QED
    BY <1>1, <1>2, <1>3, Asking

LEMMA ReturnCarries ==
  ASSUME TypeOK, GrantInv,
         GetAgent \/ GetVersion \/ CreateVersion \/ SetEndpoint \/ DeleteAgent
  PROVE  TypeOK' /\ GrantInv'
  <1>1. /\ request # None /\ answer # None /\ UNCHANGED <<left, told>>
        /\ request.op \notin {"CreateAgent", "ListSubscriptions", "FindAccount", "PutAssignment"}
    BY DEF GetAgent, GetVersion, CreateVersion, SetEndpoint, DeleteAgent, Answered
  <1>2. PICK is, got : Done(is, got) /\ is \in Outcomes
    <2>1. Read(answer) \in Outcomes /\ "ok" \in Outcomes /\ "error" \in Outcomes
      BY DEF Read, notFoundError, Outcomes
    <2> QED
      BY <2>1 DEF GetAgent, GetVersion, CreateVersion, SetEndpoint, DeleteAgent
  <1>3. ~Granting /\ told = None
    BY <1>1 DEF Granting, GrantInv
  <1> QED
    BY <1>1, <1>2, <1>3, Ending

\* The creation returns, or goes on to the grant with the identity it reported.
LEMMA CreationCarries ==
  ASSUME TypeOK, GrantInv, CreateAgent
  PROVE  TypeOK' /\ GrantInv'
  <1>1. /\ request # None /\ answer # None /\ UNCHANGED left
        /\ request.op = "CreateAgent"
    BY DEF CreateAgent, Answered
  <1>2. ~Granting /\ told = None /\ left = <<>> /\ left \in Seq(Listed)
    BY <1>1 DEF Granting, GrantInv, TypeOK
  <1>3. "ok" \in Outcomes /\ "error" \in Outcomes
    BY DEF Outcomes
  <1>4. CASE answer.status # "ok"
    <2>1. Done("error", 0) /\ told' = told
      BY <1>4 DEF CreateAgent
    <2> QED
      BY <1>1, <1>2, <1>3, <2>1, Ending
  <1>5. CASE answer.status = "ok" /\ ~(MayGrant /\ HasIdentity(answer))
    <2>1. /\ Done("ok", answer.body.identity)
          /\ told' = IF MayGrant THEN "no identity" ELSE None
      BY <1>5 DEF CreateAgent
    <2> QED
      BY <1>1, <1>2, <1>3, <2>1, Ending DEF MayGrant
  <1>6. CASE answer.status = "ok" /\ MayGrant /\ HasIdentity(answer)
    <2>1. /\ Ask("ListSubscriptions", None)
          /\ result'.of = "CreateAgent" /\ result'.is = "ok"
          /\ result'.got = answer.body.identity
          /\ UNCHANGED <<speech, granter, told>>
      BY <1>6 DEF CreateAgent
    <2>2. answer.body.identity \in 1 .. minted
      <3>1. answer.body.identity \in 0 .. minted /\ answer.body.identity # 0
        BY <1>1, <1>6 DEF GrantInv, GrantAnswer, HasIdentity
      <3>2. minted \in Nat
        BY WireAssumption DEF TypeOK
      <3> QED
        BY <3>1, <3>2
    <2>3. [op |-> "ListSubscriptions", on |-> None] \in Requests
      BY DEF Requests
    <2> QED
      BY <1>1, <1>2, <1>3, <1>6, <2>1, <2>2, <2>3, Asking DEF MayGrant
  <1> QED
    BY <1>4, <1>5, <1>6

\* What is left to search is the next subscription and those after it.
LEMMA OneAndRest ==
  ASSUME NEW q \in Seq(Listed), q # <<>>
  PROVE  /\ Head(q) \in Listed /\ Tail(q) \in Seq(Listed)
         /\ {q[j] : j \in DOMAIN q} \subseteq {Head(q)} \union {Tail(q)[j] : j \in DOMAIN Tail(q)}
  <1>1. /\ Head(q) = q[1] /\ Head(q) \in Listed /\ Tail(q) \in Seq(Listed)
        /\ Len(Tail(q)) = Len(q) - 1 /\ Len(q) \in Nat
        /\ \A i \in 1 .. Len(q) - 1 : Tail(q)[i] = q[i + 1]
    OBVIOUS
  <1>2. ASSUME NEW j \in DOMAIN q
        PROVE  q[j] \in {Head(q)} \union {Tail(q)[i] : i \in DOMAIN Tail(q)}
    <2>1. CASE j = 1
      BY <1>1, <2>1
    <2>2. CASE j # 1
      <3>1. j \in 1 .. Len(q)
        OBVIOUS
      <3>2. j - 1 \in 1 .. Len(q) - 1 /\ (j - 1) + 1 = j
        BY <1>1, <2>2, <3>1
      <3>3. Tail(q)[j - 1] = q[j] /\ j - 1 \in DOMAIN Tail(q)
        BY <1>1, <3>2
      <3> QED
        BY <3>3
    <2> QED
      BY <2>1, <2>2
  <1> QED
    BY <1>1, <1>2

\* The search goes on, or nothing is left of it.
LEMMA Searching ==
  ASSUME NEW q \in Seq(Listed), TypeOK, GrantInv, Granting, SearchNext(q),
         \A s \in Listed : s \in {q[j] : j \in DOMAIN q} \/ (trouble = 0 => Barren(s))
  PROVE  TypeOK' /\ GrantInv'
  <1>1. CASE q = <<>>
    <2>1. Tell("not found")
      BY <1>1 DEF SearchNext
    <2>2. {q[j] : j \in DOMAIN q} = {}
      BY <1>1
    <2>3. "not found" \in Reports
      BY DEF Reports
    <2> QED
      BY <2>1, <2>2, <2>3, Telling
  <1>2. CASE q # <<>>
    <2>1. /\ Ask("FindAccount", Head(q)) /\ left' = Tail(q)
          /\ UNCHANGED <<speech, granter, result, told>>
      BY <1>2 DEF SearchNext
    <2>2. /\ Head(q) \in Listed /\ Tail(q) \in Seq(Listed)
          /\ {q[j] : j \in DOMAIN q} \subseteq {Head(q)} \union {Tail(q)[j] : j \in DOMAIN Tail(q)}
      BY <1>2, OneAndRest
    <2>3. [op |-> "FindAccount", on |-> Head(q)] \in Requests
      BY <2>2 DEF Requests, Listed
    <2>4. /\ told = None
          /\ speech /\ granter /\ result.of = "CreateAgent" /\ result.is = "ok" /\ result.got \in 1 .. minted
      BY DEF GrantInv, GrantFollows, Granting
    <2>5. result # None => result.is \in Outcomes
      BY DEF TypeOK
    <2>6. \A s \in Listed : \/ s \in {Head(q)} \union {left'[j] : j \in DOMAIN left'}
                            \/ trouble = 0 => Barren(s)
      BY <2>1, <2>2
    <2> QED
      BY <2>1, <2>2, <2>3, <2>4, <2>5, <2>6, Asking
  <1> QED
    BY <1>1, <1>2

\* The first page is searched from its start, unless it never arrived.
LEMMA ListingCarries ==
  ASSUME TypeOK, GrantInv, listSubscriptions
  PROVE  TypeOK' /\ GrantInv'
  <1>1. request # None /\ request.op = "ListSubscriptions" /\ answer # None /\ Granting
    BY DEF listSubscriptions, Answered, Granting
  <1>2. CASE answer.status = "ok"
    <2>1. SearchNext(Subscriptions)
      BY <1>1, <1>2 DEF listSubscriptions, GrantInv, GrantAnswer
    <2>2. Subscriptions \in Seq(Listed)
      BY WireAssumption DEF Listed
    <2>3. \A s \in Listed : s \in {Subscriptions[j] : j \in DOMAIN Subscriptions}
      BY DEF Listed
    <2> QED
      BY <1>1, <2>1, <2>2, <2>3, Searching
  <1>3. CASE answer.status # "ok"
    <2>1. Tell("not listed") /\ trouble > 0 /\ "not listed" \in Reports
      BY <1>1, <1>3 DEF listSubscriptions, GrantInv, GrantAnswer, Reports
    <2> QED
      BY <1>1, <2>1, Telling
  <1> QED
    BY <1>2, <1>3

\* An account is found and the role asked for on it, or the search goes on.
LEMMA FindingCarries ==
  ASSUME TypeOK, GrantInv, findAccount
  PROVE  TypeOK' /\ GrantInv'
  <1>1. request # None /\ request.op = "FindAccount" /\ answer # None /\ Granting
    BY DEF findAccount, Answered, Granting
  <1>2. CASE answer.status = "ok" /\ answer.body # None
    <2>1. /\ Ask("PutAssignment", [scope |-> answer.body.id, principal |-> result.got])
          /\ left' = <<>> /\ UNCHANGED <<speech, granter, result, told>>
      BY <1>2 DEF findAccount
    <2>2. answer.body \in Accounts
      BY <1>1, <1>2 DEF GrantInv, GrantAnswer
    <2>3. /\ told = None
          /\ speech /\ granter /\ result.of = "CreateAgent" /\ result.is = "ok" /\ result.got \in 1 .. minted
      BY <1>1 DEF GrantInv, GrantFollows
    <2>4. result.got \in Identities
      BY <2>3, WireAssumption DEF TypeOK, Identities
    <2>5. [op |-> "PutAssignment", on |-> [scope |-> answer.body.id, principal |-> result.got]]
            \in Requests
      BY <2>2, <2>4 DEF Requests
    <2>6. result # None => result.is \in Outcomes
      BY DEF TypeOK
    <2> QED
      BY <2>1, <2>3, <2>5, <2>6, NothingLeft, Asking
  <1>3. CASE ~(answer.status = "ok" /\ answer.body # None)
    <2>1. SearchNext(left)
      BY <1>3 DEF findAccount
    <2>2. left \in Seq(Listed)
      BY DEF GrantInv
    <2>3. trouble = 0 => Barren(request.on)
      BY <1>1, <1>3 DEF GrantInv, GrantAnswer
    <2>4. \A s \in Listed : s \in {left[j] : j \in DOMAIN left} \/ (trouble = 0 => Barren(s))
      BY <1>1, <2>3 DEF GrantInv, Searched, Asks
    <2> QED
      BY <1>1, <2>1, <2>2, <2>4, Searching
  <1> QED
    BY <1>2, <1>3

LEMMA AssigningCarries ==
  ASSUME TypeOK, GrantInv, ensureRoleAssignment
  PROVE  TypeOK' /\ GrantInv'
  <1>1. request # None /\ request.op = "PutAssignment" /\ answer # None /\ Granting
    BY DEF ensureRoleAssignment, Answered, Granting
  <1>2. IF Assigned(answer) THEN \E x \in assigned : x.principal = result.got ELSE trouble > 0
    BY <1>1 DEF GrantInv, GrantAnswer
  <1>3. PICK report \in {"granted", "denied", "failed"} :
          Tell(report) /\ (report = "granted" <=> Assigned(answer))
    BY DEF ensureRoleAssignment
  <1>4. report \in Reports
    BY <1>3 DEF Reports
  <1> QED
    BY <1>1, <1>2, <1>3, <1>4, Telling

LEMMA GrantNext == TypeOK /\ GrantInv /\ [Next]_vars => TypeOK' /\ GrantInv'
  <1> SUFFICES ASSUME TypeOK, GrantInv, [Next]_vars PROVE TypeOK' /\ GrantInv'
    OBVIOUS
  <1>1. CASE WireNext /\ UNCHANGED clientVars
    <2>1. CASE ServeMissing \/ ServeGetAgent \/ ServeGetVersion \/ ServeCreateAgent
      BY <1>1, <2>1, MissingCarries, LookupCarries, CreateAgentCarries
    <2>2. CASE ServeCreateVersion \/ ServeSetEndpoint \/ ServeDeleteAgent
      BY <1>1, <2>2, CreateVersionCarries, SetEndpointCarries, DeleteAgentCarries
    <2>3. CASE ServeList \/ ServeFind \/ ServeAssign
      BY <1>1, <2>3, ListCarries, FindCarries, AssignCarries
    <2>4. CASE Refuse \/ Others
      BY <1>1, <2>4, RefuseCarries, OthersCarry
    <2> QED
      BY <1>1, <2>1, <2>2, <2>3, <2>4 DEF WireNext
  <1>2. CASE Call \/ CreateAgent
    BY <1>2, CallCarries, CreationCarries
  <1>3. CASE GetAgent \/ GetVersion \/ CreateVersion \/ SetEndpoint \/ DeleteAgent
    BY <1>3, ReturnCarries
  <1>4. CASE listSubscriptions \/ findAccount \/ ensureRoleAssignment
    BY <1>4, ListingCarries, FindingCarries, AssigningCarries
  <1>5. CASE UNCHANGED vars
    <2>1. /\ UNCHANGED <<project, agent, issued, minted, assigned, request, attempts, answer, trouble>>
          /\ UNCHANGED <<speech, granter, calls, left, result, told>>
      BY <1>5 DEF vars, wireVars, planeVars, clientVars
    <2>2. TypeOK'
      BY <2>1 DEF TypeOK
    <2>3. GrantFollows' /\ Searched' /\ GrantAnswer' /\ GrantTold'
      <3>1. GrantFollows'
        BY <2>1 DEF GrantInv, GrantFollows, Granting
      <3>2. Searched'
        BY <2>1 DEF GrantInv, Searched, Asks, Barren
      <3>3. GrantAnswer'
        BY <2>1 DEF GrantInv, GrantAnswer, Asks, Barren
      <3>4. GrantTold'
        BY <2>1 DEF GrantInv, GrantTold, Returned
      <3> QED
        BY <3>1, <3>2, <3>3, <3>4
    <2>4. trouble' \in Nat /\ (agent.exists => agent.identity \in 1 .. minted)'
      BY <2>1 DEF GrantInv
    <2>5. (left \in Seq(Listed))' /\ (told # None => request = None)'
      BY <2>1 DEF GrantInv, Listed
    <2>6. (Asks("PutAssignment") => request.on.principal = result.got)'
      BY <2>1 DEF GrantInv, Asks
    <2> QED
      BY <2>2, <2>3, <2>4, <2>5, <2>6 DEF GrantInv
  <1> QED
    BY <1>1, <1>2, <1>3, <1>4, <1>5 DEF Next

(***************************************************************************)
(* The state the calls work on is well formed, whatever is lost, refused   *)
(* or done by others: the agent has no version that was not issued to it,  *)
(* and the role is held only by identities that were minted.               *)
(***************************************************************************)
THEOREM CallsTypeCorrect == Spec => []TypeOK
  BY GrantInit, GrantNext, PTL DEF Spec

(***************************************************************************)
(* The operator of a created voice agent learns what came of its access to *)
(* the models, unless no client for role assignments could be built, and   *)
(* what they learn is so: for any list of subscriptions, any accounts of   *)
(* the name in them, readable or not, any policy of retries, and whatever  *)
(* is lost, refused or granted by others.                                  *)
(***************************************************************************)
THEOREM GrantAlwaysTold == Spec => []GrantTold
  <1>1. GrantInv => GrantTold
    BY DEF GrantInv
  <1> QED
    BY <1>1, GrantInit, GrantNext, PTL DEF Spec
=============================================================================
