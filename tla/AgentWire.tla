------------------------------ MODULE AgentWire ------------------------------
(***************************************************************************)
(* What lies between the adapter's REST clients and one agent name, all of *)
(* it outside the repository: the HTTP pipeline, which repeats a request   *)
(* whose answer was lost or asked for patience, and the platform, which    *)
(* carries a request out every time it arrives.  A request is carried out  *)
(* and answered in one step; others may act between two steps.             *)
(***************************************************************************)
EXTENDS Integers, Sequences, FiniteSets

CONSTANTS
  Subscriptions, \* the first page of the subscriptions listed, in its order
  Readable,      \* those whose resources this identity may list
  Accounts,      \* the accounts of the configured name: [id, subscription]
  MaxVersions,   \* bound: the version numbers the platform issues
  MaxAgents,     \* bound: the agents it creates under the name
  MaxTries,      \* how often the pipeline sends a request (bound: a retry policy)
  MaxTrouble,    \* bound: requests refused and answers lost
  MaxDeeds,      \* bound: what others do meanwhile
  None

ASSUME WireAssumption ==
  /\ Subscriptions \in Seq({Subscriptions[i] : i \in DOMAIN Subscriptions})
  /\ None \notin Accounts
  /\ MaxVersions \in Nat
  /\ MaxAgents \in Nat
  /\ MaxTries \in Nat \ {0}

VARIABLES
  project,   \* the configured project exists
  agent,     \* the agent of the configured name
  issued,    \* the last version number given out
  minted,    \* the last identity given out
  assigned,  \* role assignments: [by, scope, principal]
  request,   \* the request under way, or None
  attempts,  \* how often it was sent
  answer,    \* what the client was handed for it, None while it waits
  seen,      \* history: the project and agent when the last answer was given
  did,       \* history: what the client's call under way has done so far
  trouble,   \* how many requests were refused or answers lost
  deeds      \* how much others did

planeVars == <<project, agent, issued, minted, assigned>>
wireVars  == <<planeVars, request, attempts, answer, seen, did, trouble, deeds>>

Numbers    == 1 .. MaxVersions
Identities == 1 .. MaxAgents

\* An identity of 0 is none; rules are the versions of the endpoint's selector;
\* a busy agent has sessions.
Agents  == [exists : BOOLEAN, identity : Identities \union {0}, rules : Seq(Numbers),
            versions : SUBSET Numbers, busy : BOOLEAN]
NoAgent == [exists |-> FALSE, identity |-> 0, rules |-> <<>>, versions |-> {}, busy |-> FALSE]

\* The body of a 404: its code, and whether its message says that the project
\* does not exist.  The gateway says so in its own code; the agents API answers
\* with its own code, whatever the words, or a body that is no JSON arrives.
Envelope(code, marker) == [parses |-> TRUE, code |-> code, marker |-> marker]
NoEnvelope    == [parses |-> FALSE, code |-> None, marker |-> FALSE]
ProjectBodies == {Envelope("ResourceNotFound", TRUE)}
AgentBodies   == {Envelope("not_found", FALSE), Envelope("not_found", TRUE),
                  Envelope("gone", FALSE), NoEnvelope}

Answer(status, body) == [status |-> status, body |-> body]
Missing == {Answer("missing", b) : b \in IF project THEN AgentBodies ELSE ProjectBodies}
Nothing == Answer("none", None)

WireInit ==
  /\ project \in BOOLEAN
  /\ agent = NoAgent
  /\ issued = 0
  /\ minted = 0
  /\ assigned = {}
  /\ request = None
  /\ attempts = 0
  /\ answer = None
  /\ seen = [project |-> project, agent |-> NoAgent]
  /\ did = {}
  /\ trouble = 0
  /\ deeds = 0

-----------------------------------------------------------------------------
\* The pipeline sends the request again, until it has sent it MaxTries times.
Again(final) ==
  /\ trouble < MaxTrouble
  /\ trouble' = trouble + 1
  /\ IF attempts < MaxTries THEN attempts' = attempts + 1 /\ UNCHANGED answer
                            ELSE answer' = final /\ UNCHANGED attempts
  /\ seen' = [project |-> project, agent |-> agent']

Deliver(a) ==
  /\ answer' = a
  /\ seen' = [project |-> project, agent |-> agent']
  /\ UNCHANGED <<attempts, trouble>>

\* The answer arrives, or is lost.
Respond(a) == Deliver(a) \/ Again(Nothing)

Waits(op) == request # None /\ request.op = op /\ answer = None

DataPlane == {"GetAgent", "GetVersion", "CreateAgent", "CreateVersion", "SetEndpoint",
              "DeleteAgent"}

\* Whatever is not there is a 404.
ServeMissing ==
  /\ request # None /\ request.op \in DataPlane /\ answer = None
  /\ \/ ~project
     \/ ~agent.exists /\ request.op # "CreateAgent"
     \/ request.op = "GetVersion" /\ request.on \notin agent.versions
  /\ UNCHANGED <<planeVars, request, did>>
  /\ \E a \in Missing : Respond(a)

Reached(op) == Waits(op) /\ project /\ agent.exists

ServeGetAgent ==
  /\ Reached("GetAgent")
  /\ UNCHANGED <<planeVars, request, did>>
  /\ Respond(Answer("ok", [identity |-> agent.identity, rules |-> agent.rules]))

ServeGetVersion ==
  /\ Reached("GetVersion")
  /\ request.on \in agent.versions
  /\ UNCHANGED <<planeVars, request, did>>
  /\ Respond(Answer("ok", request.on))

\* The identity is minted with the agent, and may be left out of the answer.
ServeCreateAgent ==
  /\ Waits("CreateAgent") /\ project
  /\ IF agent.exists
     THEN UNCHANGED <<planeVars, did>> /\ Respond(Answer("conflict", None))
     ELSE /\ minted < MaxAgents
          /\ minted' = minted + 1
          /\ agent' = [NoAgent EXCEPT !.exists = TRUE, !.identity = minted']
          /\ \E told \in {0, minted'} : Respond(Answer("ok", [identity |-> told, rules |-> <<>>]))
          /\ did' = did \union {"created"}
          /\ UNCHANGED <<project, issued, assigned>>
  /\ UNCHANGED request

ServeCreateVersion ==
  /\ Reached("CreateVersion")
  /\ issued < MaxVersions
  /\ issued' = issued + 1
  /\ agent' = [agent EXCEPT !.versions = @ \union {issued'}]
  /\ did' = did \union {issued'}
  /\ Respond(Answer("ok", issued'))
  /\ UNCHANGED <<project, minted, assigned, request>>

ServeSetEndpoint ==
  /\ Reached("SetEndpoint")
  /\ agent' = [agent EXCEPT !.rules = <<request.on>>]
  /\ did' = did \union {"served"}
  /\ UNCHANGED <<project, issued, minted, assigned, request>>
  /\ Respond(Answer("ok", None))

\* Without force an agent with sessions is not deleted.
ServeDeleteAgent ==
  /\ Reached("DeleteAgent")
  /\ IF agent.busy /\ request.on # "force"
     THEN UNCHANGED <<planeVars, did>> /\ Respond(Answer("conflict", None))
     ELSE /\ agent' = NoAgent
          /\ did' = did \union {"deleted"}
          /\ UNCHANGED <<project, issued, minted, assigned>>
          /\ Respond(Answer("ok", None))
  /\ UNCHANGED request

-----------------------------------------------------------------------------
(* Azure Resource Manager.                                                 *)

ServeList ==
  /\ Waits("ListSubscriptions")
  /\ UNCHANGED <<planeVars, request, did>>
  /\ Respond(Answer("ok", Subscriptions))

\* Of several accounts of one name in a subscription, any may come first.
ServeFind ==
  /\ Waits("FindAccount")
  /\ UNCHANGED <<planeVars, request, did>>
  /\ LET here == {x \in Accounts : x.subscription = request.on} IN
     IF request.on \notin Readable THEN Respond(Answer("denied", None))
     ELSE IF here = {} THEN Respond(Answer("ok", None))
     ELSE \E x \in here : Respond(Answer("ok", x))

\* A PUT under the same name is the same assignment; the same assignment under
\* another name is a conflict.
ServeAssign ==
  /\ Waits("PutAssignment")
  /\ UNCHANGED <<project, agent, issued, minted, request, did>>
  /\ LET same == {x \in assigned : x.scope = request.on.scope
                                /\ x.principal = request.on.principal}
     IN IF \E x \in same : x.by # "adapter"
        THEN UNCHANGED assigned /\ Respond(Answer("conflict", None))
        ELSE /\ assigned' = assigned \union {[by |-> "adapter", scope |-> request.on.scope,
                                             principal |-> request.on.principal]}
             /\ Respond(Answer("ok", None))

-----------------------------------------------------------------------------
\* A request is refused for good, or until later, and not carried out.
Refuse ==
  /\ request # None /\ answer = None
  /\ UNCHANGED <<planeVars, request, did>>
  /\ \/ Again(Answer("throttled", None))
     \/ /\ trouble < MaxTrouble
        /\ trouble' = trouble + 1
        /\ answer' = Answer("denied", None)
        /\ seen' = [project |-> project, agent |-> agent]
        /\ UNCHANGED attempts

\* Someone else deletes the agent, talks to it, splits its traffic, or grants
\* its identity the role by hand.
Others ==
  /\ agent.exists
  /\ deeds < MaxDeeds
  /\ deeds' = deeds + 1
  /\ \/ agent' = NoAgent /\ UNCHANGED assigned
     \/ agent' = [agent EXCEPT !.busy = TRUE] /\ UNCHANGED assigned
     \/ /\ \E v, w \in agent.versions : v # w /\ agent' = [agent EXCEPT !.rules = <<v, w>>]
        /\ UNCHANGED assigned
     \/ /\ \E x \in Accounts : assigned' = assigned \union
             {[by |-> "operator", scope |-> x.id, principal |-> agent.identity]}
        /\ UNCHANGED agent
  /\ UNCHANGED <<project, issued, minted, request, attempts, answer, seen, did, trouble>>

WireNext ==
  \/ /\ \/ ServeMissing \/ ServeGetAgent \/ ServeGetVersion \/ ServeCreateAgent
        \/ ServeCreateVersion \/ ServeSetEndpoint \/ ServeDeleteAgent
        \/ ServeList \/ ServeFind \/ ServeAssign \/ Refuse
     /\ UNCHANGED deeds
  \/ Others
=============================================================================
