----------------------------- MODULE AgentCalls -----------------------------
(***************************************************************************)
(* The adapter's calls on one agent, request by request: what the REST     *)
(* client makes of each answer (client_real.go), and the search and the    *)
(* role assignment by which a new voice agent gets access to the account's *)
(* models (identity.go, apply.go grantModelAccess).  FoundryDeploy takes   *)
(* each of these calls as one step.                                        *)
(***************************************************************************)
EXTENDS AgentWire

CONSTANT MaxCalls  \* bound: calls the adapter makes

VARIABLES
  speech,    \* the pack has speech bindings
  granter,   \* a client for role assignments could be built
  calls,     \* how many calls were made
  left,      \* the subscriptions still to be searched
  result,    \* what the last call returned
  told       \* what the operator was told of the grant, None if nothing

clientVars == <<speech, granter, calls, left, result, told>>
vars       == <<wireVars, clientVars>>

Outcomes == {"ok", "absent", "no project", "error"}
Reports  == {"granted", "no identity", "not listed", "not found", "denied", "failed"}
Requests ==
  [op : {"GetAgent", "CreateAgent", "CreateVersion", "ListSubscriptions"}, on : {None}]
    \union [op : {"GetVersion", "SetEndpoint"}, on : Numbers]
    \union [op : {"DeleteAgent"}, on : {"force", None}]
    \union [op : {"FindAccount"}, on : {Subscriptions[i] : i \in DOMAIN Subscriptions}]
    \union [op : {"PutAssignment"},
            on : [scope : {x.id : x \in Accounts}, principal : Identities]]

ASSUME NoneAssumption == None \notin Requests \union Reports

TypeOK ==
  /\ project \in BOOLEAN /\ speech \in BOOLEAN /\ granter \in BOOLEAN
  /\ agent \in Agents
  /\ issued \in 0 .. MaxVersions
  /\ minted \in 0 .. MaxAgents
  /\ agent.versions \subseteq 1 .. issued
  /\ assigned \subseteq [by : {"adapter", "operator"}, scope : {x.id : x \in Accounts},
                         principal : 1 .. minted]
  /\ request \in Requests \union {None}
  /\ attempts \in 0 .. MaxTries
  /\ request = None => answer = None
  /\ left # <<>> => request # None /\ request.op = "FindAccount"
  /\ result # None => result.is \in Outcomes
  /\ told \in Reports \union {None}
  /\ told # None => speech /\ granter

Init ==
  /\ WireInit
  /\ speech \in BOOLEAN
  /\ granter \in BOOLEAN
  /\ calls = 0
  /\ left = <<>>
  /\ result = None
  /\ told = None

-----------------------------------------------------------------------------
(* What the client makes of an answer.                                     *)

\* What a 404 means: the code decides before the words.  (The mutated form asks
\* the words first.)
MarkerFirst(b) == IF b.marker THEN "no project" ELSE "absent"
notFoundError(b) ==
  IF b.parses /\ b.code # "not_found" /\ b.marker THEN "no project" ELSE "absent"

Read(a) ==
  IF a.status = "ok" THEN "ok"
  ELSE IF a.status = "missing" THEN notFoundError(a.body) ELSE "error"

\* Of an endpoint's rules the first counts.
toAgent(rules) == IF rules = <<>> THEN 0 ELSE rules[1]

\* An agent that reported an identity.  (The mutated form takes any for one.)
AnyIdentity(a) == TRUE
HasIdentity(a) == a.body.identity # 0

\* An assignment that exists already is as good as a new one.  (The mutated form
\* takes it for a failure.)
OnlyNew(a) == a.status = "ok"
Assigned(a) == a.status \in {"ok", "conflict"}

-----------------------------------------------------------------------------
Ask(op, on) ==
  /\ request' = [op |-> op, on |-> on]
  /\ attempts' = 1
  /\ answer' = None
  /\ UNCHANGED <<planeVars, seen, trouble, deeds>>

\* An operation of the adapter makes one of its calls.
Call ==
  /\ request = None
  /\ calls < MaxCalls
  /\ calls' = calls + 1
  /\ \/ \E op \in {"GetAgent", "CreateAgent", "CreateVersion"} : Ask(op, None)
     \/ \E op \in {"GetVersion", "SetEndpoint"}, v \in 1 .. issued : Ask(op, v)
     \/ Ask("DeleteAgent", "force")
  /\ did' = {}
  /\ result' = None
  /\ told' = None
  /\ UNCHANGED <<speech, granter, left>>

Answered(op) == request # None /\ request.op = op /\ answer # None

\* The call returns.
Done(is, got) ==
  /\ result' = [of |-> request.op, on |-> request.on, is |-> is, got |-> got,
                status |-> answer.status]
  /\ request' = None
  /\ answer' = None
  /\ attempts' = 0
  /\ UNCHANGED <<planeVars, seen, did, trouble, deeds, speech, granter, calls>>

GetAgent ==
  /\ Answered("GetAgent")
  /\ Done(Read(answer), IF answer.status = "ok" THEN toAgent(answer.body.rules) ELSE 0)
  /\ UNCHANGED <<left, told>>

GetVersion ==
  /\ Answered("GetVersion")
  /\ Done(Read(answer), 0)
  /\ UNCHANGED <<left, told>>

\* The version to await is the one of the answer that arrived.
CreateVersion ==
  /\ Answered("CreateVersion")
  /\ IF answer.status = "ok" THEN Done("ok", answer.body) ELSE Done("error", 0)
  /\ UNCHANGED <<left, told>>

SetEndpoint ==
  /\ Answered("SetEndpoint")
  /\ Done(Read(answer), 0)
  /\ UNCHANGED <<left, told>>

\* What is gone already, for whatever reason, is deleted.
DeleteAgent ==
  /\ Answered("DeleteAgent")
  /\ Done(IF answer.status \in {"ok", "missing"} THEN "ok" ELSE "error", 0)
  /\ UNCHANGED <<left, told>>

-----------------------------------------------------------------------------
(* ensureAgent: the creation and, for a voice agent, the grant.            *)

\* Whether there is a grant to try: without a client for it nothing is tried and
\* nothing said.
MayGrant == speech /\ granter

CreateAgent ==
  /\ Answered("CreateAgent")
  /\ \/ /\ answer.status # "ok"
        /\ Done("error", 0)
        /\ UNCHANGED told
     \/ /\ answer.status = "ok" /\ ~(MayGrant /\ HasIdentity(answer))
        /\ Done("ok", answer.body.identity)
        /\ told' = IF MayGrant THEN "no identity" ELSE None
     \/ /\ answer.status = "ok" /\ MayGrant /\ HasIdentity(answer)
        /\ Ask("ListSubscriptions", None)
        /\ result' = [of |-> "CreateAgent", on |-> None, is |-> "ok",
                      got |-> answer.body.identity, status |-> "ok"]
        /\ UNCHANGED <<did, speech, granter, calls, told>>
  /\ UNCHANGED left

\* The grant ends, and the creation with it: whatever came of it, it is told.
\* The identity granted to is the one the creation reported.
Tell(report) ==
  /\ told' = report
  /\ left' = <<>>
  /\ request' = None
  /\ answer' = None
  /\ attempts' = 0
  /\ UNCHANGED <<planeVars, seen, did, trouble, deeds, speech, granter, calls, result>>

\* The next subscription is searched, if one is left.
SearchNext(subscriptions) ==
  IF subscriptions = <<>> THEN Tell("not found")
  ELSE /\ Ask("FindAccount", Head(subscriptions))
       /\ left' = Tail(subscriptions)
       /\ UNCHANGED <<did, speech, granter, calls, result, told>>

listSubscriptions ==
  /\ Answered("ListSubscriptions")
  /\ IF answer.status = "ok" THEN SearchNext(answer.body) ELSE Tell("not listed")

\* A subscription that cannot be read does not stop the search.
findAccount ==
  /\ Answered("FindAccount")
  /\ IF answer.status = "ok" /\ answer.body # None
     THEN /\ Ask("PutAssignment", [scope |-> answer.body.id, principal |-> result.got])
          /\ left' = <<>>
          /\ UNCHANGED <<did, speech, granter, calls, result, told>>
     ELSE SearchNext(left)

ensureRoleAssignment ==
  /\ Answered("PutAssignment")
  /\ Tell(IF Assigned(answer) THEN "granted"
          ELSE IF answer.status = "denied" THEN "denied" ELSE "failed")

Next ==
  \/ WireNext /\ UNCHANGED clientVars
  \/ Call \/ GetAgent \/ GetVersion \/ CreateAgent \/ CreateVersion \/ SetEndpoint
  \/ DeleteAgent \/ listSubscriptions \/ findAccount \/ ensureRoleAssignment

Spec == Init /\ [][Next]_vars
=============================================================================
