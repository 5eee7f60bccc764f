-------------------------- MODULE DeployProperties --------------------------
(***************************************************************************)
(* What makes FoundryDeploy correct.  Every property names the code that   *)
(* is responsible for it and the disturbances under which it is claimed.   *)
(***************************************************************************)
EXTENDS FoundryDeploy

(* An endpoint only points at an active version of its own agent: apply.go *)
(* 133-142 holds back a version that is not active, and 125 and 149 must   *)
(* name the same agent.  Under every disturbance.                          *)
EndpointActive ==
  \A s \in Sites : agents[s].served # 0 =>
    /\ versions[agents[s].served].site = s
    /\ versions[agents[s].served].status = "active"

(* What the document says is served was made live, and was made from what  *)
(* the recorded hashes say: apply.go 155-157 records only after the        *)
(* endpoint call was answered.  If this failed, versionNeeded would call   *)
(* a deployment up to date that is not.  Under every disturbance, as long  *)
(* as no configuration is a dry run.                                       *)
RecordMatchesServed ==
  doc.served # 0 =>
    /\ versions[doc.served].live
    /\ versions[doc.served].spec.pack = doc.packHash
    /\ versions[doc.served].spec.config = doc.configHash

(* The rollback history is usable: newest first, below the served version, *)
(* within its bound, and every entry was live and is active for as long as *)
(* its agent exists, so that going back to it is one endpoint call         *)
(* (state.go 104-120).                                                     *)
HistoryUsable ==
  /\ Len(doc.prior) <= MaxPriorVersions
  /\ \A i \in DOMAIN doc.prior :
       LET v == doc.prior[i] IN
       /\ v < doc.served
       /\ \A j \in DOMAIN doc.prior : j < i => v < doc.prior[j]
       /\ versions[v].live
       /\ agents[versions[v].site].exists => versions[v].status = "active"

(* A version recorded as in flight is newer than the served one and no     *)
(* endpoint ever pointed at it (apply.go 130-144).                         *)
InFlightUnserved ==
  doc.inFlight # None =>
    /\ doc.inFlight.version > doc.served
    /\ ~versions[doc.inFlight.version].live

(* What the document offers to go back to and what it is waiting for, at   *)
(* once.                                                                   *)
RecordUsable == HistoryUsable /\ InFlightUnserved

(* A version that reads its pack from a container finds it there: staging  *)
(* may be skipped only for what was really uploaded (staging.go 42), across*)
(* failed, lost and interrupted operations.  Claimed when nobody removes a *)
(* blob and no configuration is a dry run.                                 *)
StagedPackPresent ==
  \A v \in 1 .. issued : versions[v].spec.uri # None => versions[v].spec.uri \in blobs

(* Versions are billed: one is created only when the request moved, when   *)
(* the document was dropped, or to make up for something that went wrong   *)
(* (apply.go 227-237).  Across any sequence of operations.                 *)
BillingBound == issued <= 1 + changes + destroys + faults

(* No agent exists without a document that names it, the kept one or the   *)
(* copy of the operation in progress (apply.go 45-47).  Claimed while      *)
(* calls are answered and the process survives, for one project and name.  *)
NoOrphan ==
  \A s \in Sites : agents[s].exists => s[2] \in {doc.agentName, work.agentName}

(* Between operations the document and the endpoint agree on the served    *)
(* version, also after an operation that failed half way.  Claimed while   *)
(* calls are answered, the process survives and nobody else intervenes.    *)
RecordAgreesWithEndpoint ==
  pc = "idle" =>
    \A s \in Sites : agents[s].exists /\ doc.agentName = s[2] => agents[s].served = doc.served

(* Status tells the truth between operations: "not_deployed" means nothing *)
(* is left running, "deployed" that the endpoint serves what the document's*)
(* hashes describe (apply.go 334-388, which reads both the document and the*)
(* agent).  Claimed as NoOrphan and RecordAgreesWithEndpoint are.          *)
StatusHonest ==
  pc = "idle" =>
    /\ deploymentStatus = "not_deployed" => \A s \in Sites : ~agents[s].exists
    /\ deploymentStatus = "deployed" =>
         LET v == agents[<<want.config.project, doc.agentName>>].served IN
         /\ versions[v].status = "active"
         /\ versions[v].spec.pack = doc.packHash
         /\ versions[v].spec.config = doc.configHash

(* What the adapter remembers and what there is are one thing between      *)
(* operations: nothing unrecorded, nothing misreported.                    *)
RecordHonest == NoOrphan /\ RecordAgreesWithEndpoint /\ StatusHonest

(* An apply that succeeds did what the plan said: plan.go and apply.go     *)
(* decide separately and must agree, on the agent, on the version and on   *)
(* the endpoint (which only an unfinished version may leave alone).        *)
PlanHonoured ==
  pc = "return" /\ reply = "ok" /\ promise # None =>
    /\ promise.agent = "create" <=> "CreateAgent" \in calls
    /\ promise.version # "none" <=> "CreateVersion" \in calls
    /\ promise.served # "none" <=> "SetEndpoint" \in calls \/ work.inFlight # None
    /\ "StageObject" \in calls => promise.stage

(* What a document says of a deployment.                                   *)
SameDeployment(a, b) ==
  /\ a.agentName = b.agentName
  /\ a.served = b.served /\ a.prior = b.prior
  /\ a.packHash = b.packHash /\ a.configHash = b.configHash

(* All that a dry run may do to the document of a recorded deployment.  An *)
(* apply never touches what it says of the agent, the served version, the  *)
(* history and the hashes: with a version to create it ends in an error,   *)
(* for the simulated plane knows no recorded agent and refuses its endpoint*)
(* before anything is recorded (client_dryrun.go 71-81, apply.go 149-157), *)
(* and only then may it forget a version in flight.  dry-run.md 56-63 says *)
(* instead that such an apply runs as a real one would.  A destroy succeeds*)
(* on the simulated plane and drops the document with the agent still there*)
(* (apply.go 282-316, client_dryrun.go 99-102).                            *)
DryRunKeepsRecord ==
  [][want.config.dryRun /\ doc.agentName # None =>
       /\ UNCHANGED planeVars
       /\ \/ destroys' = destroys + 1 /\ doc' = newState
          \/ /\ SameDeployment(doc', doc)
             /\ versionNeeded(doc, want) => reply' = "error"
             /\ doc'.inFlight # doc.inFlight => reply' = "error"]_doc

(* Every operation ends, even when the platform never settles a version.   *)
Termination == pc # "idle" ~> pc = "idle"

(* The version served was made from the pack and the fingerprinted settings*)
(* the operator asks for.  azure_endpoint and state_store are not compared:*)
(* they reach the container (versions.go 94, 101) and hash.go 33 leaves    *)
(* them out, so after a change of these alone the container goes on with   *)
(* the old ones, although resource-types.md 41-45 has the configuration    *)
(* hash cover all that becomes part of a version.                          *)
Converged ==
  LET v == agents[Site].served IN
  /\ v # 0
  /\ versions[v].spec.pack = want.pack
  /\ versions[v].spec.config = Fingerprint(want.config)

(* A plan that says nothing will change, and warns of nothing, is shown    *)
(* only where the endpoint leads to a version made from the pack and the   *)
(* fingerprinted settings asked for, and from no other: not so for         *)
(* azure_endpoint and state_store, see Converged.  The hashes alone do not *)
(* know of an endpoint moved by someone else, or by an apply whose end was *)
(* lost; the comparison with the live agent does (provider.go 299-305).    *)
(* Claimed until an apply is rehearsed in a dry run, which is recorded in  *)
(* the document as if it had happened; under every disturbance.            *)
QuietPlanTrue ==
  [][~rehearsed' /\ promise' # None /\ promise'.told = "nothing" /\ promise'.version = "none"
       => Converged']_promise

(* An agent was created and never recorded, so that every later create is  *)
(* refused as a conflict.                                                  *)
Stranded == pc = "idle" /\ doc.agentName = None /\ agents[Site].exists

(* When changes and disturbances end, applying again and again brings the  *)
(* deployment to what was asked for, unless an agent was stranded.         *)
Convergence == <>[]Converged \/ []<>Stranded

(* The endpoints and the record, as EndpointPromise sees them.             *)
Promise == INSTANCE EndpointPromise
  WITH AgentSites <- Sites, Numbers <- Versions,
       live <- [s \in Sites |-> agents[s].served],
       recorded <- doc.served,
       past <- {v \in Versions : versions[v].live}

(* The deployment keeps that promise.  Claimed when nobody else moves an   *)
(* endpoint and no configuration is a dry run.                             *)
PromiseKept == Promise!Spec
-----------------------------------------------------------------------------
(* Why EndpointActive and RecordMatchesServed hold: the inductive invariant*)
(* FoundryDeployProofs proves them from.                                   *)

\* No version beyond the last one issued exists.
Unissued == \A v \in Versions : v > issued => versions[v] = NoVersion

\* Only a pack over the limit is on its way to a container.
Staging == pc = "stage" => ~Inline(want)

\* The version an operation waits for is its own, made from its request.
AwaitedOwn ==
  pc \in {"await", "setEndpoint"} =>
    /\ awaited \in 1 .. issued
    /\ versions[awaited].site = Site
    /\ versions[awaited].spec = buildAgentSpec(want)

\* Once seen active it stays so, unless the agent goes away with it.
AwaitedActive ==
  pc = "setEndpoint" /\ agents[Site].exists => versions[awaited].status = "active"

\* A document describes the version it says is served.
Describes(state) ==
  state.served # 0 =>
    /\ state.served <= issued
    /\ versions[state.served].live
    /\ versions[state.served].spec.pack = state.packHash
    /\ versions[state.served].spec.config = state.configHash

(* All of it at once.  The last conjunct needs that no configuration is a  *)
(* dry run.                                                                *)
EndpointInv == TypeOK /\ Staging /\ Unissued /\ AwaitedOwn /\ AwaitedActive /\ EndpointActive
DeployInv   == EndpointInv /\ Describes(doc) /\ Describes(work)

(***************************************************************************)
(* Why RecordUsable and PromiseKept hold: the inductive invariant          *)
(* DeployRecordProofs proves them from.  It needs that no configuration is *)
(* a dry run and that nobody else moves an endpoint.                       *)
(***************************************************************************)

\* Nothing newer than the version an operation waits for was ever live.
Newest(v) == \A u \in Versions : versions[u].live => u < v

AwaitedNewest == pc \in {"await", "setEndpoint"} => Newest(awaited)

\* A version that can be served again.
Usable(v) ==
  /\ versions[v].live
  /\ versions[v].site \in Sites
  /\ agents[versions[v].site].exists => versions[v].status = "active"

HistoryOf(state) ==
  /\ Len(state.prior) <= MaxPriorVersions
  /\ state.served # 0 => Usable(state.served)
  /\ \A i \in DOMAIN state.prior :
       /\ Usable(state.prior[i])
       /\ state.prior[i] < state.served
       /\ \A j \in DOMAIN state.prior : j < i => state.prior[i] < state.prior[j]

InFlightOf(state) ==
  state.inFlight # None =>
    /\ state.inFlight.version > state.served
    /\ state.inFlight.version <= issued
    /\ ~versions[state.inFlight.version].live
    /\ pc \in {"await", "setEndpoint"} => state.inFlight.version < awaited

\* A document without an agent speaks of no version.
Nameless(state) == state.agentName = None => state.served = 0 /\ state.prior = <<>>

Sound(state) == HistoryOf(state) /\ InFlightOf(state) /\ Nameless(state)

\* How far an operation's copy is ahead of the document.
CopyInv ==
  /\ pc # "idle" => \/ work.served = doc.served
                    \/ pc = "return" /\ work.served > doc.served
  /\ pc \in {"stage", "spec", "createAgent"} => work.agentName = doc.agentName
  /\ pc = "createAgent" => work.agentName = None
  /\ pc \in {"grant", "createVersion", "await", "setEndpoint"} => work.agentName # None
  /\ pc = "setEndpoint" => work.inFlight = None

RecordInv == DeployInv /\ AwaitedNewest /\ Sound(doc) /\ Sound(work) /\ CopyInv

(***************************************************************************)
(* Why StagedPackPresent and BillingBound hold: the inductive invariants   *)
(* DeployCostProofs proves them from.  They need that no configuration is a*)
(* dry run, the one that nobody removes a staged pack, the other that only *)
(* counted timeouts end a wait.                                            *)
(***************************************************************************)

\* The pack a document, or an operation past staging, speaks of is there.
Held(uri) == uri # None => uri \in blobs

PackInv ==
  /\ Held(doc.stagedPackURI) /\ Held(work.stagedPackURI)
  /\ pc \notin {"idle", "stage", "return"} => Held(stagedPackURI(want))
  /\ \A v \in 1 .. issued : Held(versions[v].spec.uri)

\* One more version will have to be created, as far as one can tell.
Owed ==
  \/ pc = "idle" /\ versionNeeded(doc, want)
  \/ pc \in {"stage", "spec", "createAgent", "grant", "return"} /\ versionNeeded(work, want)
  \/ pc = "createVersion"
  \/ /\ pc \in {"await", "setEndpoint"}
     /\ ~agents[Site].exists \/ versions[awaited].status \in {"failed", "deleted"}

Excuses == 1 + changes + destroys + faults

BillInv ==
  /\ issued <= Excuses
  /\ Owed => issued < Excuses
  /\ pc = "setEndpoint" => work.inFlight = None

(***************************************************************************)
(* Why PlanHonoured, QuietPlanTrue, DryRunKeepsRecord and RecordHonest     *)
(* hold: the inductive invariants DeployPlanProofs proves them from.       *)
(***************************************************************************)

\* The plan was made from the document, unless the agent was found gone.
PlanShown ==
  promise # None /\ promise.told # "gone" => promise = buildPlan(doc, want, promise.told)

\* What the operation has done so far of what the document called for.
AgentDone   == "CreateAgent" \in calls <=> doc.agentName = None
VersionDone == "CreateVersion" \in calls <=> versionNeeded(doc, want)
ServingDone == "SetEndpoint" \in calls \/ work.inFlight # None <=> versionNeeded(doc, want)

CallsInv ==
  /\ pc = "idle" => calls = {} /\ promise = None
  /\ "StageObject" \in calls => ~Inline(want)
  /\ pc \in {"stage", "spec", "createAgent"} =>
       work.agentName = doc.agentName /\ "CreateAgent" \notin calls
  /\ pc = "createAgent" => work.agentName = None
  /\ pc \in {"grant", "createVersion", "await", "setEndpoint"} => AgentDone
  /\ pc \in {"stage", "spec", "createAgent", "grant", "createVersion"} =>
       /\ "CreateVersion" \notin calls
       /\ versionNeeded(work, want) <=> versionNeeded(doc, want)
  /\ pc \in {"createVersion", "await", "setEndpoint"} => versionNeeded(doc, want)
  /\ pc \in {"await", "setEndpoint"} => "CreateVersion" \in calls
  /\ pc = "setEndpoint" => work.inFlight = None
  /\ pc # "return" => "SetEndpoint" \notin calls
  /\ pc = "return" /\ reply = "ok" => AgentDone /\ VersionDone /\ ServingDone

PlanInv == PlanShown /\ CallsInv

\* What a document names is there.  Needs one project, no dry run, and that no
\* agent is deleted without the document's being dropped.
Present(state) ==
  state.agentName # None => agents[<<want.config.project, state.agentName>>].exists

PresentInv ==
  /\ Present(doc) /\ Present(work)
  /\ promise # None => promise.told # "gone"

\* An operation past the agent's creation knows its name, and a document without
\* one speaks of no version.  Needs that no apply was rehearsed in a dry run.
NamedInv ==
  /\ Nameless(doc) /\ Nameless(work)
  /\ pc \in {"grant", "createVersion", "await", "setEndpoint"} => work.agentName # None

\* A version lives where the request it was made from says.
SpecSite ==
  \A v \in 1 .. issued :
    versions[v].site = <<versions[v].spec.config.project, versions[v].spec.pack.name>>

\* A dry run is over before anything else happens.
NeverHalfDry == pc # "idle" => ~want.config.dryRun

\* Whoever knows of the deployment, the operation in progress or else the
\* document, knows of every agent and of what it serves.  Needs one project, no
\* dry run, and that calls are answered, the process survives and nobody else
\* moves an endpoint.
Kept == IF pc = "idle" THEN doc ELSE work

HonestInv ==
  \A s \in Sites : agents[s].exists =>
    Kept.agentName = s[2] /\ Kept.served = agents[s].served

-----------------------------------------------------------------------------
(* What a document, comment or message of the repository says of the       *)
(* deployment and the code does not do.  Each is refuted by a run.         *)

(* client_real.go 296-297: a version still being created when the adapter  *)
(* stopped waiting "is real and recorded, so apply keeps it as in-flight". *)
UnfinishedRecorded ==
  pc = "idle" => \A v \in 1 .. issued :
    versions[v].status = "creating" => doc.inFlight # None /\ doc.inFlight.version = v

(* dry-run.md 27-29 and resource-types.md 31: an agent deleted out of band *)
(* is planned as a create and "will be recreated" by the apply.            *)
DriftRepaired ==
  pc = "return" /\ reply = "ok" /\ promise # None =>
    (promise.agent = "create" => "CreateAgent" \in calls)

(* security.md 52: apply grants model access when the pack declares speech *)
(* bindings, so a voice version in service has it.                         *)
SpeechGranted ==
  \A s \in Sites : LET v == agents[s].served IN
    v # 0 /\ versions[v].spec.config.speech => agents[s].granted
=============================================================================
