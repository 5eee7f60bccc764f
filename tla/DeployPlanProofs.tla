-------------------------- MODULE DeployPlanProofs --------------------------
(***************************************************************************)
(* Proofs about what the operator is told: the plan, the dry run and the   *)
(* record between operations.  For every set of packs and configurations,  *)
(* and every bound; each theorem names the disturbances it leaves out.     *)
(***************************************************************************)
EXTENDS DeployRecordProofs

-----------------------------------------------------------------------------
(* The plan and the apply decide alike.                                    *)

\* The two decisions of plan.go and the one of apply.go.
LEMMA PlanDecides ==
  ASSUME NEW state, NEW r, NEW told
  PROVE  LET plan == buildPlan(state, r, told) IN
         /\ plan.agent = "create" <=> state.agentName = None
         /\ plan.version # "none" <=> versionNeeded(state, r)
         /\ plan.served # "none" <=> versionNeeded(state, r)
         /\ plan.stage <=> ~Inline(r)
         /\ plan.told = told
BY DEF buildPlan, agentChange, versionChange, servedVersionChange, versionNeeded

\* Neither where the pack is nor the agent's name decides on a version.
LEMMA NeedUnmoved ==
  ASSUME NEW state \in States
  PROVE  /\ versionNeeded(Noted(state), want) <=> versionNeeded(state, want)
         /\ versionNeeded([state EXCEPT !.agentName = want.pack.name], want)
              <=> versionNeeded(state, want)
BY DEF Noted, versionNeeded, States

LEMMA PlanTypes ==
  ASSUME TypeOK
  PROVE  /\ want \in Requests /\ doc \in States /\ work \in States
         /\ Noted(work).agentName = work.agentName
         /\ Settled(work).agentName = work.agentName /\ Settled(work).inFlight = None
         /\ [work EXCEPT !.agentName = want.pack.name].agentName = want.pack.name
         /\ want.pack.name \in Names /\ want.pack.name # None
<1>1. want \in Requests /\ doc \in States /\ work \in States
  BY DEF TypeOK, OpTypeOK
<1>2. want.pack.name \in Names /\ want.pack.name # None
  BY <1>1, RequestTypes, NoneAssumption
<1> QED BY <1>1, <1>2 DEF Noted, Settled, States

\* The end of an operation, or of one that never began.
LEMMA CallsIdle ==
  ASSUME NEW outcome, NEW document, Idle(outcome, document)
  PROVE  CallsInv' /\ PlanShown'
BY DEF Idle, CallsInv, PlanShown

LEMMA CallsStay ==
  ASSUME CallsInv, UNCHANGED <<doc, want, opVars>>
  PROVE  CallsInv'
BY DEF CallsInv, opVars, AgentDone, VersionDone, ServingDone, versionNeeded, Fingerprint, Inline

\* A failed step leaves nothing to account for.
LEMMA CallsFail ==
  ASSUME CallsInv, End("error", work, {}), pc # "return"
  PROVE  CallsInv'
BY DEF CallsInv, End, Inline

\* What follows the agent, whether it was created or there.
LEMMA CallsAfterAgent ==
  ASSUME CallsInv, NEW state, NEW made, AfterAgent(state, made),
         pc \in {"spec", "createAgent", "grant"}, made \subseteq {"CreateAgent"},
         versionNeeded(state, want) <=> versionNeeded(doc, want),
         "CreateAgent" \in calls \union made <=> doc.agentName = None
  PROVE  CallsInv'
<1>1. /\ calls' = calls \union made /\ work' = state /\ UNCHANGED <<doc, want>>
      /\ "CreateVersion" \notin calls' /\ "SetEndpoint" \notin calls'
      /\ "StageObject" \in calls' => ~Inline(want)
  BY DEF CallsInv, AfterAgent, Go, End
<1>2. CASE versionNeeded(state, want)
  <2>1. pc' = "createVersion"
    BY <1>2 DEF AfterAgent, Go
  <2> QED BY <1>1, <1>2, <2>1 DEF CallsInv, AgentDone, VersionDone, ServingDone, versionNeeded, Fingerprint, Inline
<1>3. CASE ~versionNeeded(state, want)
  <2>1. pc' = "return" /\ state.inFlight = None
    BY <1>3 DEF AfterAgent, End, versionNeeded
  <2> QED BY <1>1, <1>3, <2>1 DEF CallsInv, AgentDone, VersionDone, ServingDone, versionNeeded, Fingerprint, Inline
<1> QED BY <1>2, <1>3

LEMMA CallsStep == TypeOK /\ Staging /\ AwaitedOwn /\ CallsInv /\ [Next]_vars => CallsInv'
<1> SUFFICES ASSUME TypeOK, Staging, AwaitedOwn, CallsInv, [Next]_vars PROVE CallsInv'
  OBVIOUS
<1> DEFINE named == [work EXCEPT !.agentName = want.pack.name]
<1>1. /\ versionNeeded(Noted(work), want) <=> versionNeeded(work, want)
      /\ versionNeeded(named, want) <=> versionNeeded(work, want)
      /\ Noted(work).agentName = work.agentName
      /\ Settled(work).inFlight = None
  BY PlanTypes, NeedUnmoved
<1> HIDE DEF named
<1>2. CASE UNCHANGED vars \/ Activate \/ Disturbance
  BY <1>2, CallsStay DEF vars, Activate, Disturbance
<1>3. CASE ChangeMind
  BY <1>3 DEF ChangeMind, opVars, CallsInv
<1>4. CASE StartApply
  BY <1>4 DEF StartApply, CallsInv, versionNeeded, Fingerprint, Inline
<1>5. CASE RejectApply \/ Return \/ Crash \/ DryRunApply \/ Destroy
  BY <1>5, CallsIdle DEF RejectApply, Return, Crash, DryRunApply, Destroy
<1>6. CASE Stage
  <2>1. CASE Go("spec", work, {"StageObject"})
    BY <1>6, <2>1 DEF Stage, Staging, Go, CallsInv, versionNeeded, Fingerprint, Inline
  <2> QED BY <1>6, <2>1, CallsIdle DEF Stage
<1>7. CASE BuildSpec
  <2>1. CASE work.agentName = None /\ Go("createAgent", Noted(work), {})
    BY <1>1, <1>7, <2>1 DEF BuildSpec, Go, CallsInv, versionNeeded, Fingerprint, Inline
  <2>2. CASE work.agentName # None /\ AfterAgent(Noted(work), {})
    <3>1. "CreateAgent" \notin calls /\ doc.agentName # None
          /\ (versionNeeded(work, want) <=> versionNeeded(doc, want))
      BY <1>7, <2>2 DEF BuildSpec, CallsInv
    <3> QED BY <1>1, <1>7, <2>2, <3>1, CallsAfterAgent DEF BuildSpec
  <2>3. CASE Idle("error", doc)
    BY <2>3, CallsIdle
  <2>4. \/ work.agentName = None /\ Go("createAgent", Noted(work), {})
        \/ work.agentName # None /\ AfterAgent(Noted(work), {})
        \/ Idle("error", doc)
    BY <1>1, <1>7 DEF BuildSpec
  <2> QED BY <2>1, <2>2, <2>3, <2>4
<1>8. CASE CreateAgent
  <2>1. doc.agentName = None /\ (versionNeeded(work, want) <=> versionNeeded(doc, want))
    BY <1>8 DEF CreateAgent, CallsInv
  <2>2. CASE Go("grant", named, {"CreateAgent"})
    BY <1>1, <1>8, <2>1, <2>2 DEF CreateAgent, Go, CallsInv, AgentDone, versionNeeded, Fingerprint, Inline
  <2>3. CASE AfterAgent(named, {"CreateAgent"})
    BY <1>1, <1>8, <2>1, <2>3, CallsAfterAgent DEF CreateAgent
  <2> QED BY <1>8, <2>2, <2>3, CallsFail DEF CreateAgent, named
<1>9. CASE Grant
  <2>1. AgentDone /\ (versionNeeded(work, want) <=> versionNeeded(doc, want))
    BY <1>9 DEF Grant, CallsInv
  <2> QED BY <1>9, <2>1, CallsAfterAgent DEF Grant, AgentDone
<1>10. CASE CreateVersion
  <2>1. CASE pc' = "await" /\ calls' = calls \union {"CreateVersion"}
             /\ UNCHANGED <<doc, want, work, promise, reply>>
    BY <1>10, <2>1 DEF CreateVersion, CallsInv, AgentDone, versionNeeded, Fingerprint, Inline
  <2> QED BY <1>10, <2>1, CallsFail DEF CreateVersion
<1>11. CASE Await \/ GiveUp
  <2>1. CASE pc = "await" /\ Go("setEndpoint", Settled(work), {})
    BY <1>1, <2>1 DEF Go, CallsInv, AgentDone, versionNeeded, Fingerprint, Inline
  <2>2. CASE pc = "await" /\ End("ok", Flight, {})
    <3>1. Flight.inFlight # None
      <4>1. /\ awaited \in Versions /\ want.pack \in Packs /\ work \in States
            /\ Fingerprint(want.config) \in Fingerprints
        BY <2>2, RequestTypes, BoundAssumption
           DEF TypeOK, OpTypeOK, PlaneTypeOK, AwaitedOwn, Versions
      <4>2. Flight.inFlight \in InFlights
        BY <4>1 DEF Flight, InFlights, States
      <4> QED BY <4>2, NoFlightAssumption
    <3> QED BY <2>2, <3>1 DEF End, CallsInv, AgentDone, VersionDone, ServingDone, versionNeeded, Fingerprint, Inline
  <2> QED BY <1>11, <2>1, <2>2, CallsFail DEF Await, GiveUp, Flight
<1>12. CASE SetEndpoint
  <2>1. CASE End("ok", Served(work), {"SetEndpoint"})
    BY <1>12, <2>1 DEF SetEndpoint, End, CallsInv, AgentDone, VersionDone, ServingDone, versionNeeded, Fingerprint, Inline
  <2> QED BY <1>12, <2>1, CallsFail DEF SetEndpoint
<1> QED BY <1>2, <1>3, <1>4, <1>5, <1>6, <1>7, <1>8, <1>9, <1>10, <1>11, <1>12
        DEF Next, Advance

\* A plan is only shown by StartApply, and lasts as long as its document.
LEMMA ShownStep == TypeOK /\ CallsInv /\ PlanShown /\ [Next]_vars => PlanShown'
<1> SUFFICES ASSUME TypeOK, CallsInv, PlanShown, [Next]_vars PROVE PlanShown'
  OBVIOUS
<1>1. CASE StartApply
  <2> SUFFICES ASSUME promise' # None, promise'.told # "gone"
               PROVE  promise' = buildPlan(doc, want, promise'.told)
    BY <1>1 DEF PlanShown, StartApply, buildPlan, agentChange, versionChange,
       servedVersionChange, Fingerprint, Inline
  <2>1. \/ promise' = buildPlan(doc, want, "nothing")
        \/ promise' = buildPlan(doc, want, "unverified")
        \/ Compared # "gone" /\ promise' = buildPlan(doc, want, Compared)
        \/ promise' = buildPlan(clearedState(doc), want, "gone")
    BY <1>1 DEF StartApply, ShownPlans
  <2> QED BY <2>1, PlanDecides
<1>2. CASE UNCHANGED <<doc, want, promise>>
  BY <1>2 DEF PlanShown, buildPlan, agentChange, versionChange, servedVersionChange,
     Fingerprint, Inline
<1>3. CASE ChangeMind
  BY <1>3 DEF ChangeMind, opVars, CallsInv, PlanShown
<1>4. ASSUME NEW outcome, NEW document, Idle(outcome, document) PROVE PlanShown'
  BY <1>4, CallsIdle
<1>5. CASE RejectApply \/ Return \/ Crash \/ DryRunApply \/ Destroy
  BY <1>4, <1>5 DEF RejectApply, Return, Crash, DryRunApply, Destroy
<1>6. CASE Stage \/ BuildSpec
  BY <1>2, <1>4, <1>6 DEF Stage, BuildSpec, AfterAgent, Go, End
<1>7. CASE CreateAgent \/ Grant \/ CreateVersion \/ Await \/ GiveUp \/ SetEndpoint
  BY <1>2, <1>7 DEF CreateAgent, Grant, CreateVersion, Await, GiveUp, SetEndpoint,
     AfterAgent, Go, End
<1>8. CASE UNCHANGED vars \/ Activate \/ Disturbance
  BY <1>2, <1>8 DEF vars, opVars, Activate, Disturbance
<1> QED BY <1>1, <1>3, <1>5, <1>6, <1>7, <1>8 DEF Next, Advance

LEMMA PlanInvariant == Spec => []PlanInv
<1>1. Init => PlanInv
  BY DEF Init, PlanInv, PlanShown, CallsInv
<1>2. EndpointInv /\ PlanInv /\ [Next]_vars => PlanInv'
  BY CallsStep, ShownStep DEF PlanInv, EndpointInv
<1> QED BY <1>1, <1>2, EndpointInvariant, PTL DEF Spec

\* A plan made from the document is kept by an apply that succeeds.
LEMMA PlanKept ==
  ASSUME PlanInv, promise # None, promise.told # "gone"
  PROVE  PlanHonoured
<1> SUFFICES ASSUME pc = "return", reply = "ok" PROVE PlanHonoured
  BY DEF PlanHonoured
<1>1. promise = buildPlan(doc, want, promise.told)
  BY DEF PlanInv, PlanShown
<1>2. /\ promise.agent = "create" <=> doc.agentName = None
      /\ promise.version # "none" <=> versionNeeded(doc, want)
      /\ promise.served # "none" <=> versionNeeded(doc, want)
      /\ promise.stage <=> ~Inline(want)
  BY <1>1, PlanDecides
<1>3. AgentDone /\ VersionDone /\ ServingDone /\ ("StageObject" \in calls => ~Inline(want))
  BY DEF PlanInv, CallsInv
<1> QED BY <1>2, <1>3 DEF PlanHonoured, AgentDone, VersionDone, ServingDone

(* An apply that succeeds did what the plan said, whatever failed and      *)
(* whoever intervened in between, unless the plan had found the recorded   *)
(* agent gone: then it speaks of a document the apply does not start from  *)
(* (provider.go 299-305, apply.go 45-47).                                  *)
THEOREM PlanHonouredUnlessGone ==
  Spec => [](promise # None /\ promise.told # "gone" => PlanHonoured)
BY PlanInvariant, PlanKept, PTL

-----------------------------------------------------------------------------
(* An agent that is recorded is there.                                     *)

\* Only a destroy, or someone else, takes an agent away.
LEMMA StillThere ==
  ASSUME TypeOK, [Next]_vars, {"lose", "delete"} \cap Faults = {},
         NEW s \in Sites, agents[s].exists
  PROVE  agents'[s].exists \/ (doc' = newState /\ work' = newState)
<1>1. /\ agents \in [Sites -> [exists : BOOLEAN, served : 0 .. MaxVersions, granted : BOOLEAN]]
      /\ Site \in Sites
  BY RequestTypes DEF TypeOK, PlaneTypeOK, OpTypeOK, Site
<1>2. CASE agents' = agents
  BY <1>2
<1>3. CASE Stage
  BY <1>2, <1>3 DEF Stage, DoStage, planeVars
<1>4. CASE CreateAgent
  BY <1>1, <1>2, <1>4 DEF CreateAgent, DoCreateAgent, planeVars
<1>5. CASE Grant
  BY <1>1, <1>2, <1>5 DEF Grant, DoGrant, planeVars
<1>6. CASE CreateVersion
  BY <1>2, <1>6 DEF CreateVersion, DoCreateVersions, planeVars
<1>7. CASE SetEndpoint
  BY <1>1, <1>2, <1>7 DEF SetEndpoint, DoSetEndpoint, planeVars
<1>8. CASE Destroy
  BY <1>2, <1>8 DEF Destroy, Idle, planeVars
<1>9. CASE Activate \/ Disturbance
  BY <1>1, <1>2, <1>9 DEF Activate, Disturbance, Disturb, Settle, Repoint, DoSetEndpoint, LoseBlob
<1>10. CASE UNCHANGED vars \/ StartApply \/ RejectApply \/ BuildSpec \/ Await \/ GiveUp
            \/ Return \/ Crash \/ DryRunApply \/ ChangeMind
  BY <1>2, <1>10 DEF vars, planeVars, StartApply, RejectApply, BuildSpec, Await, GiveUp,
     Return, Crash, DryRunApply, ChangeMind
<1> QED BY <1>3, <1>4, <1>5, <1>6, <1>7, <1>8, <1>9, <1>10 DEF Next, Advance

\* A name is only recorded when its agent was created.
LEMMA NameMoves ==
  ASSUME TypeOK, [Next]_vars, \A c \in Configs : ~c.dryRun
  PROVE  /\ doc'.agentName \in {None, doc.agentName, work.agentName}
         /\ \/ work'.agentName \in {None, doc.agentName, work.agentName}
            \/ /\ pc = "createAgent" /\ DoCreateAgent(Site) /\ UNCHANGED want
               /\ work'.agentName = want.pack.name
<1>1. /\ ~want.config.dryRun /\ newState.agentName = None
      /\ Noted(work).agentName = work.agentName
      /\ Settled(work).agentName = work.agentName
      /\ [work EXCEPT !.agentName = want.pack.name].agentName = want.pack.name
  BY PlanTypes DEF Requests, newState
<1>2. Flight.agentName = work.agentName /\ Served(work).agentName = work.agentName
  BY PlanTypes DEF Flight, Served, recordVersion, States
<1>3. CASE UNCHANGED vars \/ StartApply \/ ChangeMind \/ Activate \/ Disturbance
  BY <1>3 DEF vars, opVars, StartApply, ChangeMind, Activate, Disturbance
<1>4. CASE RejectApply \/ Return \/ Crash \/ Destroy
  BY <1>1, <1>4 DEF RejectApply, Return, Crash, Destroy, Idle
<1>5. CASE Stage \/ BuildSpec
  BY <1>1, <1>5 DEF Stage, BuildSpec, AfterAgent, Go, End, Idle
<1>6. CASE CreateAgent
  BY <1>1, <1>6 DEF CreateAgent, AfterAgent, Go, End
<1>7. CASE Grant \/ CreateVersion \/ GiveUp
  BY <1>7 DEF Grant, CreateVersion, GiveUp, AfterAgent, Go, End
<1>8. CASE Await
  BY <1>1, <1>2, <1>8 DEF Await, Go, End, Flight
<1>9. CASE SetEndpoint
  BY <1>2, <1>9 DEF SetEndpoint, Serving, End
<1>10. CASE DryRunApply
  BY <1>1, <1>10 DEF DryRunApply
<1> QED BY <1>3, <1>4, <1>5, <1>6, <1>7, <1>8, <1>9, <1>10 DEF Next, Advance

SameProject == \A c, d \in Configs : c.project = d.project

LEMMA PresentStep ==
  ASSUME TypeOK, TypeOK', PresentInv, [Next]_vars, SameProject,
         \A c \in Configs : ~c.dryRun, {"lose", "delete"} \cap Faults = {}
  PROVE  PresentInv'
<1> DEFINE project == want.config.project
<1>1. project' = project /\ project \in Projects
  BY DEF SameProject, TypeOK, OpTypeOK, Requests, Projects
<1> HIDE DEF project
<1>2. /\ doc.agentName \in Names \union {None} /\ work.agentName \in Names \union {None}
      /\ Site \in Sites /\ Site = <<project, want.pack.name>>
  BY PlanTypes, RequestTypes DEF States, Site, SiteOf, project
<1>3. newState.agentName = None
  BY DEF newState
<1>4. ASSUME NEW name \in {doc.agentName, work.agentName}, name # None
      PROVE  agents'[<<project, name>>].exists \/ (doc' = newState /\ work' = newState)
  <2>1. <<project, name>> \in Sites
    BY <1>1, <1>2, <1>4 DEF Sites
  <2>2. agents[<<project, name>>].exists
    BY <1>4 DEF PresentInv, Present, project
  <2> QED BY <2>1, <2>2, StillThere
<1>5. ASSUME DoCreateAgent(Site) PROVE agents'[<<project, want.pack.name>>].exists
  BY <1>2, <1>5 DEF DoCreateAgent, TypeOK, PlaneTypeOK
<1>6. doc'.agentName # None => agents'[<<project, doc'.agentName>>].exists
  BY <1>3, <1>4, NameMoves
<1>7. work'.agentName # None => agents'[<<project, work'.agentName>>].exists
  BY <1>3, <1>4, <1>5, NameMoves
<1>8. promise' # None => promise'.told # "gone"
  <2>1. CASE StartApply
    <3>1. doc.agentName # None => Compared # "gone"
      BY DEF PresentInv, Present, Compared, Recorded
    <3> QED BY <2>1, <3>1, PlanDecides DEF StartApply, ShownPlans
  <2>2. CASE promise' \in {promise, None}
    BY <2>2 DEF PresentInv
  <2>3. CASE UNCHANGED vars \/ Activate \/ Disturbance \/ ChangeMind
    BY <2>2, <2>3 DEF vars, opVars, Activate, Disturbance, ChangeMind
  <2>4. CASE RejectApply \/ Return \/ Crash \/ DryRunApply \/ Destroy
    BY <2>2, <2>4 DEF RejectApply, Return, Crash, DryRunApply, Destroy, Idle
  <2>5. CASE Stage \/ BuildSpec \/ CreateAgent \/ Grant
    BY <2>2, <2>5 DEF Stage, BuildSpec, CreateAgent, Grant, AfterAgent, Go, End, Idle
  <2>6. CASE CreateVersion \/ Await \/ GiveUp \/ SetEndpoint
    BY <2>2, <2>6 DEF CreateVersion, Await, GiveUp, SetEndpoint, Go, End
  <2> QED BY <2>1, <2>3, <2>4, <2>5, <2>6 DEF Next, Advance
<1> QED BY <1>1, <1>6, <1>7, <1>8 DEF PresentInv, Present, project

(* An apply that succeeds did what the plan said, on the agent, on the     *)
(* version and on the endpoint, whatever is refused, times out, fails or   *)
(* dies in between: within one project, without dry runs, when no agent is *)
(* deleted without the document's being dropped.                           *)
THEOREM PlanAlwaysHonoured ==
  ASSUME SameProject, \A c \in Configs : ~c.dryRun, {"lose", "delete"} \cap Faults = {}
  PROVE  Spec => []PlanHonoured
<1>1. Init => PresentInv
  BY DEF Init, PresentInv, Present, newState
<1>2. EndpointInv /\ EndpointInv' /\ PresentInv /\ [Next]_vars => PresentInv'
  BY PresentStep DEF EndpointInv
<1>3. PlanInv /\ PresentInv => PlanHonoured
  <2> SUFFICES ASSUME PlanInv, PresentInv, promise # None PROVE PlanHonoured
    BY DEF PlanHonoured
  <2> QED BY PlanKept DEF PresentInv
<1> QED BY <1>1, <1>2, <1>3, EndpointInvariant, PlanInvariant, PTL DEF Spec

-----------------------------------------------------------------------------
(* A dry run.                                                              *)

LEMMA HalfDryStep == TypeOK /\ NeverHalfDry /\ [Next]_vars => NeverHalfDry'
<1> SUFFICES ASSUME TypeOK, NeverHalfDry, [Next]_vars, pc' # "idle" PROVE ~want'.config.dryRun
  BY DEF NeverHalfDry
<1>1. CASE UNCHANGED vars \/ Activate \/ Disturbance \/ ChangeMind
  BY <1>1 DEF vars, opVars, Activate, Disturbance, ChangeMind, NeverHalfDry
<1>2. CASE StartApply
  BY <1>2 DEF StartApply
<1>3. CASE RejectApply \/ Return \/ Crash \/ DryRunApply \/ Destroy
  BY <1>3 DEF RejectApply, Return, Crash, DryRunApply, Destroy, Idle
<1>4. CASE Stage \/ BuildSpec \/ CreateAgent \/ Grant
  BY <1>4 DEF Stage, BuildSpec, CreateAgent, Grant, AfterAgent, Go, End, Idle, NeverHalfDry
<1>5. CASE CreateVersion \/ Await \/ GiveUp \/ SetEndpoint
  BY <1>5 DEF CreateVersion, Await, GiveUp, SetEndpoint, Go, End, NeverHalfDry
<1> QED BY <1>1, <1>2, <1>3, <1>4, <1>5 DEF Next, Advance

\* What a dry run makes of a document that names an agent.
DryDropped == destroys' = destroys + 1 /\ doc' = newState
DryKept ==
  /\ SameDeployment(doc', doc)
  /\ versionNeeded(doc, want) => reply' = "error"
  /\ doc'.inFlight # doc.inFlight => reply' = "error"

DryStep ==
  want.config.dryRun /\ doc.agentName # None
    => UNCHANGED planeVars /\ (DryDropped \/ DryKept)

LEMMA DryRunStep == TypeOK /\ NeverHalfDry /\ [Next]_vars /\ doc' # doc => DryStep
<1> SUFFICES ASSUME TypeOK, NeverHalfDry, [Next]_vars, doc' # doc, want.config.dryRun,
                    doc.agentName # None
             PROVE  UNCHANGED planeVars /\ (DryDropped \/ DryKept)
  BY DEF DryStep
<1>1. pc = "idle"
  BY DEF NeverHalfDry
<1>2. CASE DryRunApply
  <2>1. doc \in States /\ want \in Requests
    BY DEF TypeOK, OpTypeOK
  <2> DEFINE noted   == Noted(doc)
             settled == [noted EXCEPT !.inFlight = None]
  <2>2. /\ noted.agentName # None /\ SameDeployment(noted, doc)
        /\ SameDeployment(settled, doc)
        /\ noted.inFlight = doc.inFlight
    BY <2>1 DEF Noted, States, SameDeployment
  <2>3. versionNeeded(noted, want) <=> versionNeeded(doc, want)
    BY <2>1, NeedUnmoved
  <2>4. \/ doc' = noted /\ ~versionNeeded(noted, want)
        \/ doc' = settled /\ reply' = "error"
    BY <1>2, <2>2 DEF DryRunApply, Idle
  <2>5. UNCHANGED planeVars
    BY <1>2 DEF DryRunApply
  <2> QED BY <2>2, <2>3, <2>4, <2>5 DEF DryKept
<1>3. CASE Destroy
  BY <1>3 DEF Destroy, Idle, DryDropped
<1>4. CASE UNCHANGED vars \/ StartApply \/ Activate \/ Disturbance \/ ChangeMind
  BY <1>4 DEF vars, StartApply, Activate, Disturbance, ChangeMind
<1>5. CASE RejectApply
  BY <1>5 DEF RejectApply, Idle
<1>6. CASE Advance \/ Crash
  BY <1>1, <1>6 DEF Advance, Stage, BuildSpec, CreateAgent, Grant, CreateVersion, Await,
     GiveUp, SetEndpoint, Return, Crash
<1> QED BY <1>2, <1>3, <1>4, <1>5, <1>6 DEF Next

(* All that a dry run does to the document of a recorded deployment: an    *)
(* apply leaves what it says of the agent, the served version, the history *)
(* and the hashes, and ends in an error if a version is needed; a destroy  *)
(* drops it.  Whatever the request it is run for, and whatever happened    *)
(* before.                                                                 *)
THEOREM DryRunAlwaysKeepsRecord == Spec => DryRunKeepsRecord
<1>1. Init => NeverHalfDry
  BY DEF Init, NeverHalfDry
<1>2. EndpointInv => TypeOK
  BY DEF EndpointInv
<1>3. TypeOK /\ NeverHalfDry /\ [Next]_vars => NeverHalfDry' /\ [DryStep]_doc
  BY HalfDryStep, DryRunStep
<1> QED BY <1>1, <1>2, <1>3, EndpointInvariant, PTL
        DEF Spec, DryRunKeepsRecord, DryStep, DryDropped, DryKept

-----------------------------------------------------------------------------
(* A plan that announces nothing.                                          *)

\* What gives an operation's copy a version is past the agent's creation.
LEMMA NamelessStep ==
  ASSUME TypeOK, NamedInv, [Next]_vars, ~DryRunApply
  PROVE  Nameless(doc)' /\ Nameless(work)'
<1> DEFINE plain(state) == state.agentName = None => state.served = 0 /\ state.prior = <<>>
<1>1. plain(doc) /\ plain(work) /\ plain(newState)
  BY DEF NamedInv, Nameless, newState
<1>2. ASSUME NEW state, Alike(state, work) PROVE plain(state)
  BY <1>1, <1>2 DEF Alike
<1>3. ASSUME pc \in {"await", "setEndpoint"} PROVE plain(Flight) /\ plain(Served(work))
  <2>1. work \in States /\ work.agentName # None
    BY <1>3 DEF NamedInv, TypeOK, OpTypeOK
  <2>2. Flight.agentName = work.agentName /\ Served(work).agentName = work.agentName
    BY <2>1 DEF Flight, Served, recordVersion, States
  <2> QED BY <2>1, <2>2
<1> HIDE DEF plain
<1>4. plain(doc')
  BY <1>1, DocMoves
<1>5. plain(work')
  BY <1>1, <1>2, <1>3, WorkMoves
<1> QED BY <1>4, <1>5 DEF plain, Nameless

LEMMA NamedStep ==
  ASSUME TypeOK, NamedInv, [Next]_vars, ~DryRunApply
  PROVE  NamedInv'
<1> DEFINE past == {"grant", "createVersion", "await", "setEndpoint"}
<1> SUFFICES ASSUME pc' \in past PROVE work'.agentName # None
  BY NamelessStep DEF NamedInv
<1>1. /\ Noted(work).agentName = work.agentName
      /\ Settled(work).agentName = work.agentName
      /\ [work EXCEPT !.agentName = want.pack.name].agentName # None
      /\ pc \in past => work.agentName # None
  BY PlanTypes DEF NamedInv
<1>2. CASE UNCHANGED vars \/ Activate \/ Disturbance \/ ChangeMind
  BY <1>1, <1>2 DEF vars, opVars, Activate, Disturbance, ChangeMind
<1>3. CASE StartApply
  BY <1>3 DEF StartApply
<1>4. CASE RejectApply \/ Return \/ Crash \/ DryRunApply \/ Destroy
  BY <1>4 DEF RejectApply, Return, Crash, DryRunApply, Destroy, Idle
<1>5. CASE Stage \/ BuildSpec
  BY <1>1, <1>5 DEF Stage, BuildSpec, AfterAgent, Go, End, Idle
<1>6. CASE CreateAgent \/ Grant
  BY <1>1, <1>6 DEF CreateAgent, Grant, AfterAgent, Go, End
<1>7. CASE CreateVersion \/ Await \/ GiveUp \/ SetEndpoint
  BY <1>1, <1>7 DEF CreateVersion, Await, GiveUp, SetEndpoint, Go, End
<1> QED BY <1>2, <1>3, <1>4, <1>5, <1>6, <1>7 DEF Next, Advance

\* buildAgentSpec and CreateVersion address the same request's site.
LEMMA SpecSiteStep == EndpointInv /\ SpecSite /\ [Next]_vars => SpecSite'
<1> SUFFICES ASSUME EndpointInv, SpecSite, [Next]_vars, NEW v \in 1 .. issued'
             PROVE  versions'[v].site
                      = <<versions'[v].spec.config.project, versions'[v].spec.pack.name>>
  BY DEF SpecSite
<1>1. PlaneMove /\ TypeOK /\ AwaitedOwn
  BY PlaneMoves DEF EndpointInv
<1>2. /\ issued \in Nat /\ issued' \in Nat /\ MaxVersions \in Nat /\ v \in Versions
  BY TypeStep, BoundAssumption DEF EndpointInv, TypeOK, PlaneTypeOK, Versions
<1>3. CASE v \in 1 .. issued
  BY <1>1, <1>3, VersionsStable DEF SpecSite
<1>4. CASE v \notin 1 .. issued
  <2>1. PICK n \in {1, 2} : DoCreateVersions(Site, buildAgentSpec(want), n)
    BY <1>1, <1>2, <1>4 DEF PlaneMove, DoCreateAgent, DoGrant, DoDeleteAgent, DoSetEndpoint,
       Settle, Repoint
  <2>2. versions'[v].site = Site /\ versions'[v].spec = buildAgentSpec(want)
    BY <1>2, <1>4, <2>1 DEF DoCreateVersions
  <2> QED BY <2>2 DEF buildAgentSpec, Fingerprint, Site, SiteOf
<1> QED BY <1>3, <1>4

\* What a quiet plan is worth where it is shown.
QuietStep ==
  ~rehearsed' /\ promise' # None /\ promise'.told = "nothing" /\ promise'.version = "none"
    => Converged'

\* A rehearsal is not forgotten, and only a dry run's apply is one.
LEMMA RehearsedStep ==
  ASSUME [Next]_vars, ~rehearsed'
  PROVE  ~rehearsed /\ ~DryRunApply
<1>1. ~DryRunApply
  BY DEF DryRunApply
<1> SUFFICES ASSUME rehearsed PROVE FALSE
  BY <1>1
<1>2. ~Calm /\ \A kind : ~Disturb(kind)
  BY DEF Calm, Disturb, budgetVars
<1>3. ~(UNCHANGED vars \/ ChangeMind \/ Destroy)
  BY DEF vars, budgetVars, ChangeMind, Destroy
<1>4. ~(StartApply \/ RejectApply \/ Crash \/ Activate \/ Disturbance)
  BY <1>2 DEF StartApply, RejectApply, Crash, Activate, Disturbance
<1>5. ~(Stage \/ BuildSpec \/ CreateAgent \/ Grant \/ CreateVersion)
  BY <1>2 DEF Stage, BuildSpec, CreateAgent, Grant, CreateVersion
<1>6. ~(Await \/ GiveUp \/ SetEndpoint \/ Return)
  BY <1>2 DEF Await, GiveUp, SetEndpoint, Return
<1> QED BY <1>1, <1>3, <1>4, <1>5, <1>6 DEF Next, Advance

LEMMA QuietPlan ==
  ASSUME DeployInv, NamedInv, SpecSite, [Next]_vars, promise' # promise
  PROVE  QuietStep
<1> SUFFICES ASSUME promise' # None, promise'.told = "nothing", promise'.version = "none"
             PROVE  Converged'
  BY DEF QuietStep
<1>1. StartApply
  <2>1. ~(UNCHANGED vars \/ Activate \/ Disturbance \/ ChangeMind)
    BY DEF vars, opVars, Activate, Disturbance, ChangeMind
  <2>2. ~(RejectApply \/ Return \/ Crash \/ DryRunApply \/ Destroy)
    BY DEF RejectApply, Return, Crash, DryRunApply, Destroy, Idle
  <2>3. ~(Stage \/ BuildSpec \/ CreateAgent \/ Grant)
    BY DEF Stage, BuildSpec, CreateAgent, Grant, AfterAgent, Go, End, Idle
  <2>4. ~(CreateVersion \/ Await \/ GiveUp \/ SetEndpoint)
    BY DEF CreateVersion, Await, GiveUp, SetEndpoint, Go, End
  <2> QED BY <2>1, <2>2, <2>3, <2>4 DEF Next, Advance
<1>2. /\ \/ doc.agentName = None /\ promise' = buildPlan(doc, want, "nothing")
         \/ /\ doc.agentName # None
            /\ promise' = buildPlan(doc, want, Compared) /\ Compared = "nothing"
  BY <1>1, PlanDecides DEF StartApply, ShownPlans, Reports, Compared
<1>3. ~versionNeeded(doc, want)
  BY <1>2, PlanDecides
<1>4. /\ doc.served # 0 /\ doc.packHash = want.pack
      /\ doc.configHash = Fingerprint(want.config)
  BY <1>3 DEF versionNeeded
<1>5. doc.agentName # None
  BY <1>4 DEF NamedInv, Nameless
<1>6. agents[Recorded].served = doc.served
  BY <1>2, <1>5 DEF Compared
<1> DEFINE v == doc.served
<1>7. /\ v \in 1 .. issued
      /\ versions[v].spec.pack = want.pack
      /\ versions[v].spec.config = Fingerprint(want.config)
  BY <1>4, BoundAssumption
     DEF DeployInv, EndpointInv, TypeOK, PlaneTypeOK, OpTypeOK, States, Describes
<1>8. Recorded \in Sites
  BY <1>5, RequestTypes DEF DeployInv, EndpointInv, TypeOK, OpTypeOK, States, Sites, Projects,
     Recorded
<1>9. Recorded = Site
  <2>1. versions[v].site = Recorded
    BY <1>4, <1>6, <1>8 DEF DeployInv, EndpointInv, EndpointActive
  <2>2. versions[v].site = <<want.config.project, want.pack.name>>
    BY <1>7 DEF SpecSite, Fingerprint
  <2> QED BY <2>1, <2>2 DEF Site, SiteOf
<1>10. UNCHANGED <<agents, versions, want>>
  BY <1>1 DEF StartApply, planeVars
<1> QED BY <1>4, <1>6, <1>7, <1>9, <1>10 DEF Converged, Site, SiteOf, Fingerprint

\* What makes a plan true, until an apply is rehearsed.
UnrehearsedInv == ~rehearsed => DeployInv /\ NamedInv /\ SpecSite

(* A plan that says nothing will change, and warns of nothing, is shown    *)
(* only where the endpoint leads to a version made from the pack and the   *)
(* fingerprinted settings asked for, whatever failed before it and whoever *)
(* moved, deleted or removed what: until an apply is rehearsed in a dry    *)
(* run.  Of the settings that are not fingerprinted it says nothing.       *)
THEOREM QuietPlanAlwaysTrue == Spec => QuietPlanTrue
<1> DEFINE Inv == UnrehearsedInv
<1>1. Init => Inv
  <2> SUFFICES ASSUME Init PROVE Inv
    OBVIOUS
  <2>1. DeployInv
    BY EndpointInvInit DEF Init, DeployInv, Describes, newState
  <2> QED BY <2>1 DEF Init, PlaneInit, NamedInv, Nameless, newState, SpecSite, UnrehearsedInv
<1>2. Inv /\ [Next]_vars => Inv'
  <2> SUFFICES ASSUME Inv, [Next]_vars, ~rehearsed'
               PROVE  DeployInv' /\ NamedInv' /\ SpecSite'
    BY DEF UnrehearsedInv
  <2>1. ~DryRunApply /\ DeployInv /\ NamedInv /\ SpecSite
    BY RehearsedStep DEF UnrehearsedInv
  <2>2. DeployInv'
    BY <2>1, EndpointInvStep, DescribesStep DEF DeployInv
  <2>3. NamedInv'
    BY <2>1, NamedStep DEF DeployInv, EndpointInv
  <2>4. SpecSite'
    BY <2>1, SpecSiteStep DEF DeployInv
  <2> QED BY <2>2, <2>3, <2>4
<1>3. Inv /\ [Next]_vars => [QuietStep]_promise
  BY QuietPlan, RehearsedStep DEF UnrehearsedInv, QuietStep
<1> HIDE DEF Inv
<1> QED BY <1>1, <1>2, <1>3, PTL DEF Spec, QuietPlanTrue, QuietStep

-----------------------------------------------------------------------------
(* The record between operations.                                          *)

\* No agent appears, none moves, and what is known of them stays known.
Steady ==
  /\ \A s \in Sites : agents'[s].exists =>
       agents[s].exists /\ agents'[s].served = agents[s].served
  /\ Kept'.agentName = Kept.agentName
  /\ Kept'.served = Kept.served

LEMMA HonestSteady == HonestInv /\ Steady => HonestInv'
BY DEF HonestInv, Steady

\* With one project an agent is told by its name.
LEMMA OneByName ==
  ASSUME SameProject, TypeOK, NEW s \in Sites
  PROVE  s[1] = want.config.project /\ s[2] \in Names /\ s = <<want.config.project, s[2]>>
<1>1. s \in Projects \X Names /\ want.config \in Configs
  BY RequestTypes DEF Sites, TypeOK, OpTypeOK
<1>2. s[1] = want.config.project
  BY <1>1 DEF SameProject, Projects
<1> QED BY <1>1, <1>2

\* An operation that has created nothing yet has an up-to-date document.
LEMMA SteadyOrNot ==
  ASSUME RecordInv, [Next]_vars, \A c \in Configs : ~c.dryRun,
         {"lose", "crash", "repoint"} \cap Faults = {}
  PROVE  Steady \/ CreateAgent \/ SetEndpoint \/ Destroy
<1> USE DEF Steady
<1>1. /\ ~want.config.dryRun /\ work \in States /\ CopyInv
      /\ agents \in [Sites -> [exists : BOOLEAN, served : 0 .. MaxVersions, granted : BOOLEAN]]
      /\ Site \in Sites /\ TypeOK
  BY RecordTypes DEF Requests, RecordInv, TypeOK, PlaneTypeOK
<1>2. /\ Noted(work).served = work.served /\ Noted(work).agentName = work.agentName
      /\ Settled(work).served = work.served /\ Settled(work).agentName = work.agentName
      /\ Flight.served = work.served /\ Flight.agentName = work.agentName
  BY <1>1 DEF Noted, Settled, Flight, States
<1>3. CASE UNCHANGED vars
  BY <1>3 DEF vars, opVars, planeVars, Kept
<1>4. CASE Activate \/ Disturbance
  <2>1. Kept' = Kept
    BY <1>4 DEF Activate, Disturbance, opVars, Kept
  <2>2. CASE agents' = agents
    BY <2>1, <2>2
  <2>3. CASE \E s \in Sites : DoDeleteAgent(s)
    BY <1>1, <2>1, <2>3 DEF DoDeleteAgent, NoAgent
  <2> QED BY <1>4, <2>2, <2>3 DEF Activate, Disturbance, Disturb, Settle, DeleteOutOfBand,
         LoseBlob
<1>5. CASE ChangeMind
  BY <1>5 DEF ChangeMind, opVars, planeVars, Kept
<1>6. CASE StartApply \/ RejectApply
  BY <1>6 DEF StartApply, RejectApply, Idle, planeVars, Kept
<1>7. CASE Stage \/ BuildSpec
  <2>1. agents' = agents /\ work.agentName = doc.agentName /\ work.served = doc.served
    BY <1>1, <1>7 DEF Stage, BuildSpec, DoStage, planeVars, CopyInv
  <2>2. pc # "idle"
    BY <1>7 DEF Stage, BuildSpec
  <2> QED BY <1>2, <1>7, <2>1, <2>2 DEF Stage, BuildSpec, AfterAgent, Go, End, Idle, Kept
<1>8. CASE Grant
  BY <1>1, <1>8 DEF Grant, DoGrant, AfterAgent, Go, End, planeVars, Kept
<1>9. CASE CreateVersion
  BY <1>9 DEF CreateVersion, DoCreateVersions, End, planeVars, Kept
<1>10. CASE Await \/ GiveUp
  BY <1>2, <1>10 DEF Await, GiveUp, Go, End, planeVars, Flight, Kept
<1>11. CASE Return
  BY <1>11 DEF Return, Idle, planeVars, Kept
<1>12. CASE Crash \/ DryRunApply
  BY <1>1, <1>12 DEF Crash, Disturb, DryRunApply
<1> QED BY <1>3, <1>4, <1>5, <1>6, <1>7, <1>8, <1>9, <1>10, <1>11, <1>12 DEF Next, Advance

LEMMA HonestStep ==
  ASSUME RecordInv, HonestInv, [Next]_vars, \A c \in Configs : ~c.dryRun, SameProject,
         {"lose", "crash", "repoint"} \cap Faults = {}
  PROVE  HonestInv'
<1>1. /\ TypeOK /\ CopyInv /\ Sound(work) /\ work \in States /\ ~want.config.dryRun
      /\ agents \in [Sites -> [exists : BOOLEAN, served : 0 .. MaxVersions, granted : BOOLEAN]]
      /\ Site \in Sites /\ Site[2] = want.pack.name
  BY RecordTypes DEF RecordInv, TypeOK, PlaneTypeOK, Site, SiteOf, Requests
<1>2. ASSUME NEW s \in Sites, agents[s].exists
      PROVE  Kept.agentName = s[2] /\ Kept.served = agents[s].served
  BY <1>2 DEF HonestInv
<1>3. \A s, t \in Sites : s[2] = t[2] => s = t
  BY <1>1, OneByName
<1>4. Kept.agentName = None => \A s \in Sites : ~agents[s].exists
  BY <1>1, <1>2, OneByName, NoneAssumption
<1>5. CASE Steady
  BY <1>5, HonestSteady
<1>6. CASE CreateAgent
  <2>1. /\ Kept = work /\ work.agentName = None /\ work.served = 0
        /\ \A s \in Sites : ~agents[s].exists
    BY <1>1, <1>4, <1>6 DEF CreateAgent, CopyInv, Sound, Nameless, Kept
  <2>2. CASE agents' = agents
    BY <2>1, <2>2 DEF HonestInv
  <2>3. CASE DoCreateAgent(Site)
    <3>1. /\ Kept'.agentName = want.pack.name
          /\ Kept'.served = 0
      BY <1>1, <1>6, <2>1, <2>3, PlanTypes
         DEF CreateAgent, CanCreateAgent, DoCreateAgent, AfterAgent, Go, End, Disturb, planeVars, Kept, States
    <3>2. \A s \in Sites : agents'[s].exists => s = Site /\ agents'[s].served = 0
      BY <1>1, <2>1, <2>3 DEF DoCreateAgent
    <3> QED BY <1>1, <3>1, <3>2 DEF HonestInv
  <2> QED BY <1>6, <2>2, <2>3 DEF CreateAgent, planeVars
<1>7. CASE SetEndpoint
  <2>1. Kept = work /\ pc' = "return" /\ Kept' = work'
    BY <1>7 DEF SetEndpoint, End, Kept
  <2>2. CASE agents' = agents /\ work' = work
    BY <1>2, <2>1, <2>2 DEF HonestInv
  <2>3. CASE /\ agents[Site].exists /\ DoSetEndpoint(Site, awaited) /\ work' = Served(work)
    <3>1. /\ Served(work).agentName = work.agentName
          /\ Served(work).served = awaited
      BY <1>1 DEF Served, recordVersion, States
    <3>2. work.agentName = Site[2]
      BY <1>1, <1>2, <2>1, <2>3
    <3>3. ASSUME NEW s \in Sites, agents'[s].exists
          PROVE  s = Site /\ agents'[s].served = awaited
      <4>1. agents[s].exists
        BY <1>1, <2>3, <3>3 DEF DoSetEndpoint
      <4>2. s = Site
        BY <1>1, <1>2, <1>3, <2>3, <4>1
      <4> QED BY <1>1, <2>3, <4>2 DEF DoSetEndpoint
    <3> QED BY <2>1, <2>3, <3>1, <3>2, <3>3 DEF HonestInv
  <2>4. \/ agents' = agents /\ work' = work
        \/ agents[Site].exists /\ DoSetEndpoint(Site, awaited) /\ work' = Served(work)
    BY <1>7 DEF SetEndpoint, Serving, End, Disturb, planeVars
  <2> QED BY <2>2, <2>3, <2>4
<1>8. CASE Destroy
  <2>1. pc = "idle" /\ Kept = doc /\ pc' = "idle" /\ Kept' = doc'
    BY <1>8 DEF Destroy, Idle, Kept
  <2>2. CASE agents' = agents /\ doc' = doc
    BY <1>2, <2>1, <2>2 DEF HonestInv
  <2>3. CASE \A s \in Sites : ~agents'[s].exists
    BY <2>3 DEF HonestInv
  <2> DEFINE here == <<want.config.project, doc.agentName>>
  <2>4. \A s \in Sites : agents[s].exists => s = here
    BY <1>1, <1>2, <2>1, OneByName
  <2>5. CASE doc.agentName = None /\ UNCHANGED planeVars
    BY <1>4, <2>1, <2>3, <2>5 DEF planeVars
  <2>6. CASE DoDeleteAgent(here)
    BY <1>1, <2>3, <2>4, <2>6 DEF DoDeleteAgent, NoAgent
  <2>7. CASE ~agents[here].exists /\ UNCHANGED planeVars
    BY <2>3, <2>4, <2>7 DEF planeVars
  <2> QED BY <1>1, <1>8, <2>2, <2>5, <2>6, <2>7 DEF Destroy, Idle, planeVars
<1> QED BY <1>5, <1>6, <1>7, <1>8, SteadyOrNot

\* What is known of every agent makes the record and the status true.
LEMMA HonestRecord ==
  ASSUME RecordInv, HonestInv, SameProject
  PROVE  RecordHonest
<1>1. TypeOK /\ EndpointActive /\ Describes(doc)
  BY RecordTypes DEF DeployInv, EndpointInv
<1>2. NoOrphan
  BY DEF NoOrphan, HonestInv, Kept
<1>3. RecordAgreesWithEndpoint
  BY DEF RecordAgreesWithEndpoint, HonestInv, Kept
<1> DEFINE here == <<want.config.project, doc.agentName>>
<1>4. ASSUME pc = "idle", NEW s \in Sites, agents[s].exists
      PROVE  s = here /\ doc.agentName # None /\ doc.served = agents[s].served
  <2>1. doc.agentName = s[2] /\ doc.served = agents[s].served
    BY <1>4 DEF HonestInv, Kept
  <2> QED BY <1>1, <2>1, OneByName, NoneAssumption
<1>5. ASSUME pc = "idle", deploymentStatus = "not_deployed", NEW s \in Sites, agents[s].exists
      PROVE  FALSE
  BY <1>4, <1>5 DEF deploymentStatus
<1>6. ASSUME pc = "idle", deploymentStatus = "deployed"
      PROVE  /\ versions[agents[here].served].status = "active"
             /\ versions[agents[here].served].spec.pack = doc.packHash
             /\ versions[agents[here].served].spec.config = doc.configHash
  <2>1. doc.agentName # None /\ agents[here].exists /\ agents[here].served # 0
    BY <1>6 DEF deploymentStatus
  <2>2. here \in Sites
    BY <1>1, <2>1, RequestTypes DEF TypeOK, OpTypeOK, States, Sites, Projects
  <2>3. doc.served = agents[here].served
    BY <1>4, <1>6, <2>1, <2>2
  <2> QED BY <1>1, <2>1, <2>2, <2>3 DEF EndpointActive, Describes
<1> QED BY <1>2, <1>3, <1>5, <1>6 DEF RecordHonest, StatusHonest

(* What the adapter remembers and what there is are one thing between      *)
(* operations, however many of them failed half way: no agent is left      *)
(* unrecorded, the document and the endpoint agree on what is served, and  *)
(* status tells the truth.  Within one project, without dry runs, when     *)
(* calls are answered, the process survives and nobody else moves an       *)
(* endpoint; agents may be deleted, versions fail or never be ready.       *)
THEOREM RecordAlwaysHonest ==
  ASSUME SameProject, \A c \in Configs : ~c.dryRun,
         {"lose", "crash", "repoint"} \cap Faults = {}
  PROVE  Spec => []RecordHonest
<1>1. Init => HonestInv
  BY DEF Init, PlaneInit, NoAgent, HonestInv
<1>2. RecordInv /\ HonestInv /\ [Next]_vars => HonestInv'
  BY HonestStep
<1>3. RecordInv /\ HonestInv => RecordHonest
  BY HonestRecord
<1>4. Spec => []RecordInv
  BY RecordInvariant
<1> QED BY <1>1, <1>2, <1>3, <1>4, PTL DEF Spec
=============================================================================
