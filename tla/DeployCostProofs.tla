-------------------------- MODULE DeployCostProofs --------------------------
(***************************************************************************)
(* Proofs about what a deployment uses: the packs it staged and the        *)
(* versions it is billed for, for every set of packs and configurations    *)
(* without a dry run and every bound.                                      *)
(***************************************************************************)
EXTENDS FoundryDeployProofs

-----------------------------------------------------------------------------
(* The staged packs.                                                       *)

\* Staging only adds, and nobody else removes.
LEMMA BlobsGrow ==
  ASSUME TypeOK, [Next]_vars, "unblob" \notin Faults
  PROVE  blobs \subseteq blobs'
<1>1. CASE UNCHANGED vars \/ StartApply \/ RejectApply \/ BuildSpec \/ Await \/ GiveUp \/ Return
           \/ Crash \/ DryRunApply \/ ChangeMind
  BY <1>1 DEF vars, planeVars, StartApply, RejectApply, BuildSpec, Await, GiveUp, Return, Crash,
     DryRunApply, ChangeMind
<1>2. CASE Stage
  BY <1>2 DEF Stage, DoStage, planeVars
<1>3. CASE CreateAgent \/ Grant
  BY <1>3 DEF CreateAgent, Grant, DoCreateAgent, DoGrant, planeVars
<1>4. CASE CreateVersion \/ SetEndpoint
  BY <1>4 DEF CreateVersion, SetEndpoint, DoCreateVersions, DoSetEndpoint, planeVars
<1>5. CASE Destroy
  BY <1>5 DEF Destroy, DoDeleteAgent, planeVars
<1>6. CASE Activate \/ Disturbance
  BY <1>6 DEF Activate, Disturbance, Disturb, Settle, DeleteOutOfBand, DoDeleteAgent, Repoint,
     DoSetEndpoint
<1> QED BY <1>1, <1>2, <1>3, <1>4, <1>5, <1>6 DEF Next, Advance

HeldNext(uri) == uri # None => uri \in blobs'

\* Where the documents say the pack is.
LEMMA NotesHeld ==
  ASSUME TypeOK, PackInv, [Next]_vars, "unblob" \notin Faults, \A c \in Configs : ~c.dryRun
  PROVE  HeldNext(doc'.stagedPackURI) /\ HeldNext(work'.stagedPackURI)
<1>1. /\ HeldNext(doc.stagedPackURI) /\ HeldNext(work.stagedPackURI)
      /\ HeldNext(newState.stagedPackURI)
  BY BlobsGrow DEF PackInv, Held, HeldNext, newState
<1>2. work \in States /\ doc \in States /\ ~want.config.dryRun
  BY DEF TypeOK, OpTypeOK, Requests
<1> DEFINE named  == [work EXCEPT !.agentName = want.pack.name]
           flight == [work EXCEPT !.inFlight =
                        [version |-> awaited, packHash |-> want.pack,
                         configHash |-> Fingerprint(want.config)]]
<1>3. /\ Noted(work).stagedPackURI = stagedPackURI(want)
      /\ Settled(work).stagedPackURI = work.stagedPackURI
      /\ named.stagedPackURI = work.stagedPackURI
      /\ flight.stagedPackURI = work.stagedPackURI
      /\ Served(work).stagedPackURI = work.stagedPackURI
  BY <1>2 DEF Noted, Settled, Served, recordVersion, States
<1> HIDE DEF named, flight
<1>4. CASE UNCHANGED vars \/ StartApply \/ ChangeMind \/ Activate \/ Disturbance
  BY <1>1, <1>4 DEF vars, opVars, StartApply, ChangeMind, Activate, Disturbance
<1>5. CASE RejectApply \/ Return \/ Crash \/ Destroy
  BY <1>1, <1>5 DEF RejectApply, Return, Crash, Destroy, Idle
<1>6. CASE Stage
  BY <1>1, <1>6 DEF Stage, Go, Idle
<1>7. CASE BuildSpec
  <2>1. HeldNext(stagedPackURI(want))
    BY <1>7, BlobsGrow DEF PackInv, Held, HeldNext, BuildSpec
  <2> QED BY <1>1, <1>3, <1>7, <2>1 DEF BuildSpec, AfterAgent, Go, End, Idle
<1>8. CASE CreateAgent \/ Grant
  BY <1>1, <1>3, <1>8 DEF CreateAgent, Grant, AfterAgent, Go, End, named
<1>9. CASE CreateVersion \/ GiveUp
  BY <1>1, <1>9 DEF CreateVersion, GiveUp, End
<1>10. CASE Await
  BY <1>1, <1>3, <1>10 DEF Await, Go, End, flight
<1>11. CASE SetEndpoint
  BY <1>1, <1>3, <1>11 DEF SetEndpoint, Serving, End
<1>12. CASE DryRunApply
  BY <1>2, <1>12 DEF DryRunApply
<1> QED BY <1>4, <1>5, <1>6, <1>7, <1>8, <1>9, <1>10, <1>11, <1>12 DEF Next, Advance

\* An operation is past staging only once the pack is where its request says.
LEMMA StagedStep ==
  ASSUME TypeOK, PackInv, [Next]_vars, "unblob" \notin Faults,
         pc' \notin {"idle", "stage", "return"}
  PROVE  HeldNext(stagedPackURI(want)) /\ want' = want
<1>1. CASE pc \notin {"idle", "stage", "return"}
  <2>1. HeldNext(stagedPackURI(want))
    BY <1>1, BlobsGrow DEF PackInv, Held, HeldNext
  <2>2. want' = want
    BY <1>1 DEF Next, Advance, vars, opVars, StartApply, RejectApply, Stage, BuildSpec,
       CreateAgent, Grant, AfterAgent, CreateVersion, Await, GiveUp, SetEndpoint, Return,
       Crash, DryRunApply, Destroy, ChangeMind, Activate, Disturbance, Go, End, Idle
  <2> QED BY <2>1, <2>2
<1>2. CASE pc = "stage"
  <2>1. DoStage(stagedPackURI(want)) /\ want' = want
    BY <1>2 DEF Next, Advance, vars, opVars, StartApply, RejectApply, Stage, BuildSpec,
       CreateAgent, Grant, CreateVersion, Await, GiveUp, SetEndpoint, Return,
       Crash, DryRunApply, Destroy, ChangeMind, Activate, Disturbance, Go, Idle
  <2> QED BY <2>1 DEF DoStage, HeldNext
<1>3. CASE pc \in {"idle", "return"}
  <2>1. StartApply /\ pc' = "spec"
    BY <1>3 DEF Next, Advance, vars, opVars, StartApply, RejectApply, Stage, BuildSpec,
       CreateAgent, Grant, CreateVersion, Await, GiveUp, SetEndpoint, Return,
       Crash, DryRunApply, Destroy, ChangeMind, Activate, Disturbance, Idle
  <2>2. stagedPackURI(want) = None \/ doc.stagedPackURI = stagedPackURI(want)
    BY <2>1 DEF StartApply, AlreadyStaged, stagedPackURI
  <2> QED BY <2>1, <2>2, BlobsGrow DEF StartApply, PackInv, Held, HeldNext
<1> QED BY <1>1, <1>2, <1>3

\* A version reads its pack from where the operation that made it staged it.
LEMMA VersionsHeld ==
  ASSUME EndpointInv, TypeOK', PackInv, [Next]_vars, "unblob" \notin Faults,
         NEW v \in 1 .. issued'
  PROVE  HeldNext(versions'[v].spec.uri)
<1>1. PlaneMove
  BY PlaneMoves DEF EndpointInv
<1>2. issued \in Nat /\ issued' \in Nat /\ MaxVersions \in Nat /\ issued' <= MaxVersions
  BY BoundAssumption DEF EndpointInv, TypeOK, PlaneTypeOK
<1>3. CASE v <= issued
  <2>1. versions'[v].spec = versions[v].spec
    BY <1>1, <1>2, <1>3, VersionsStable DEF EndpointInv
  <2> QED BY <1>2, <1>3, <2>1, BlobsGrow DEF PackInv, Held, HeldNext, EndpointInv
<1>4. CASE v > issued
  <2>1. pc = "createVersion" /\ \E n \in {1, 2} : DoCreateVersions(Site, buildAgentSpec(want), n)
    BY <1>1, <1>2, <1>4 DEF PlaneMove, DoCreateAgent, DoGrant, DoDeleteAgent, DoSetEndpoint,
       Settle, Repoint
  <2>2. versions'[v].spec = buildAgentSpec(want)
    BY <1>2, <1>4, <2>1 DEF DoCreateVersions, Versions
  <2>3. Held(stagedPackURI(want))
    BY <2>1 DEF PackInv
  <2> QED BY <2>2, <2>3, BlobsGrow DEF buildAgentSpec, Held, HeldNext, EndpointInv
<1> QED BY <1>2, <1>3, <1>4

(* A version that reads its pack from a container finds it there, after    *)
(* every failure and interruption: when nobody removes a staged pack and no*)
(* configuration is a dry run.                                             *)
THEOREM StagedPackAlwaysPresent ==
  ASSUME "unblob" \notin Faults, \A c \in Configs : ~c.dryRun
  PROVE  Spec => []StagedPackPresent
<1>1. Init => EndpointInv /\ PackInv
  <2> SUFFICES ASSUME Init PROVE PackInv
    BY EndpointInvInit
  <2> QED BY DEF Init, PlaneInit, PackInv, Held, newState
<1>2. EndpointInv /\ PackInv /\ [Next]_vars => (EndpointInv /\ PackInv)'
  <2> SUFFICES ASSUME EndpointInv, PackInv, [Next]_vars PROVE PackInv'
    BY EndpointInvStep
  <2>1. TypeOK /\ TypeOK'
    BY EndpointInvStep DEF EndpointInv
  <2> QED BY <2>1, NotesHeld, StagedStep, VersionsHeld DEF PackInv, Held, HeldNext
<1>3. PackInv => StagedPackPresent
  BY DEF PackInv, Held, StagedPackPresent
<1> QED BY <1>1, <1>2, <1>3, PTL DEF Spec

-----------------------------------------------------------------------------
(* The versions that are billed.                                           *)

LEMMA ExcuseTypes ==
  ASSUME TypeOK
  PROVE  /\ issued \in Nat /\ Excuses \in Nat
         /\ faults \in Nat /\ changes \in Nat /\ destroys \in Nat
<1>1. /\ issued \in Nat /\ faults \in Nat /\ changes \in Nat /\ destroys \in Nat
  BY BoundAssumption, FaultAssumption DEF TypeOK, PlaneTypeOK, BudgetTypeOK
<1> QED BY <1>1 DEF Excuses

\* A disturbance excuses one more version.
LEMMA ExcuseMoves ==
  ASSUME TypeOK
  PROVE  /\ Calm => Excuses' = Excuses
         /\ \A kind : Disturb(kind) => Excuses' = Excuses + 1
BY ExcuseTypes DEF Calm, Disturb, Excuses, budgetVars

\* The copy needs a version after a step if it did before.
LEMMA NeedKept ==
  ASSUME want \in Requests, NEW state \in States
  PROVE  /\ versionNeeded(Noted(state), want) <=> versionNeeded(state, want)
         /\ versionNeeded([state EXCEPT !.agentName = want.pack.name], want)
              <=> versionNeeded(state, want)
BY DEF versionNeeded, Noted, States

BillNext ==
  /\ issued' <= Excuses'
  /\ Owed' => issued' < Excuses'
  /\ pc' = "setEndpoint" => work'.inFlight = None

\* An operation that was disturbed has an excuse for what it will cost.
LEMMA BillDisturbed ==
  ASSUME TypeOK, BillInv, NEW kind, Disturb(kind), pc' # "setEndpoint",
         \/ issued' = issued
         \/ issued' = issued + 1 /\ Owed
         \/ issued' = issued + 2 /\ Owed /\ ~Owed'
  PROVE  BillNext
<1>1. Excuses' = Excuses + 1 /\ issued \in Nat /\ Excuses \in Nat
  BY ExcuseTypes, ExcuseMoves
<1> QED BY <1>1 DEF BillInv, BillNext

\* A step that costs nothing and needs nothing new.
LEMMA BillCalm ==
  ASSUME TypeOK, BillInv, Calm, issued' = issued, Owed' => Owed,
         pc' = "setEndpoint" => work'.inFlight = None
  PROVE  BillNext
BY ExcuseTypes, ExcuseMoves DEF BillInv, BillNext

LEMMA BillOperation ==
  ASSUME EndpointInv, BillInv, "slow" \notin Faults, Advance
  PROVE  BillNext
<1>1. /\ TypeOK /\ work \in States /\ doc \in States /\ want \in Requests /\ Site \in Sites
      /\ issued \in Nat
  BY RequestTypes, ExcuseTypes DEF EndpointInv, TypeOK, OpTypeOK, Site
<1> DEFINE named == [work EXCEPT !.agentName = want.pack.name]
<1>2. /\ versionNeeded(Noted(work), want) <=> versionNeeded(work, want)
      /\ versionNeeded(named, want) <=> versionNeeded(work, want)
  BY <1>1, NeedKept
<1> HIDE DEF named
\* The step that ends in the version test, and the one that ends the operation.
<1>3. ASSUME NEW state, NEW made, AfterAgent(state, made), issued' = issued,
             pc \in {"spec", "createAgent", "grant"},
             versionNeeded(state, want) <=> versionNeeded(work, want)
      PROVE  (Owed' => Owed) /\ pc' # "setEndpoint"
  BY <1>3 DEF AfterAgent, Go, End, Owed
<1>4. ASSUME NEW outcome, End(outcome, work, {}), issued' = issued,
             pc \in {"createAgent"} \/ Owed
      PROVE  (Owed' => Owed) /\ pc' # "setEndpoint"
  BY <1>4 DEF End, Owed
<1>5. CASE Stage
  <2>1. issued' = issued /\ pc = "stage"
    BY <1>5 DEF Stage, DoStage, planeVars
  <2>2. CASE Go("spec", work, {"StageObject"}) /\ Calm
    <3>1. Owed' => Owed
      BY <2>1, <2>2 DEF Go, Owed
    <3> QED BY <1>1, <2>1, <2>2, <3>1, BillCalm DEF Go
  <2>3. CASE Idle("error", doc) /\ (Disturb("lose") \/ Disturb("refuse"))
    BY <1>1, <2>1, <2>3, BillDisturbed DEF Idle
  <2> QED BY <1>5, <2>2, <2>3 DEF Stage
<1>6. CASE BuildSpec
  <2>1. CASE Idle("error", doc) /\ Disturb("environment")
    BY <1>1, <1>6, <2>1, BillDisturbed DEF BuildSpec, Idle, planeVars
  <2>2. CASE Go("createAgent", Noted(work), {}) /\ Calm
    <3>1. Owed' => Owed
      BY <1>2, <1>6, <2>2 DEF BuildSpec, Go, Owed
    <3> QED BY <1>1, <1>6, <2>2, <3>1, BillCalm DEF BuildSpec, Go, planeVars
  <2>3. CASE AfterAgent(Noted(work), {}) /\ Calm
    <3>1. issued' = issued /\ pc = "spec"
      BY <1>6 DEF BuildSpec, planeVars
    <3> QED BY <1>1, <1>2, <1>3, <2>3, <3>1, BillCalm
  <2> QED BY <1>6, <2>1, <2>2, <2>3 DEF BuildSpec
<1>7. CASE CreateAgent
  <2>1. issued' = issued /\ pc = "createAgent"
    BY <1>7 DEF CreateAgent, DoCreateAgent, planeVars
  <2>2. CASE Go("grant", named, {"CreateAgent"}) /\ Calm
    <3>1. Owed' => Owed
      BY <1>2, <2>1, <2>2 DEF Go, Owed
    <3> QED BY <1>1, <2>1, <2>2, <3>1, BillCalm DEF Go
  <2>3. CASE AfterAgent(named, {"CreateAgent"}) /\ Calm
    BY <1>1, <1>2, <1>3, <2>1, <2>3, BillCalm
  <2>4. CASE End("error", work, {}) /\ Calm
    BY <1>1, <1>4, <2>1, <2>4, BillCalm
  <2>5. CASE End("error", work, {}) /\ (Disturb("lose") \/ Disturb("refuse"))
    BY <1>1, <2>1, <2>5, BillDisturbed DEF End
  <2> QED BY <1>7, <2>2, <2>3, <2>4, <2>5 DEF CreateAgent, named
<1>8. CASE Grant
  <2>1. issued' = issued /\ pc = "grant" /\ AfterAgent(work, {}) /\ (Calm \/ Disturb("refuse"))
    BY <1>8 DEF Grant, DoGrant, planeVars
  <2>2. (Owed' => Owed) /\ pc' # "setEndpoint"
    BY <1>3, <2>1
  <2> QED BY <1>1, <2>1, <2>2, BillCalm, BillDisturbed
<1>9. CASE CreateVersion
  <2>1. Owed /\ pc = "createVersion"
    BY <1>9 DEF CreateVersion, Owed
  <2>2. CASE /\ pc' = "await" /\ agents[Site].exists /\ UNCHANGED want
             /\ \/ DoCreateVersions(Site, buildAgentSpec(want), 1) /\ awaited' = issued + 1 /\ Calm
                \/ /\ DoCreateVersions(Site, buildAgentSpec(want), 2) /\ awaited' = issued + 2
                   /\ Disturb("repeat")
    <3>1. ASSUME NEW n \in {1, 2}, DoCreateVersions(Site, buildAgentSpec(want), n),
                 awaited' = issued + n
          PROVE  issued' = issued + n /\ ~Owed'
      <4>1. /\ awaited' \in Versions /\ issued' = issued + n /\ agents' = agents
            /\ awaited' \in issued + 1 .. issued + n
        BY <1>1, <3>1, BoundAssumption DEF DoCreateVersions, Versions
      <4>2. versions'[awaited'].status = "creating"
        BY <3>1, <4>1 DEF DoCreateVersions
      <4> QED BY <2>2, <4>1, <4>2 DEF Owed, Site
    <3>2. CASE DoCreateVersions(Site, buildAgentSpec(want), 1) /\ awaited' = issued + 1 /\ Calm
      <4>1. issued' = issued + 1 /\ ~Owed'
        BY <3>1, <3>2
      <4> QED BY <1>1, <2>1, <2>2, <3>2, <4>1, ExcuseTypes, ExcuseMoves DEF BillInv, BillNext
    <3>3. CASE /\ DoCreateVersions(Site, buildAgentSpec(want), 2) /\ awaited' = issued + 2
               /\ Disturb("repeat")
      <4>1. issued' = issued + 2 /\ ~Owed'
        BY <3>1, <3>3
      <4> QED BY <1>1, <2>1, <2>2, <3>3, <4>1, BillDisturbed
    <3> QED BY <2>2, <3>2, <3>3
  <2>3. CASE DoCreateVersions(Site, buildAgentSpec(want), 1) /\ End("error", work, {})
             /\ Disturb("lose")
    BY <1>1, <2>1, <2>3, BillDisturbed DEF DoCreateVersions, End
  <2>4. CASE UNCHANGED planeVars /\ End("error", work, {}) /\ Calm
    BY <1>1, <1>4, <2>1, <2>4, BillCalm DEF planeVars
  <2>5. CASE UNCHANGED planeVars /\ End("error", work, {}) /\ Disturb("refuse")
    BY <1>1, <2>5, BillDisturbed DEF planeVars, End
  <2> QED BY <1>9, <2>2, <2>3, <2>4, <2>5 DEF CreateVersion
<1>10. CASE Await
  <2>1. UNCHANGED planeVars /\ Calm /\ pc = "await"
    BY <1>10 DEF Await
  <2>2. CASE Servable(awaited) /\ Go("setEndpoint", Settled(work), {})
    <3>1. work'.inFlight = None
      BY <1>1, <2>2 DEF Go, Settled, States
    <3>2. Owed' => Owed
      BY <2>1, <2>2 DEF Go, Servable, Owed, Site, planeVars
    <3> QED BY <1>1, <2>1, <3>1, <3>2, BillCalm DEF planeVars
  <2>3. CASE versions[awaited].status \in {"failed", "deleted"} /\ pc' = "return"
    <3>1. Owed
      BY <2>1, <2>3 DEF Owed
    <3> QED BY <1>1, <2>1, <2>3, <3>1, BillCalm DEF planeVars
  <2> QED BY <1>10, <2>2, <2>3 DEF Await, End
<1>11. CASE GiveUp
  BY <1>1, <1>11, BillDisturbed DEF GiveUp, End, planeVars
<1>12. CASE SetEndpoint
  <2>1. issued' = issued /\ pc = "setEndpoint"
    BY <1>12 DEF SetEndpoint, DoSetEndpoint, planeVars
  <2>2. CASE End("ok", Served(work), {"SetEndpoint"}) /\ Calm
    <3>1. awaited # 0
      BY <2>1 DEF EndpointInv, AwaitedOwn, TypeOK, PlaneTypeOK
    <3>2. /\ Served(work).inFlight = None /\ Served(work).served = awaited
          /\ Served(work).packHash = want.pack
          /\ Served(work).configHash = Fingerprint(want.config)
      BY <1>1, <2>1 DEF Served, recordVersion, States, BillInv
    <3>3. ~Owed' /\ pc' = "return"
      BY <2>2, <3>1, <3>2 DEF End, Owed, versionNeeded
    <3> QED BY <1>1, <2>1, <2>2, <3>3, BillCalm
  <2>3. CASE ~agents[Site].exists /\ End("error", work, {}) /\ Calm
    <3>1. Owed
      BY <2>1, <2>3 DEF Owed
    <3> QED BY <1>1, <1>4, <2>1, <2>3, <3>1, BillCalm
  <2>4. CASE End("error", work, {}) /\ (Disturb("lose") \/ Disturb("refuse"))
    BY <1>1, <2>1, <2>4, BillDisturbed DEF End
  <2> QED BY <1>12, <2>2, <2>3, <2>4 DEF SetEndpoint
<1>13. CASE Return
  <2>1. Owed' => Owed
    BY <1>13 DEF Return, Idle, Owed
  <2> QED BY <1>1, <1>13, <2>1, BillCalm DEF Return, Idle, planeVars
<1> QED BY <1>5, <1>6, <1>7, <1>8, <1>9, <1>10, <1>11, <1>12, <1>13 DEF Advance

LEMMA BillStep ==
  ASSUME EndpointInv, BillInv, [Next]_vars, "slow" \notin Faults, \A c \in Configs : ~c.dryRun
  PROVE  BillInv'
<1> SUFFICES BillNext
  BY DEF BillInv, BillNext
<1>1. TypeOK /\ issued \in Nat /\ Excuses \in Nat /\ ~want.config.dryRun
  BY ExcuseTypes DEF EndpointInv, TypeOK, OpTypeOK, Requests
<1>2. CASE UNCHANGED vars
  BY <1>2 DEF vars, planeVars, opVars, budgetVars, BillInv, BillNext, Owed, Excuses, Site
<1>3. CASE StartApply \/ RejectApply
  <2>1. Owed' => Owed
    BY <1>3 DEF StartApply, RejectApply, Idle, Owed
  <2> QED BY <1>1, <1>3, <2>1, BillCalm DEF StartApply, RejectApply, Idle, planeVars
<1>4. CASE Crash
  BY <1>1, <1>4, BillDisturbed DEF Crash, Idle, planeVars
<1>5. CASE DryRunApply
  BY <1>1, <1>5 DEF DryRunApply
<1>6. CASE Destroy
  <2>1. issued' = issued /\ pc' = "idle"
    BY <1>6 DEF Destroy, DoDeleteAgent, Idle, planeVars
  <2>2. Excuses' > Excuses /\ Excuses' \in Nat
    BY <1>1, <1>6, ExcuseTypes DEF Destroy, Excuses
  <2> QED BY <1>1, <2>1, <2>2 DEF BillInv, BillNext
<1>7. CASE ChangeMind
  <2>1. issued' = issued /\ pc' = "idle"
    BY <1>7 DEF ChangeMind, opVars, planeVars
  <2>2. Excuses' = Excuses + 1
    BY <1>1, <1>7, ExcuseTypes DEF ChangeMind, Excuses
  <2> QED BY <1>1, <2>1, <2>2 DEF BillInv, BillNext
<1>8. CASE Activate
  <2>1. PICK v \in 1 .. issued : Settle(v, "active")
    BY <1>8 DEF Activate
  <2>2. versions'[awaited].status \in {"failed", "deleted"}
          => versions[awaited].status \in {"failed", "deleted"} \/ awaited \notin Versions
    BY <2>1 DEF Settle, TypeOK, PlaneTypeOK, EndpointInv
  <2>3. pc \in {"await", "setEndpoint"} => awaited \in Versions
    BY <1>1, BoundAssumption DEF EndpointInv, AwaitedOwn, TypeOK, PlaneTypeOK, Versions
  <2>4. Owed' => Owed
    BY <1>8, <2>1, <2>2, <2>3 DEF Activate, opVars, Settle, Owed, Site
  <2> QED BY <1>1, <1>8, <2>1, <2>4, BillCalm DEF Activate, opVars, Settle, BillInv
<1>9. CASE Disturbance
  <2>1. issued' = issued /\ UNCHANGED <<pc, work>> /\ Excuses' = Excuses + 1
    BY <1>1, <1>9, ExcuseMoves DEF Disturbance, opVars, Settle, DeleteOutOfBand, DoDeleteAgent,
       Repoint, DoSetEndpoint, LoseBlob
  <2> QED BY <1>1, <2>1 DEF BillInv, BillNext
<1> QED BY <1>2, <1>3, <1>4, <1>5, <1>6, <1>7, <1>8, <1>9, BillOperation DEF Next

(* A version is created only because the request moved, the document was   *)
(* dropped or something went wrong, once for each, across any sequence of  *)
(* operations: when no configuration is a dry run and an operation only    *)
(* stops waiting for a version when that counts as going wrong.            *)
THEOREM BillingAlwaysBounded ==
  ASSUME "slow" \notin Faults, \A c \in Configs : ~c.dryRun
  PROVE  Spec => []BillingBound
<1>1. Init => EndpointInv /\ BillInv
  <2> SUFFICES ASSUME Init PROVE BillInv
    BY EndpointInvInit
  <2> QED BY DEF Init, PlaneInit, BillInv, Excuses
<1>2. EndpointInv /\ BillInv /\ [Next]_vars => (EndpointInv /\ BillInv)'
  BY EndpointInvStep, BillStep
<1>3. BillInv => BillingBound
  BY DEF BillInv, Excuses, BillingBound
<1> QED BY <1>1, <1>2, <1>3, PTL DEF Spec
=============================================================================
