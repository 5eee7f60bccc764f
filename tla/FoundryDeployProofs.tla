------------------------ MODULE FoundryDeployProofs ------------------------
(***************************************************************************)
(* Proofs about FoundryDeploy for every set of packs and configurations,   *)
(* every bound, and every kind and number of disturbances.                 *)
(***************************************************************************)
EXTENDS DeployProperties, SequenceTheorems, TLAPS

-----------------------------------------------------------------------------
(* What the pure operators return.                                         *)

\* A request names a site and makes a fingerprint, a spec and a pack URI.
LEMMA RequestTypes ==
  ASSUME NEW r \in Requests
  PROVE  /\ r.pack \in Packs /\ r.config \in Configs
         /\ SiteOf(r) \in Sites
         /\ r.pack.name \in Names
         /\ Fingerprint(r.config) \in Fingerprints
         /\ stagedPackURI(r) \in URIs \union {None}
         /\ ~Inline(r) => stagedPackURI(r) \in URIs
         /\ Inline(r) \in BOOLEAN
         /\ buildAgentSpec(r) \in Specs
<1>1. r.pack \in Packs /\ r.config \in Configs
  BY DEF Requests
<1>2. r.pack.name \in Names /\ r.config.project \in Projects
  BY <1>1 DEF Names, Projects
<1>3. SiteOf(r) \in Sites
  BY <1>2 DEF SiteOf, Sites
<1>4. Fingerprint(r.config) \in Fingerprints
  BY <1>1 DEF Fingerprints
<1>5. <<r.config.container, r.pack>> \in URIs
  BY <1>1 DEF URIs
<1>6. stagedPackURI(r) \in URIs \union {None} /\ (~Inline(r) => stagedPackURI(r) \in URIs)
  BY <1>5 DEF stagedPackURI
<1>7. Inline(r) \in BOOLEAN
  BY <1>1, RequestAssumption DEF Inline
<1>8. r.config.endpoint \in {c.endpoint : c \in Configs}
  BY <1>1
<1>9. buildAgentSpec(r) \in Specs
  BY <1>1, <1>4, <1>6, <1>8 DEF buildAgentSpec, Specs
<1> QED BY <1>1, <1>2, <1>3, <1>4, <1>6, <1>7, <1>9

\* The history stays a history, within its bound when it was.
LEMMA RememberType ==
  ASSUME NEW v \in Versions, NEW prior \in Seq(Versions)
  PROVE  Remember(v, prior) \in Seq(Versions)
<1> DEFINE long == <<v>> \o prior
           n    == IF Len(prior) < MaxPriorVersions THEN Len(prior) + 1 ELSE MaxPriorVersions
<1>1. Len(prior) \in Nat
  BY LenProperties
<1>2. <<v>> \in Seq(Versions) /\ Len(<<v>>) = 1
  OBVIOUS
<1>3. long \in Seq(Versions) /\ Len(long) = Len(prior) + 1
  BY <1>1, <1>2, ConcatProperties
<1>4. n \in Nat /\ n <= Len(prior) + 1
  BY <1>1, HistoryAssumption
<1>5. \A i \in 1 .. n : long[i] \in Versions
  <2> TAKE i \in 1 .. n
  <2>1. i \in 1 .. Len(long)
    BY <1>1, <1>3, <1>4
  <2> QED BY <1>3, <2>1, ElementOfSeq
<1> HIDE DEF n, long
<1>6. SubSeq(long, 1, n) \in Seq(Versions)
  BY <1>4, <1>5, SubSeqProperties
<1> QED BY <1>6 DEF Remember, n, long

LEMMA NewStateType == newState \in States
<1>1. 0 \in 0 .. MaxVersions /\ <<>> \in Seq(Versions)
  BY EmptySeq, BoundAssumption
<1> QED BY <1>1 DEF newState, States

LEMMA StateTypes ==
  ASSUME NEW state \in States
  PROVE  /\ clearedState(state) \in States
         /\ \A v \in Versions : recordVersion(state, v) \in States
<1>0. 0 \in 0 .. MaxVersions /\ <<>> \in Seq(Versions) /\ Versions \subseteq 0 .. MaxVersions
  BY EmptySeq, BoundAssumption DEF Versions
<1>2. clearedState(state) \in States
  BY <1>0 DEF clearedState, States
<1>3. ASSUME NEW v \in Versions PROVE recordVersion(state, v) \in States
  <2>1. state.served # 0 => Remember(state.served, state.prior) \in Seq(Versions)
    <3>1. state.served # 0 => state.served \in Versions
      BY BoundAssumption DEF States, Versions
    <3>2. state.prior \in Seq(Versions)
      BY DEF States
    <3> QED BY <3>1, <3>2, RememberType
  <2> QED BY <1>0, <2>1 DEF recordVersion, States
<1> QED BY <1>2, <1>3

LEMMA PlanType ==
  ASSUME NEW state \in States, NEW r \in Requests, NEW told \in Reports
  PROVE  buildPlan(state, r, told) \in Plans
<1>1. agentChange(state) \in {"create", "no-change"}
  BY DEF agentChange
<1>2. versionChange(state, r) \in {"none", "create", "update"}
  BY DEF versionChange
<1>3. servedVersionChange(state, r) \in {"none", "create", "update"}
  BY DEF servedVersionChange
<1> DEFINE stage == ~Inline(r)
<1>4. stage \in BOOLEAN
  OBVIOUS
<1>5. buildPlan(state, r, told) = [agent   |-> agentChange(state),
                                   version |-> versionChange(state, r),
                                   served  |-> servedVersionChange(state, r),
                                   stage   |-> stage,
                                   told    |-> told]
  BY Zenon DEF buildPlan
<1> HIDE DEF stage
<1> QED BY <1>1, <1>2, <1>3, <1>4, <1>5 DEF Plans

-----------------------------------------------------------------------------
(* What the plane's operations keep.                                       *)

LEMMA CreateAgentType ==
  ASSUME PlaneTypeOK, NEW s \in Sites, DoCreateAgent(s)
  PROVE  PlaneTypeOK'
<1>1. [exists |-> TRUE, served |-> 0, granted |-> FALSE]
        \in [exists : BOOLEAN, served : 0 .. MaxVersions, granted : BOOLEAN]
  BY BoundAssumption
<1> QED BY <1>1 DEF PlaneTypeOK, DoCreateAgent

LEMMA GrantType ==
  ASSUME PlaneTypeOK, NEW s \in Sites, DoGrant(s)
  PROVE  PlaneTypeOK'
BY DEF PlaneTypeOK, DoGrant

LEMMA CreateVersionsType ==
  ASSUME PlaneTypeOK, NEW s \in Sites, NEW spec \in Specs, NEW n \in {1, 2},
         DoCreateVersions(s, spec, n)
  PROVE  PlaneTypeOK'
<1>1. [site |-> s, spec |-> spec, status |-> "creating", live |-> FALSE]
        \in [site : Sites \union {None}, spec : Specs \union {None},
             status : Statuses, live : BOOLEAN]
  BY DEF Statuses
<1>2. issued' \in 0 .. MaxVersions
  BY BoundAssumption DEF PlaneTypeOK, DoCreateVersions
<1> QED BY <1>1, <1>2 DEF PlaneTypeOK, DoCreateVersions

LEMMA SetEndpointType ==
  ASSUME PlaneTypeOK, NEW s \in Sites, NEW v \in Versions, DoSetEndpoint(s, v)
  PROVE  PlaneTypeOK'
<1>1. v \in 0 .. MaxVersions
  BY BoundAssumption DEF Versions
<1> QED BY <1>1 DEF PlaneTypeOK, DoSetEndpoint

LEMMA DeleteAgentType ==
  ASSUME PlaneTypeOK, NEW s \in Sites, DoDeleteAgent(s)
  PROVE  PlaneTypeOK'
<1>1. NoAgent \in [exists : BOOLEAN, served : 0 .. MaxVersions, granted : BOOLEAN]
  BY BoundAssumption DEF NoAgent
<1>2. \A v \in Versions : [versions[v] EXCEPT !.status = "deleted"]
        \in [site : Sites \union {None}, spec : Specs \union {None},
             status : Statuses, live : BOOLEAN]
  BY DEF PlaneTypeOK, Statuses
<1> QED BY <1>1, <1>2 DEF PlaneTypeOK, DoDeleteAgent

LEMMA SettleType ==
  ASSUME PlaneTypeOK, NEW v \in Versions, NEW outcome \in Statuses, Settle(v, outcome)
  PROVE  PlaneTypeOK'
BY DEF PlaneTypeOK, Settle

LEMMA BlobType ==
  ASSUME PlaneTypeOK, NEW uri \in URIs, DoStage(uri) \/ LoseBlob(uri)
  PROVE  PlaneTypeOK'
BY DEF PlaneTypeOK, DoStage, LoseBlob

LEMMA PlaneUnchanged ==
  ASSUME PlaneTypeOK, UNCHANGED planeVars
  PROVE  PlaneTypeOK'
BY DEF PlaneTypeOK, planeVars

-----------------------------------------------------------------------------
(* What the steps of an operation keep.                                    *)

LEMMA BudgetType ==
  ASSUME BudgetTypeOK, NEW kind, Calm \/ Disturb(kind)
  PROVE  BudgetTypeOK'
BY FaultAssumption DEF BudgetTypeOK, Calm, Disturb, budgetVars

LEMMA GoType ==
  ASSUME OpTypeOK, NEW step \in Steps, NEW state \in States, NEW made \in SUBSET Calls,
         Go(step, state, made)
  PROVE  OpTypeOK'
BY DEF OpTypeOK, Go

LEMMA EndType ==
  ASSUME OpTypeOK, NEW outcome \in {"ok", "error"}, NEW state \in States,
         NEW made \in SUBSET Calls, End(outcome, state, made)
  PROVE  OpTypeOK'
BY DEF OpTypeOK, End, Steps

LEMMA IdleType ==
  ASSUME OpTypeOK, NEW outcome \in {"none", "ok", "error"}, NEW document \in States,
         Idle(outcome, document)
  PROVE  OpTypeOK'
<1>1. newState \in States
  BY NewStateType
<1>2. 0 \in 0 .. MaxVersions
  BY BoundAssumption
<1> QED BY <1>1, <1>2 DEF OpTypeOK, Idle, Steps

LEMMA AfterAgentType ==
  ASSUME OpTypeOK, NEW state \in States, NEW made \in SUBSET Calls, AfterAgent(state, made)
  PROVE  OpTypeOK'
<1>1. CASE versionNeeded(state, want)
  <2>1. Go("createVersion", state, made)
    BY <1>1 DEF AfterAgent
  <2> QED BY <2>1, GoType DEF Steps
<1>2. CASE ~versionNeeded(state, want)
  <2>1. End("ok", state, made)
    BY <1>2 DEF AfterAgent
  <2> QED BY <2>1, EndType
<1> QED BY <1>1, <1>2

\* What the operation writes into its copy of the document is of its type.
LEMMA CopyTypes ==
  ASSUME OpTypeOK, NEW state \in States
  PROVE  /\ Noted(state) \in States
         /\ Settled(state) \in States
         /\ [state EXCEPT !.agentName = want.pack.name] \in States
         /\ awaited # 0 => Served(state) \in States
         /\ awaited # 0 => [state EXCEPT !.inFlight =
                              [version |-> awaited, packHash |-> want.pack,
                               configHash |-> Fingerprint(want.config)]] \in States
<1>1. want \in Requests
  BY DEF OpTypeOK
<1>2. Noted(state) \in States
  BY <1>1, RequestTypes DEF Noted, States
<1>3. Settled(state) \in States
  BY DEF Settled, States
<1>4. [state EXCEPT !.agentName = want.pack.name] \in States
  BY <1>1, RequestTypes DEF States
<1>5. ASSUME awaited # 0 PROVE Served(state) \in States
  <2>1. awaited \in Versions
    BY <1>5, BoundAssumption DEF OpTypeOK, Versions
  <2>2. recordVersion(state, awaited) \in States
    BY <2>1, StateTypes
  <2> QED BY <1>1, <2>2, RequestTypes DEF Served, States
<1>6. ASSUME awaited # 0
      PROVE  [state EXCEPT !.inFlight = [version |-> awaited, packHash |-> want.pack,
                configHash |-> Fingerprint(want.config)]] \in States
  <2>1. awaited \in Versions
    BY <1>6, BoundAssumption DEF OpTypeOK, Versions
  <2>2. [version |-> awaited, packHash |-> want.pack,
         configHash |-> Fingerprint(want.config)] \in InFlights
    BY <1>1, <2>1, RequestTypes DEF InFlights
  <2> QED BY <2>2 DEF States
<1> QED BY <1>2, <1>3, <1>4, <1>5, <1>6

-----------------------------------------------------------------------------
(* Type correctness.                                                       *)

LEMMA TypeInit == Init => TypeOK
<1> SUFFICES ASSUME Init PROVE TypeOK
  OBVIOUS
<1>1. PlaneTypeOK
  <2>1. NoAgent \in [exists : BOOLEAN, served : 0 .. MaxVersions, granted : BOOLEAN]
    BY BoundAssumption DEF NoAgent
  <2>2. NoVersion \in [site : Sites \union {None}, spec : Specs \union {None},
                       status : Statuses, live : BOOLEAN]
    BY DEF NoVersion, Statuses
  <2> QED BY <2>1, <2>2, BoundAssumption DEF PlaneTypeOK, PlaneInit, Init
<1>2. OpTypeOK
  <2>1. newState \in States
    BY NewStateType
  <2> QED BY <2>1, BoundAssumption DEF Init, OpTypeOK, Steps
<1>3. BudgetTypeOK
  <2>1. rehearsed \in BOOLEAN
    BY DEF Init
  <2> QED BY <2>1, FaultAssumption DEF Init, BudgetTypeOK
<1> QED BY <1>1, <1>2, <1>3 DEF TypeOK

\* A plan, a rejected request and the end of an operation.
LEMMA TypeStartApply == TypeOK /\ StartApply => TypeOK'
<1> SUFFICES ASSUME TypeOK, StartApply PROVE TypeOK'
  OBVIOUS
<1>1. PlaneTypeOK' /\ BudgetTypeOK'
  BY PlaneUnchanged, BudgetType DEF TypeOK, StartApply
<1>2. ShownPlans \subseteq Plans \union {None}
  <2>1. doc \in States /\ clearedState(doc) \in States /\ want \in Requests
    BY StateTypes DEF TypeOK, OpTypeOK
  <2>2. Compared \in Reports /\ {"nothing", "unverified"} \subseteq Reports
    BY DEF Compared, Reports
  <2> QED BY <2>1, <2>2, PlanType DEF ShownPlans
<1>3. OpTypeOK'
  BY <1>2 DEF TypeOK, OpTypeOK, StartApply, Steps
<1> QED BY <1>1, <1>3 DEF TypeOK

LEMMA TypeRejectApply == TypeOK /\ RejectApply => TypeOK'
<1> SUFFICES ASSUME TypeOK, RejectApply PROVE TypeOK'
  OBVIOUS
<1>1. PlaneTypeOK' /\ BudgetTypeOK'
  BY PlaneUnchanged, BudgetType DEF TypeOK, RejectApply
<1>2. OpTypeOK'
  BY IdleType DEF TypeOK, OpTypeOK, RejectApply
<1> QED BY <1>1, <1>2 DEF TypeOK

LEMMA TypeStage == TypeOK /\ Staging /\ Stage => TypeOK'
<1> SUFFICES ASSUME TypeOK, Staging, Stage PROVE TypeOK'
  OBVIOUS
<1>1. stagedPackURI(want) \in URIs
  BY RequestTypes DEF TypeOK, OpTypeOK, Staging, Stage
<1>2. PlaneTypeOK'
  BY <1>1, BlobType, PlaneUnchanged DEF TypeOK, Stage
<1>3. BudgetTypeOK'
  BY BudgetType DEF TypeOK, Stage
<1>4. OpTypeOK'
  <2>1. work \in States /\ doc \in States
    BY DEF TypeOK, OpTypeOK
  <2>2. CASE Go("spec", work, {"StageObject"})
    BY <2>1, <2>2, GoType DEF TypeOK, Steps, Calls
  <2>3. CASE Idle("error", doc)
    BY <2>1, <2>3, IdleType DEF TypeOK
  <2> QED BY <2>2, <2>3 DEF Stage
<1> QED BY <1>2, <1>3, <1>4 DEF TypeOK

LEMMA TypeBuildSpec == TypeOK /\ BuildSpec => TypeOK'
<1> SUFFICES ASSUME TypeOK, BuildSpec PROVE TypeOK'
  OBVIOUS
<1>1. PlaneTypeOK'
  BY PlaneUnchanged DEF TypeOK, BuildSpec
<1>2. BudgetTypeOK'
  BY BudgetType DEF TypeOK, BuildSpec
<1>3. OpTypeOK'
  <2>1. Noted(work) \in States /\ doc \in States
    BY CopyTypes DEF TypeOK, OpTypeOK
  <2>2. CASE Go("createAgent", Noted(work), {})
    BY <2>1, <2>2, GoType DEF TypeOK, Steps
  <2>3. CASE AfterAgent(Noted(work), {})
    BY <2>1, <2>3, AfterAgentType DEF TypeOK
  <2>4. CASE Idle("error", doc)
    BY <2>1, <2>4, IdleType DEF TypeOK
  <2> QED BY <2>2, <2>3, <2>4 DEF BuildSpec
<1> QED BY <1>1, <1>2, <1>3 DEF TypeOK

LEMMA TypeCreateAgent == TypeOK /\ CreateAgent => TypeOK'
<1> SUFFICES ASSUME TypeOK, CreateAgent PROVE TypeOK'
  OBVIOUS
<1> DEFINE state == [work EXCEPT !.agentName = want.pack.name]
<1>1. Site \in Sites
  BY RequestTypes DEF TypeOK, OpTypeOK, Site
<1>2. PlaneTypeOK'
  BY <1>1, CreateAgentType, PlaneUnchanged DEF TypeOK, CreateAgent
<1>3. BudgetTypeOK'
  BY BudgetType DEF TypeOK, CreateAgent
<1>4. OpTypeOK'
  <2>1. state \in States /\ work \in States
    BY CopyTypes DEF TypeOK, OpTypeOK
  <2>2. CASE Go("grant", state, {"CreateAgent"})
    BY <2>1, <2>2, GoType DEF TypeOK, Steps, Calls
  <2>3. CASE AfterAgent(state, {"CreateAgent"})
    BY <2>1, <2>3, AfterAgentType DEF TypeOK, Calls
  <2>4. CASE End("error", work, {})
    BY <2>1, <2>4, EndType DEF TypeOK
  <2> QED BY <2>2, <2>3, <2>4 DEF CreateAgent
<1> QED BY <1>2, <1>3, <1>4 DEF TypeOK

LEMMA TypeGrant == TypeOK /\ Grant => TypeOK'
<1> SUFFICES ASSUME TypeOK, Grant PROVE TypeOK'
  OBVIOUS
<1>1. Site \in Sites
  BY RequestTypes DEF TypeOK, OpTypeOK, Site
<1>2. PlaneTypeOK'
  BY <1>1, GrantType, PlaneUnchanged DEF TypeOK, Grant
<1>3. BudgetTypeOK'
  BY BudgetType DEF TypeOK, Grant
<1>4. OpTypeOK'
  BY AfterAgentType DEF TypeOK, OpTypeOK, Grant
<1> QED BY <1>2, <1>3, <1>4 DEF TypeOK

LEMMA TypeCreateVersion == TypeOK /\ CreateVersion => TypeOK'
<1> SUFFICES ASSUME TypeOK, CreateVersion PROVE TypeOK'
  OBVIOUS
<1>1. Site \in Sites /\ buildAgentSpec(want) \in Specs
  BY RequestTypes DEF TypeOK, OpTypeOK, Site
<1>2. CASE \E n \in {1, 2} :
             /\ DoCreateVersions(Site, buildAgentSpec(want), n)
             /\ awaited' = issued + n
             /\ Calm \/ Disturb("repeat")
             /\ pc' = "await"
             /\ calls' = calls \union {"CreateVersion"}
             /\ UNCHANGED <<doc, want, work, promise, reply>>
  <2>1. PICK n \in {1, 2} :
             /\ DoCreateVersions(Site, buildAgentSpec(want), n)
             /\ awaited' = issued + n
             /\ Calm \/ Disturb("repeat")
             /\ pc' = "await"
             /\ calls' = calls \union {"CreateVersion"}
             /\ UNCHANGED <<doc, want, work, promise, reply>>
    BY <1>2
  <2>2. PlaneTypeOK' /\ BudgetTypeOK'
    BY <1>1, <2>1, CreateVersionsType, BudgetType DEF TypeOK
  <2>3. awaited' \in 0 .. MaxVersions
    BY <2>1, BoundAssumption DEF DoCreateVersions, TypeOK, PlaneTypeOK
  <2>4. OpTypeOK'
    BY <2>1, <2>3 DEF TypeOK, OpTypeOK, Steps, Calls
  <2> QED BY <2>2, <2>4 DEF TypeOK
<1>3. CASE /\ DoCreateVersions(Site, buildAgentSpec(want), 1) \/ UNCHANGED planeVars
           /\ End("error", work, {})
           /\ Calm \/ Disturb("lose") \/ Disturb("refuse")
  <2>1. PlaneTypeOK' /\ BudgetTypeOK'
    BY <1>1, <1>3, CreateVersionsType, PlaneUnchanged, BudgetType DEF TypeOK
  <2>2. OpTypeOK'
    BY <1>3, EndType DEF TypeOK, OpTypeOK
  <2> QED BY <2>1, <2>2 DEF TypeOK
<1> QED BY <1>2, <1>3 DEF CreateVersion

LEMMA TypeAwait == TypeOK /\ AwaitedOwn /\ (Await \/ GiveUp) => TypeOK'
<1> SUFFICES ASSUME TypeOK, AwaitedOwn, Await \/ GiveUp PROVE TypeOK'
  OBVIOUS
<1>1. PlaneTypeOK' /\ BudgetTypeOK'
  BY PlaneUnchanged, BudgetType DEF TypeOK, Await, GiveUp
<1>2. awaited # 0 /\ work \in States
  BY DEF Await, GiveUp, AwaitedOwn, TypeOK, OpTypeOK, PlaneTypeOK
<1> DEFINE flight == [work EXCEPT !.inFlight = [version |-> awaited, packHash |-> want.pack,
                                                configHash |-> Fingerprint(want.config)]]
<1>3. Settled(work) \in States /\ flight \in States
  BY <1>2, CopyTypes DEF TypeOK
<1>4. OpTypeOK'
  <2>1. CASE Go("setEndpoint", Settled(work), {})
    BY <1>3, <2>1, GoType DEF TypeOK, Steps
  <2>2. CASE End("ok", flight, {})
    BY <1>3, <2>2, EndType DEF TypeOK
  <2>3. CASE End("error", work, {})
    BY <1>2, <2>3, EndType DEF TypeOK
  <2> QED BY <2>1, <2>2, <2>3 DEF Await, GiveUp
<1> QED BY <1>1, <1>4 DEF TypeOK

LEMMA TypeSetEndpoint == TypeOK /\ AwaitedOwn /\ SetEndpoint => TypeOK'
<1> SUFFICES ASSUME TypeOK, AwaitedOwn, SetEndpoint PROVE TypeOK'
  OBVIOUS
<1>1. Site \in Sites /\ awaited \in Versions /\ awaited # 0
  BY RequestTypes, BoundAssumption
     DEF TypeOK, OpTypeOK, PlaneTypeOK, Site, AwaitedOwn, SetEndpoint, Versions
<1>2. PlaneTypeOK'
  BY <1>1, SetEndpointType, PlaneUnchanged DEF TypeOK, SetEndpoint, Serving
<1>3. BudgetTypeOK'
  BY BudgetType DEF TypeOK, SetEndpoint
<1>4. OpTypeOK'
  <2>1. work \in States /\ Served(work) \in States
    BY <1>1, CopyTypes DEF TypeOK, OpTypeOK
  <2>2. CASE End("ok", Served(work), {"SetEndpoint"})
    BY <2>1, <2>2, EndType DEF TypeOK, Calls
  <2>3. CASE End("error", work, {})
    BY <2>1, <2>3, EndType DEF TypeOK
  <2> QED BY <2>2, <2>3 DEF SetEndpoint
<1> QED BY <1>2, <1>3, <1>4 DEF TypeOK

LEMMA TypeReturn == TypeOK /\ (Return \/ Crash) => TypeOK'
<1> SUFFICES ASSUME TypeOK, Return \/ Crash PROVE TypeOK'
  OBVIOUS
<1>1. PlaneTypeOK' /\ BudgetTypeOK'
  BY PlaneUnchanged, BudgetType DEF TypeOK, Return, Crash
<1>2. OpTypeOK'
  BY IdleType DEF TypeOK, OpTypeOK, Return, Crash
<1> QED BY <1>1, <1>2 DEF TypeOK

LEMMA TypeDryRunApply == TypeOK /\ DryRunApply => TypeOK'
<1> SUFFICES ASSUME TypeOK, DryRunApply PROVE TypeOK'
  OBVIOUS
<1> DEFINE prior   == Noted(doc)
           created == prior.agentName = None
           state   == IF created THEN [prior EXCEPT !.agentName = want.pack.name] ELSE prior
           settled == [state EXCEPT !.inFlight = None]
           served  == [recordVersion(settled, 1) EXCEPT
                         !.packHash = want.pack, !.configHash = Fingerprint(want.config)]
<1>1. PlaneTypeOK' /\ BudgetTypeOK'
  BY PlaneUnchanged DEF TypeOK, DryRunApply, BudgetTypeOK
<1>2. prior \in States
  BY CopyTypes DEF TypeOK, OpTypeOK
<1>3. state \in States
  BY <1>2, CopyTypes DEF TypeOK
<1>4. settled \in States
  BY <1>3 DEF States
<1>5. served \in States
  <2>1. 1 \in Versions
    BY BoundAssumption DEF Versions
  <2>2. recordVersion(settled, 1) \in States
    BY <1>4, <2>1, StateTypes
  <2>3. ASSUME NEW st \in States
        PROVE  [st EXCEPT !.packHash = want.pack, !.configHash = Fingerprint(want.config)] \in States
    BY RequestTypes DEF TypeOK, OpTypeOK, States
  <2> QED BY <2>2, <2>3
<1>6. OpTypeOK'
  <2>1. CASE Idle("ok", state)
    BY <1>3, <2>1, IdleType DEF TypeOK
  <2>2. CASE Idle("ok", served)
    BY <1>5, <2>2, IdleType DEF TypeOK
  <2>3. CASE Idle("error", settled)
    BY <1>4, <2>3, IdleType DEF TypeOK
  <2> QED BY <2>1, <2>2, <2>3 DEF DryRunApply
<1> QED BY <1>1, <1>6 DEF TypeOK

LEMMA TypeDestroy == TypeOK /\ Destroy => TypeOK'
<1> SUFFICES ASSUME TypeOK, Destroy PROVE TypeOK'
  OBVIOUS
<1> DEFINE s == <<want.config.project, doc.agentName>>
<1>1. doc.agentName # None => s \in Sites
  BY RequestTypes DEF TypeOK, OpTypeOK, States, Sites, Projects
<1>2. PlaneTypeOK'
  BY <1>1, DeleteAgentType, PlaneUnchanged DEF TypeOK, Destroy, planeVars
<1>3. BudgetTypeOK'
  BY FaultAssumption DEF TypeOK, BudgetTypeOK, Destroy
<1>4. OpTypeOK'
  BY NewStateType, IdleType DEF TypeOK, OpTypeOK, Destroy
<1> QED BY <1>2, <1>3, <1>4 DEF TypeOK

\* The operator and the platform.
LEMMA TypeWorld == TypeOK /\ (ChangeMind \/ Activate \/ Disturbance) => TypeOK'
<1> SUFFICES ASSUME TypeOK, ChangeMind \/ Activate \/ Disturbance PROVE TypeOK'
  OBVIOUS
<1>1. CASE ChangeMind
  <2>1. PlaneTypeOK'
    BY <1>1, PlaneUnchanged DEF TypeOK, ChangeMind
  <2>2. BudgetTypeOK'
    BY <1>1, FaultAssumption DEF TypeOK, BudgetTypeOK, ChangeMind
  <2>3. OpTypeOK'
    BY <1>1 DEF TypeOK, OpTypeOK, ChangeMind, opVars
  <2> QED BY <2>1, <2>2, <2>3 DEF TypeOK
<1>2. CASE Activate \/ Disturbance
  <2>1. 1 .. issued \subseteq Versions /\ blobs \subseteq URIs
    BY BoundAssumption DEF TypeOK, PlaneTypeOK, Versions
  <2>2. ASSUME NEW v \in 1 .. issued, NEW outcome \in {"active", "failed", "deleted"},
               Settle(v, outcome)
        PROVE  PlaneTypeOK'
    BY <2>1, <2>2, SettleType DEF TypeOK, Statuses
  <2>3. ASSUME NEW s \in Sites, DeleteOutOfBand(s) PROVE PlaneTypeOK'
    BY <2>3, DeleteAgentType DEF TypeOK, DeleteOutOfBand
  <2>4. ASSUME NEW s \in Sites, NEW v \in 1 .. issued, Repoint(s, v) PROVE PlaneTypeOK'
    BY <2>1, <2>4, SetEndpointType DEF TypeOK, Repoint
  <2>5. ASSUME NEW uri \in blobs, LoseBlob(uri) PROVE PlaneTypeOK'
    BY <2>1, <2>5, BlobType DEF TypeOK
  <2>6. PlaneTypeOK'
    BY <1>2, <2>2, <2>3, <2>4, <2>5 DEF Activate, Disturbance
  <2>7. BudgetTypeOK'
    BY <1>2, BudgetType DEF TypeOK, Activate, Disturbance
  <2>8. OpTypeOK'
    BY <1>2 DEF TypeOK, OpTypeOK, Activate, Disturbance, opVars
  <2> QED BY <2>6, <2>7, <2>8 DEF TypeOK
<1> QED BY <1>1, <1>2

LEMMA TypeStep == TypeOK /\ Staging /\ AwaitedOwn /\ [Next]_vars => TypeOK'
<1> SUFFICES ASSUME TypeOK, Staging, AwaitedOwn, [Next]_vars PROVE TypeOK'
  OBVIOUS
<1>1. CASE UNCHANGED vars
  <2>1. PlaneTypeOK'
    BY <1>1, PlaneUnchanged DEF TypeOK, vars
  <2> QED BY <1>1, <2>1 DEF TypeOK, OpTypeOK, BudgetTypeOK, vars, opVars, budgetVars
<1>2. CASE Next
  BY <1>2, TypeStartApply, TypeRejectApply, TypeStage, TypeBuildSpec, TypeCreateAgent,
     TypeGrant, TypeCreateVersion, TypeAwait, TypeSetEndpoint, TypeReturn,
     TypeDryRunApply, TypeDestroy, TypeWorld DEF Next, Advance
<1> QED BY <1>1, <1>2


-----------------------------------------------------------------------------
(* Every step changes the plane in one of a few ways.                      *)

PlaneMove ==
  \/ UNCHANGED <<agents, versions, issued>>
  \/ pc = "createAgent" /\ DoCreateAgent(Site)
  \/ \E s \in Sites : DoGrant(s) \/ DoDeleteAgent(s)
  \/ pc = "createVersion" /\ \E n \in {1, 2} : DoCreateVersions(Site, buildAgentSpec(want), n)
  \/ /\ pc = "setEndpoint" /\ pc' = "return"
     /\ agents[Site].exists /\ DoSetEndpoint(Site, awaited)
  \/ \E v \in 1 .. issued : \E outcome \in {"active", "failed", "deleted"} : Settle(v, outcome)
  \/ "repoint" \in Faults /\ \E s \in Sites : \E v \in 1 .. issued : Repoint(s, v)

LEMMA PlaneMoves == TypeOK /\ [Next]_vars => PlaneMove
<1> SUFFICES ASSUME TypeOK, [Next]_vars PROVE PlaneMove
  OBVIOUS
<1>1. Site \in Sites
  BY RequestTypes DEF TypeOK, OpTypeOK, Site
<1>2. CASE UNCHANGED planeVars
  BY <1>2 DEF planeVars, PlaneMove
<1>3. CASE Stage
  BY <1>3 DEF Stage, DoStage, PlaneMove, planeVars
<1>4. CASE CreateAgent
  BY <1>1, <1>4 DEF CreateAgent, PlaneMove, planeVars
<1>5. CASE Grant
  BY <1>1, <1>5 DEF Grant, PlaneMove, planeVars
<1>6. CASE CreateVersion
  BY <1>6 DEF CreateVersion, PlaneMove, planeVars
<1>7. CASE SetEndpoint
  BY <1>7 DEF SetEndpoint, Serving, End, PlaneMove, planeVars
<1>8. CASE Destroy
  <2>1. doc.agentName # None => <<want.config.project, doc.agentName>> \in Sites
    BY RequestTypes DEF TypeOK, OpTypeOK, States, Sites, Projects
  <2> QED BY <1>8, <2>1 DEF Destroy, PlaneMove, planeVars
<1>9. CASE Activate \/ Disturbance
  BY <1>9 DEF Activate, Disturbance, Disturb, DeleteOutOfBand, LoseBlob, PlaneMove
<1>10. CASE UNCHANGED vars \/ StartApply \/ RejectApply \/ BuildSpec \/ Await \/ GiveUp
            \/ Return \/ Crash \/ DryRunApply \/ ChangeMind
  BY <1>2, <1>10 DEF vars, StartApply, RejectApply, BuildSpec, Await, GiveUp, Return,
     Crash, DryRunApply, ChangeMind
<1> QED BY <1>3, <1>4, <1>5, <1>6, <1>7, <1>8, <1>9, <1>10 DEF Next, Advance

\* A version never changes its site nor what it was made from, was live for
\* good, and stays active unless the agent is deleted with it.
LEMMA VersionsStable ==
  ASSUME TypeOK, AwaitedOwn, PlaneMove
  PROVE  /\ issued <= issued'
         /\ \A v \in 1 .. issued :
              /\ versions'[v].site = versions[v].site
              /\ versions'[v].spec = versions[v].spec
              /\ versions[v].live => versions'[v].live
              /\ versions[v].status = "active" =>
                   \/ versions'[v].status = "active"
                   \/ agents'[versions[v].site] = NoAgent
<1>1. issued \in Nat /\ 1 .. issued \subseteq Versions
  BY BoundAssumption DEF TypeOK, PlaneTypeOK, Versions
<1>2. CASE UNCHANGED <<agents, versions, issued>>
  BY <1>1, <1>2
<1>3. CASE \E s \in Sites : DoCreateAgent(s) \/ DoGrant(s)
  BY <1>1, <1>3 DEF DoCreateAgent, DoGrant
<1>4. ASSUME NEW s \in Sites, DoDeleteAgent(s)
      PROVE  /\ issued <= issued'
             /\ \A v \in 1 .. issued :
                  /\ versions'[v].site = versions[v].site
                  /\ versions'[v].spec = versions[v].spec
                  /\ versions[v].live => versions'[v].live
                  /\ versions[v].status = "active" =>
                       \/ versions'[v].status = "active"
                       \/ agents'[versions[v].site] = NoAgent
  BY <1>1, <1>4 DEF DoDeleteAgent, TypeOK, PlaneTypeOK
<1>5. CASE \E n \in {1, 2} : DoCreateVersions(Site, buildAgentSpec(want), n)
  BY <1>1, <1>5 DEF DoCreateVersions
<1>6. CASE \E s \in Sites : \E v \in 1 .. issued : DoSetEndpoint(s, v)
  BY <1>1, <1>6 DEF DoSetEndpoint, TypeOK, PlaneTypeOK
<1>7. CASE \E v \in 1 .. issued : \E outcome \in {"active", "failed", "deleted"} : Settle(v, outcome)
  BY <1>1, <1>7 DEF Settle, TypeOK, PlaneTypeOK
<1>8. Site \in Sites
  BY RequestTypes DEF TypeOK, OpTypeOK, Site
<1> QED BY <1>2, <1>3, <1>4, <1>5, <1>6, <1>7, <1>8 DEF PlaneMove, Repoint, AwaitedOwn

LEMMA UnissuedStep ==
  ASSUME TypeOK, AwaitedOwn, Unissued, PlaneMove
  PROVE  Unissued'
<1>1. issued \in Nat /\ 1 .. issued \subseteq Versions /\ MaxVersions \in Nat
  BY BoundAssumption DEF TypeOK, PlaneTypeOK, Versions
<1>2. CASE UNCHANGED <<agents, versions, issued>>
  BY <1>2 DEF Unissued
<1>3. CASE \E s \in Sites : DoCreateAgent(s) \/ DoGrant(s)
  BY <1>3 DEF Unissued, DoCreateAgent, DoGrant
<1>4. ASSUME NEW s \in Sites, DoDeleteAgent(s) PROVE Unissued'
  <2>1. NoVersion.site # s
    BY NoneAssumption DEF NoVersion
  <2> QED BY <1>1, <1>4, <2>1 DEF Unissued, DoDeleteAgent
<1>5. CASE \E n \in {1, 2} : DoCreateVersions(Site, buildAgentSpec(want), n)
  BY <1>1, <1>5 DEF Unissued, DoCreateVersions, Versions
<1>6. CASE \E s \in Sites : \E v \in 1 .. issued : DoSetEndpoint(s, v)
  BY <1>1, <1>6 DEF Unissued, DoSetEndpoint, TypeOK, PlaneTypeOK
<1>7. CASE \E v \in 1 .. issued : \E outcome \in {"active", "failed", "deleted"} : Settle(v, outcome)
  BY <1>1, <1>7 DEF Unissued, Settle, TypeOK, PlaneTypeOK, Versions
<1>8. Site \in Sites
  BY RequestTypes DEF TypeOK, OpTypeOK, Site
<1> QED BY <1>2, <1>3, <1>4, <1>5, <1>6, <1>7, <1>8 DEF PlaneMove, Repoint, AwaitedOwn

-----------------------------------------------------------------------------
(* The version an operation waits for.                                     *)

\* A step after which an operation waits, or is about to move the endpoint,
\* is one of three.
LEMMA WaitMoves ==
  ASSUME TypeOK, [Next]_vars, pc' \in {"await", "setEndpoint"}
  PROVE  \/ pc' = pc /\ UNCHANGED <<want, awaited>>
         \/ /\ pc' = "await" /\ UNCHANGED want
            /\ \E n \in {1, 2} :
                 DoCreateVersions(Site, buildAgentSpec(want), n) /\ awaited' = issued + n
         \/ /\ pc = "await" /\ pc' = "setEndpoint" /\ Servable(awaited)
            /\ UNCHANGED <<want, awaited, planeVars>>
<1>1. CASE UNCHANGED vars \/ Activate \/ Disturbance
  BY <1>1 DEF vars, opVars, Activate, Disturbance
<1>2. CASE StartApply \/ RejectApply \/ Stage \/ BuildSpec \/ CreateAgent \/ Grant
           \/ GiveUp \/ SetEndpoint \/ Return \/ Crash \/ DryRunApply \/ Destroy
  BY <1>2 DEF StartApply, RejectApply, Stage, BuildSpec, CreateAgent, Grant, AfterAgent,
     GiveUp, SetEndpoint, Return, Crash, DryRunApply, Destroy, Go, End, Idle
<1>3. CASE ChangeMind
  BY <1>3 DEF ChangeMind, opVars
<1>4. CASE CreateVersion
  BY <1>4 DEF CreateVersion, End
<1>5. CASE Await
  BY <1>5 DEF Await, Go, End
<1> QED BY <1>1, <1>2, <1>3, <1>4, <1>5 DEF Next, Advance

LEMMA StagingStep == TypeOK /\ Staging /\ [Next]_vars => Staging'
<1> SUFFICES ASSUME TypeOK, Staging, [Next]_vars, pc' = "stage" PROVE ~Inline(want')
  BY DEF Staging, Inline
<1>1. CASE UNCHANGED vars \/ ChangeMind \/ Activate \/ Disturbance
  BY <1>1 DEF Staging, vars, opVars, ChangeMind, Activate, Disturbance
<1>2. CASE StartApply
  BY <1>2 DEF StartApply
<1>3. CASE RejectApply \/ Advance \/ Crash \/ DryRunApply \/ Destroy
  BY <1>3 DEF RejectApply, Advance, Stage, BuildSpec, CreateAgent, Grant, AfterAgent,
     CreateVersion, Await, GiveUp, SetEndpoint, Return, Crash, DryRunApply, Destroy,
     Go, End, Idle
<1> QED BY <1>1, <1>2, <1>3 DEF Next

LEMMA AwaitedStep ==
  ASSUME TypeOK, TypeOK', AwaitedOwn, AwaitedActive, [Next]_vars
  PROVE  AwaitedOwn' /\ AwaitedActive'
<1> SUFFICES ASSUME pc' \in {"await", "setEndpoint"}
             PROVE  AwaitedOwn' /\ AwaitedActive'
  BY DEF AwaitedOwn, AwaitedActive
<1>1. PlaneMove
  BY PlaneMoves
<1> DEFINE stable(v) ==
             /\ versions'[v].site = versions[v].site
             /\ versions'[v].spec = versions[v].spec
             /\ versions[v].status = "active" =>
                  \/ versions'[v].status = "active"
                  \/ agents'[versions[v].site] = NoAgent
<1>s. issued <= issued' /\ \A v \in 1 .. issued : stable(v)
  BY <1>1, VersionsStable
<1>2. /\ issued \in Nat /\ 1 .. issued \subseteq Versions /\ MaxVersions \in Nat
      /\ issued' \in Nat
  BY BoundAssumption DEF TypeOK, PlaneTypeOK, Versions
<1>3. CASE pc' = pc /\ UNCHANGED <<want, awaited>>
  <2>1. AwaitedOwn'
    <3>1. awaited \in 1 .. issued /\ stable(awaited)
      BY <1>3, <1>s DEF AwaitedOwn
    <3>2. awaited \in 1 .. issued'
      BY <1>1, <1>2, <1>s, <3>1
    <3> QED BY <1>3, <3>1, <3>2 DEF AwaitedOwn, Site
  <2>2. ASSUME pc = "setEndpoint", agents'[Site].exists
        PROVE  versions'[awaited].status = "active"
    <3>1. CASE agents[Site].exists
      BY <1>3, <1>s, <2>2, <3>1 DEF AwaitedOwn, AwaitedActive, NoAgent
    <3>2. CASE ~agents[Site].exists
      <4>1. Site \in Sites
        BY RequestTypes DEF TypeOK, OpTypeOK, Site
      <4>2. ~agents'[Site].exists
        BY <1>1, <2>2, <3>2, <4>1 DEF PlaneMove, DoGrant, DoDeleteAgent, DoCreateVersions,
           Settle, Repoint, DoSetEndpoint, NoAgent, TypeOK, PlaneTypeOK
      <4> QED BY <2>2, <4>2
    <3> QED BY <3>1, <3>2
  <2> QED BY <1>3, <2>1, <2>2 DEF AwaitedActive, Site
<1>4. CASE /\ pc' = "await" /\ UNCHANGED want
           /\ \E n \in {1, 2} :
                DoCreateVersions(Site, buildAgentSpec(want), n) /\ awaited' = issued + n
  BY <1>2, <1>4 DEF DoCreateVersions, AwaitedOwn, AwaitedActive, Versions, Site
<1>5. CASE /\ pc = "await" /\ pc' = "setEndpoint" /\ Servable(awaited)
           /\ UNCHANGED <<want, awaited, planeVars>>
  BY <1>5 DEF AwaitedOwn, AwaitedActive, Servable, planeVars, Site
<1> QED BY <1>3, <1>4, <1>5, WaitMoves

-----------------------------------------------------------------------------
(* The endpoint.                                                           *)

LEMMA EndpointStep ==
  ASSUME EndpointInv, [Next]_vars
  PROVE  EndpointActive'
<1>1. PlaneMove
  BY PlaneMoves DEF EndpointInv
<1>2. /\ issued \in Nat /\ 1 .. issued \subseteq Versions /\ MaxVersions \in Nat
      /\ agents \in [Sites -> [exists : BOOLEAN, served : 0 .. MaxVersions, granted : BOOLEAN]]
      /\ Site \in Sites
  BY RequestTypes, BoundAssumption
     DEF EndpointInv, TypeOK, PlaneTypeOK, OpTypeOK, Versions, Site
\* What an endpoint points at was issued.
<1>3. \A s \in Sites : agents[s].served # 0 => agents[s].served \in 1 .. issued
  <2> SUFFICES ASSUME NEW s \in Sites, agents[s].served # 0, ~(agents[s].served <= issued)
               PROVE  FALSE
    BY <1>2
  <2>1. versions[agents[s].served] = NoVersion
    BY <1>2 DEF EndpointInv, Unissued, Versions
  <2> QED BY <2>1 DEF EndpointInv, EndpointActive, NoVersion
\* An endpoint that did not move points at a version that did not change.
<1>4. ASSUME NEW s \in Sites, agents'[s].served = agents[s].served, agents[s].served # 0,
             agents'[s] # NoAgent
      PROVE  /\ versions'[agents[s].served].site = s
             /\ versions'[agents[s].served].status = "active"
  <2> DEFINE v == agents[s].served
  <2>1. versions[v].site = s /\ versions[v].status = "active" /\ v \in 1 .. issued
    BY <1>3, <1>4 DEF EndpointInv, EndpointActive
  <2> HIDE DEF v
  <2>2. /\ versions'[v].site = versions[v].site
        /\ versions[v].status = "active" =>
             versions'[v].status = "active" \/ agents'[versions[v].site] = NoAgent
    BY <1>1, <2>1, VersionsStable DEF EndpointInv
  <2> QED BY <1>4, <2>1, <2>2 DEF v
\* An endpoint that moved points at an active version of its agent.
<1>5. ASSUME NEW s \in Sites, NEW v \in 1 .. issued, DoSetEndpoint(s, v), agents[s].exists,
             versions[v].site = s, versions[v].status = "active"
      PROVE  EndpointActive'
  <2>1. /\ agents'[s].served = v /\ versions'[v].site = s /\ versions'[v].status = "active"
        /\ \A t \in Sites \ {s} : agents'[t] = agents[t]
    BY <1>2, <1>5 DEF DoSetEndpoint, EndpointInv, TypeOK, PlaneTypeOK
  <2>2. ASSUME NEW t \in Sites \ {s}, agents[t].served # 0
        PROVE  versions'[agents[t].served].site = t /\ versions'[agents[t].served].status = "active"
    BY <1>2, <1>5, <2>2 DEF DoSetEndpoint, EndpointInv, EndpointActive, TypeOK, PlaneTypeOK
  <2> QED BY <2>1, <2>2 DEF EndpointActive
<1>6. CASE pc = "setEndpoint" /\ agents[Site].exists /\ DoSetEndpoint(Site, awaited)
  BY <1>2, <1>5, <1>6 DEF EndpointInv, AwaitedOwn, AwaitedActive
<1>7. CASE \E s \in Sites : \E v \in 1 .. issued : Repoint(s, v)
  BY <1>5, <1>7 DEF Repoint
<1>8. CASE \A s \in Sites : agents'[s].served \in {0, agents[s].served}
  <2> SUFFICES ASSUME NEW s \in Sites, agents'[s].served # 0
               PROVE  /\ versions'[agents'[s].served].site = s
                      /\ versions'[agents'[s].served].status = "active"
    BY DEF EndpointActive
  <2>1. agents'[s].served = agents[s].served /\ agents'[s] # NoAgent
    BY <1>8 DEF NoAgent
  <2> QED BY <1>4, <2>1
<1>9. CASE \/ UNCHANGED <<agents, versions, issued>>
           \/ pc = "createAgent" /\ DoCreateAgent(Site)
           \/ \E s \in Sites : DoGrant(s) \/ DoDeleteAgent(s)
           \/ \E n \in {1, 2} : DoCreateVersions(Site, buildAgentSpec(want), n)
           \/ \E v \in 1 .. issued :
                \E outcome \in {"active", "failed", "deleted"} : Settle(v, outcome)
  <2>1. \A s \in Sites : agents'[s].served \in {0, agents[s].served}
    BY <1>2, <1>9 DEF DoCreateAgent, DoGrant, DoDeleteAgent, DoCreateVersions, Settle, NoAgent
  <2> QED BY <1>8, <2>1
<1> QED BY <1>1, <1>6, <1>7, <1>9 DEF PlaneMove

LEMMA EndpointInvInit == Init => EndpointInv
<1> SUFFICES ASSUME Init PROVE EndpointInv
  OBVIOUS
<1>1. TypeOK
  BY TypeInit
<1>2. EndpointActive /\ Unissued
  BY DEF Init, PlaneInit, EndpointActive, NoAgent, Unissued
<1> QED BY <1>1, <1>2 DEF Init, EndpointInv, Staging, AwaitedOwn, AwaitedActive

LEMMA EndpointInvStep == EndpointInv /\ [Next]_vars => EndpointInv'
<1> SUFFICES ASSUME EndpointInv, [Next]_vars PROVE EndpointInv'
  OBVIOUS
<1>1. PlaneMove
  BY PlaneMoves DEF EndpointInv
<1>2. TypeOK'
  BY TypeStep DEF EndpointInv
<1>3. Staging' /\ Unissued'
  BY <1>1, StagingStep, UnissuedStep DEF EndpointInv
<1>4. AwaitedOwn' /\ AwaitedActive'
  BY <1>2, AwaitedStep DEF EndpointInv
<1>5. EndpointActive'
  BY EndpointStep
<1> QED BY <1>2, <1>3, <1>4, <1>5 DEF EndpointInv

LEMMA EndpointInvariant == Spec => []EndpointInv
BY EndpointInvInit, EndpointInvStep, PTL DEF Spec

(* Type correctness of the deployment.                                     *)
THEOREM TypeCorrect == Spec => []TypeOK
<1>1. EndpointInv => TypeOK
  BY DEF EndpointInv
<1> QED BY <1>1, EndpointInvariant, PTL

(* An endpoint only ever points at an active version of its own agent,     *)
(* whatever is deployed, whatever fails and whoever else intervenes.       *)
THEOREM EndpointAlwaysActive == Spec => []EndpointActive
<1>1. EndpointInv => EndpointActive
  BY DEF EndpointInv
<1> QED BY <1>1, EndpointInvariant, PTL

-----------------------------------------------------------------------------
(* The record.                                                             *)

Records(state, v, pack, config) ==
  state.served = v /\ state.packHash = pack /\ state.configHash = config

\* a says the same of what is served as b, or nothing.
Follows(a, b) == a.served = 0 \/ Records(a, b.served, b.packHash, b.configHash)

\* What no configuration asks for is not done.
LEMMA NeverRehearsed ==
  ASSUME TypeOK, \A c \in Configs : ~c.dryRun
  PROVE  ~DryRunApply
BY DEF TypeOK, OpTypeOK, Requests, DryRunApply

\* The copy is only made to describe a version after its endpoint call.
LEMMA RecordMoves ==
  ASSUME TypeOK, [Next]_vars, ~DryRunApply
  PROVE  /\ Follows(doc', doc) \/ Follows(doc', work)
         /\ \/ Follows(work', doc) \/ Follows(work', work)
            \/ /\ pc = "setEndpoint" /\ DoSetEndpoint(Site, awaited)
               /\ Records(work', awaited, want.pack, Fingerprint(want.config))
<1> USE DEF Follows, Records
<1>1. work \in States /\ doc \in States /\ want.config \in Configs
  BY RequestTypes DEF TypeOK, OpTypeOK
<1>2. newState.served = 0
  BY DEF newState
<1>3. CASE UNCHANGED vars \/ ChangeMind \/ Activate \/ Disturbance \/ StartApply
  BY <1>3 DEF vars, opVars, ChangeMind, Activate, Disturbance, StartApply
<1>4. CASE RejectApply \/ Return \/ Crash \/ Destroy
  BY <1>2, <1>4 DEF RejectApply, Return, Crash, Destroy, Idle
<1>5. ASSUME NEW state \in States, NEW made, Follows(state, work), AfterAgent(state, made)
      PROVE  UNCHANGED doc /\ Follows(work', work)
  BY <1>5 DEF AfterAgent, Go, End
<1>6. CASE Stage \/ BuildSpec
  <2>1. Noted(work) \in States /\ Follows(Noted(work), work)
    BY <1>1, CopyTypes DEF TypeOK, Noted, States
  <2> QED BY <1>2, <1>5, <1>6, <2>1 DEF Stage, BuildSpec, Go, Idle
<1>7. CASE CreateAgent \/ Grant
  <2>1. /\ [work EXCEPT !.agentName = want.pack.name] \in States
        /\ Follows([work EXCEPT !.agentName = want.pack.name], work)
    BY <1>1, CopyTypes DEF TypeOK, States
  <2> QED BY <1>1, <1>5, <1>7, <2>1 DEF CreateAgent, Grant, Go, End
<1>8. CASE CreateVersion \/ GiveUp
  BY <1>8 DEF CreateVersion, GiveUp, End
<1>9. CASE Await
  BY <1>1, <1>9 DEF Await, Go, End, Settled, States
<1>10. CASE SetEndpoint
  <2>1. Records(Served(work), awaited, want.pack, Fingerprint(want.config))
    BY <1>1 DEF Served, recordVersion, States
  <2> QED BY <1>10, <2>1 DEF SetEndpoint, Serving, End
<1> QED BY <1>3, <1>4, <1>6, <1>7, <1>8, <1>9, <1>10 DEF Next, Advance

LEMMA DescribesStep ==
  ASSUME DeployInv, [Next]_vars, ~DryRunApply
  PROVE  Describes(doc)' /\ Describes(work)'
<1>1. PlaneMove
  BY PlaneMoves DEF DeployInv, EndpointInv
<1>2. /\ issued \in Nat /\ issued' \in Nat /\ MaxVersions \in Nat
      /\ doc.served \in Nat /\ work.served \in Nat
  BY TypeStep, BoundAssumption
     DEF DeployInv, EndpointInv, TypeOK, PlaneTypeOK, OpTypeOK, States
<1>3. /\ issued <= issued'
      /\ \A v \in 1 .. issued : /\ versions'[v].spec = versions[v].spec
                                /\ versions[v].live => versions'[v].live
  BY <1>1, VersionsStable DEF DeployInv, EndpointInv
\* What follows a document that described its version still does.
<1>4. ASSUME NEW a, NEW b, Follows(a, b), Describes(b), b.served \in Nat,
             a.served # 0
      PROVE  /\ a.served <= issued'
             /\ versions'[a.served].live
             /\ versions'[a.served].spec.pack = a.packHash
             /\ versions'[a.served].spec.config = a.configHash
  <2>1. a.served \in 1 .. issued /\ a.served = b.served
    BY <1>2, <1>4 DEF Follows, Records, Describes
  <2> QED BY <1>2, <1>3, <1>4, <2>1 DEF Follows, Records, Describes
<1>5. Describes(doc) /\ Describes(work)
  BY DEF DeployInv
\* What was just made live is described by the request it was made from.
<1>6. ASSUME pc = "setEndpoint", DoSetEndpoint(Site, awaited),
             Records(work', awaited, want.pack, Fingerprint(want.config))
      PROVE  Describes(work)'
  <2>1. /\ awaited \in 1 .. issued
        /\ versions[awaited].spec = buildAgentSpec(want)
        /\ awaited \in Versions
    BY <1>2, <1>6, BoundAssumption
       DEF DeployInv, EndpointInv, AwaitedOwn, TypeOK, PlaneTypeOK, Versions
  <2>2. versions'[awaited].live
    BY <1>6, <2>1 DEF DoSetEndpoint, DeployInv, EndpointInv, TypeOK, PlaneTypeOK
  <2>3. versions'[awaited].spec = buildAgentSpec(want)
    BY <1>3, <2>1
  <2> QED BY <1>2, <1>3, <1>6, <2>1, <2>2, <2>3 DEF Records, Describes, buildAgentSpec
<1>7.
      /\ Follows(doc', doc) \/ Follows(doc', work)
      /\ \/ Follows(work', doc) \/ Follows(work', work)
         \/ /\ pc = "setEndpoint" /\ DoSetEndpoint(Site, awaited)
            /\ Records(work', awaited, want.pack, Fingerprint(want.config))
  BY RecordMoves DEF DeployInv, EndpointInv
<1>8. Describes(doc)'
  BY <1>2, <1>4, <1>5, <1>7 DEF Describes
<1>9. ASSUME Follows(work', doc) \/ Follows(work', work)
      PROVE  Describes(work)'
  BY <1>2, <1>4, <1>5, <1>9 DEF Describes
<1> QED BY <1>6, <1>7, <1>8, <1>9 DEF Describes

(* What the document says is served was made live, and was made from what  *)
(* the recorded hashes say, after every failure and interruption, when no  *)
(* configuration is a dry run.                                             *)
THEOREM RecordAlwaysMatches ==
  ASSUME \A c \in Configs : ~c.dryRun
  PROVE  Spec => []RecordMatchesServed
<1>1. Init => DeployInv
  <2> SUFFICES ASSUME Init PROVE DeployInv
    OBVIOUS
  <2>1. EndpointInv
    BY EndpointInvInit
  <2> QED BY <2>1 DEF Init, DeployInv, Describes, newState
<1>2. DeployInv /\ [Next]_vars => DeployInv'
  BY EndpointInvStep, DescribesStep, NeverRehearsed DEF DeployInv, EndpointInv
<1>3. DeployInv => RecordMatchesServed
  BY DEF DeployInv, Describes, RecordMatchesServed
<1> QED BY <1>1, <1>2, <1>3, PTL DEF Spec
=============================================================================
