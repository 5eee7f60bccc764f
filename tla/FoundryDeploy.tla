---------------------------- MODULE FoundryDeploy ----------------------------
(***************************************************************************)
(* The deploy adapter against the control plane: Plan, Apply, Destroy and  *)
(* Status (provider.go, apply.go), every remote call a step of its own.    *)
(*                                                                         *)
(* An operation is one run of the adapter process.  It reads the state     *)
(* document the CLI kept, works on a copy, and hands the copy back when it *)
(* returns; the CLI keeps what it is given and, on an error that comes     *)
(* with an empty state, keeps what it had.  A successful destroy makes the *)
(* CLI drop the document.                                                  *)
(*                                                                         *)
(* Between any two steps the platform moves on, and a disturbance the run  *)
(* allows (Faults) may happen, at most MaxFaults times:                    *)
(*   refuse   a call is answered with an error and not carried out         *)
(*   lose     a call is carried out and its answer lost                    *)
(*   repeat   the pipeline repeats a create whose answer it lost           *)
(*   crash    the adapter process dies                                     *)
(*   environment  the spec cannot be built (the redis URL is unset)        *)
(*   timeout  the adapter stops waiting for a version                      *)
(*   slow     as timeout, without limit                                    *)
(*   fail     provisioning a version fails                                 *)
(*   reap     a version is torn down while it is provisioned               *)
(*   delete, repoint, unblob   someone else deletes the agent, moves the   *)
(*            endpoint, removes a staged pack                              *)
(***************************************************************************)
EXTENDS AdapterState

CONSTANTS
  Faults,       \* the kinds of disturbance allowed
  MaxFaults,    \* bound on disturbances
  MaxChanges,   \* bound on changes of the request
  MaxDestroys   \* bound on destroys

ASSUME FaultAssumption ==
  /\ MaxFaults \in Nat
  /\ MaxChanges \in Nat
  /\ MaxDestroys \in Nat

VARIABLES
  doc,       \* the state document the CLI keeps
  want,      \* the pack and configuration the operator wants deployed
  pc,        \* where the operation in progress stands
  work,      \* the operation's copy of the document
  awaited,   \* the version the operation created and waits for
  calls,     \* the calls the operation had carried out
  promise,   \* the plan shown before the operation
  reply,     \* how the last operation ended
  faults, changes, destroys,  \* what happened so far, against the bounds
  rehearsed  \* history: an apply was rehearsed in a dry run

opVars     == <<pc, work, awaited, calls, promise, reply>>
budgetVars == <<faults, changes, destroys, rehearsed>>
vars       == <<planeVars, doc, want, opVars, budgetVars>>

Steps == {"idle", "stage", "spec", "createAgent", "grant", "createVersion",
          "await", "setEndpoint", "return"}
Calls == {"StageObject", "CreateAgent", "CreateVersion", "SetEndpoint"}

OpTypeOK ==
  /\ doc \in States
  /\ want \in Requests
  /\ pc \in Steps
  /\ work \in States
  /\ awaited \in 0 .. MaxVersions
  /\ calls \subseteq Calls
  /\ promise \in Plans \union {None}
  /\ reply \in {"none", "ok", "error"}

BudgetTypeOK ==
  /\ faults \in 0 .. MaxFaults
  /\ changes \in 0 .. MaxChanges
  /\ destroys \in 0 .. MaxDestroys
  /\ rehearsed \in BOOLEAN

TypeOK == PlaneTypeOK /\ OpTypeOK /\ BudgetTypeOK

Init ==
  /\ PlaneInit
  /\ doc = newState
  /\ want \in Requests
  /\ pc = "idle"
  /\ work = newState
  /\ awaited = 0
  /\ calls = {}
  /\ promise = None
  /\ reply = "none"
  /\ faults = 0 /\ changes = 0 /\ destroys = 0
  /\ rehearsed = FALSE

-----------------------------------------------------------------------------
(* Steps of an operation.                                                  *)

Disturb(kind) ==
  /\ kind \in Faults
  /\ faults < MaxFaults
  /\ faults' = faults + 1
  /\ UNCHANGED <<changes, destroys, rehearsed>>

Calm == UNCHANGED budgetVars

\* The next step, with the copy of the document and the calls made so far.
Go(step, state, made) ==
  /\ pc' = step
  /\ work' = state
  /\ calls' = calls \union made
  /\ UNCHANGED <<doc, want, awaited, promise, reply>>

\* applyAgent returns its copy, whether or not the step that ended it failed.
End(outcome, state, made) ==
  /\ pc' = "return"
  /\ work' = state
  /\ reply' = outcome
  /\ calls' = calls \union made
  /\ UNCHANGED <<doc, want, awaited, promise>>

\* The operation is over and the document is kept.
Idle(outcome, document) ==
  /\ pc' = "idle"
  /\ doc' = document
  /\ reply' = outcome
  /\ work' = newState
  /\ awaited' = 0
  /\ calls' = {}
  /\ promise' = None
  /\ UNCHANGED want

Site == SiteOf(want)

-----------------------------------------------------------------------------
(* What the operation makes of its copy of the document, each with a       *)
(* variant that holds a plausible slip of the code (see README, Mutants).  *)

\* The blob recorded in the document is the one this request would write.
AnyStaged     == doc.stagedPackURI # None
AlreadyStaged == doc.stagedPackURI = stagedPackURI(want)

\* Where the pack is, noted before anything else.
NotedWithHash(state) == [state EXCEPT !.stagedPackURI = stagedPackURI(want), !.packHash = want.pack]
Noted(state)         == [state EXCEPT !.stagedPackURI = stagedPackURI(want)]

\* A version the endpoint may be pointed at.
NotFailed(v) == versions[v].status # "failed"
Servable(v)  == versions[v].status = "active"

\* The awaited version is active: nothing is in flight any more.
LeftInFlight(state)    == state
RecordedEarly(state)   == recordVersion([state EXCEPT !.inFlight = None], awaited)
Settled(state)         == [state EXCEPT !.inFlight = None]

\* The version the endpoint is pointed at.
Serving == awaited

\* What is recorded once the endpoint call was answered.
Served(state) ==
  [recordVersion(state, awaited) EXCEPT !.packHash = want.pack,
                                        !.configHash = Fingerprint(want.config)]

\* ensureAgent and the versionNeeded test that follows it.
AfterAgent(state, made) ==
  IF versionNeeded(state, want) THEN Go("createVersion", state, made)
                                ELSE End("ok", state, made)

-----------------------------------------------------------------------------
(* Plan and Apply.                                                         *)

\* verifiedPriorState: what the lookup of the recorded agent has to report.
\* (The mutated form does not look at the version served.)
Recorded   == <<want.config.project, doc.agentName>>
OnlyLooked == IF agents[Recorded].exists THEN "nothing" ELSE "gone"
Compared   == IF ~agents[Recorded].exists THEN "gone"
              ELSE IF agents[Recorded].served # doc.served THEN "moved" ELSE "nothing"

\* The plans Plan may show.  Nothing recorded is nothing to verify.  A lookup
\* that fails leaves the document as it is, except that a project found missing
\* makes Plan an error.
ShownPlans ==
  IF doc.agentName = None THEN {buildPlan(doc, want, "nothing")}
  ELSE {buildPlan(doc, want, "unverified")} \union
         IF want.config.project \notin LiveProjects THEN {None}
         ELSE {buildPlan(IF Compared = "gone" THEN clearedState(doc) ELSE doc,
                         want, Compared)}

\* Bound: no apply starts that would need a version beyond the last number.
VersionsLeft == issued < MaxVersions \/ ~versionNeeded(doc, want)

\* Plan shows the diff, then Apply reads the document again and starts on it.
\* Apply does not ask what became of the plan.
StartApply ==
  /\ pc = "idle"
  /\ Deliverable(want)
  /\ ~want.config.dryRun
  /\ VersionsLeft
  /\ pc' = IF Inline(want) \/ AlreadyStaged THEN "spec" ELSE "stage"
  /\ work' = doc
  /\ promise' \in ShownPlans
  /\ reply' = "none"
  /\ UNCHANGED <<planeVars, doc, want, awaited, calls>>
  /\ Calm

\* gatherPlanInput rejects the request: nothing is touched.
RejectApply ==
  /\ pc = "idle"
  /\ ~Deliverable(want)
  /\ Idle("error", doc)
  /\ UNCHANGED planeVars
  /\ Calm

\* stagePack uploads the pack; a failure ends Apply with an empty state.
Stage ==
  /\ pc = "stage"
  /\ \/ DoStage(stagedPackURI(want)) /\ Go("spec", work, {"StageObject"}) /\ Calm
     \/ DoStage(stagedPackURI(want)) /\ Idle("error", doc) /\ Disturb("lose")
     \/ UNCHANGED planeVars /\ Idle("error", doc) /\ Disturb("refuse")

\* buildAgentSpec; then applyAgent notes where the pack is and makes sure the
\* agent was created.
BuildSpec ==
  /\ pc = "spec"
  /\ UNCHANGED planeVars
  /\ \/ LET state == Noted(work) IN
        /\ IF state.agentName = None THEN Go("createAgent", state, {})
                                     ELSE AfterAgent(state, {})
        /\ Calm
     \/ Idle("error", doc) /\ Disturb("environment")

\* The name recorded is the one the platform answers with.
CreateAgent ==
  LET state == [work EXCEPT !.agentName = want.pack.name] IN
  /\ pc = "createAgent"
  /\ \/ /\ CanCreateAgent(Site)
        /\ DoCreateAgent(Site)
        /\ \/ /\ IF want.config.speech THEN Go("grant", state, {"CreateAgent"})
                                       ELSE AfterAgent(state, {"CreateAgent"})
              /\ Calm
           \/ End("error", work, {}) /\ Disturb("lose")
     \/ /\ ~CanCreateAgent(Site)
        /\ UNCHANGED planeVars
        /\ End("error", work, {})
        /\ Calm
     \/ UNCHANGED planeVars /\ End("error", work, {}) /\ Disturb("refuse")

\* grantModelAccess: whatever becomes of the role assignment, the deploy goes on.
Grant ==
  /\ pc = "grant"
  /\ AfterAgent(work, {})
  /\ \/ IF agents[Site].exists THEN DoGrant(Site) /\ Calm
                               ELSE UNCHANGED planeVars /\ Calm
     \/ UNCHANGED planeVars /\ Disturb("refuse")

\* CreateVersion up to the answer of the POST, which is addressed to the name
\* derived from the pack, not to the recorded one.
CreateVersion ==
  /\ pc = "createVersion"
  /\ \/ /\ agents[Site].exists
        /\ \/ /\ DoCreateVersions(Site, buildAgentSpec(want), 1)
              /\ awaited' = issued + 1
              /\ Calm
           \/ /\ DoCreateVersions(Site, buildAgentSpec(want), 2)
              /\ awaited' = issued + 2
              /\ Disturb("repeat")
        /\ pc' = "await"
        /\ calls' = calls \union {"CreateVersion"}
        /\ UNCHANGED <<doc, want, work, promise, reply>>
     \/ /\ agents[Site].exists
        /\ DoCreateVersions(Site, buildAgentSpec(want), 1)
        /\ End("error", work, {})
        /\ Disturb("lose")
     \/ ~agents[Site].exists /\ UNCHANGED planeVars /\ End("error", work, {}) /\ Calm
     \/ UNCHANGED planeVars /\ End("error", work, {}) /\ Disturb("refuse")

\* awaitVersion: the polling loop, left once the version settled.  Reading
\* "creating" again changes nothing.  A version torn down instead is returned
\* without an error and recorded as in flight.
Await ==
  /\ pc = "await"
  /\ UNCHANGED planeVars
  /\ Calm
  /\ \/ /\ Servable(awaited)
        /\ Go("setEndpoint", Settled(work), {})
     \/ /\ versions[awaited].status = "failed"
        /\ End("error", work, {})
     \/ /\ versions[awaited].status = "deleted"
        /\ End("ok", [work EXCEPT !.inFlight =
             [version |-> awaited, packHash |-> want.pack,
              configHash |-> Fingerprint(want.config)]], {})
     \/ /\ versions[awaited].status = "deleted"
        /\ ~agents[Site].exists    \* the poll is answered with a 404
        /\ End("error", work, {})

\* The deadline passed while the version was still being created, or a poll
\* failed: the copy goes back as it was before the version was created.
GiveUpOnError ==
  /\ pc = "await"
  /\ UNCHANGED planeVars
  /\ End("error", work, {})
  /\ Disturb("refuse")

GiveUp ==
  /\ pc = "await"
  /\ UNCHANGED planeVars
  /\ End("error", work, {})
  /\ \/ versions[awaited].status = "creating" /\ Disturb("timeout")
     \/ versions[awaited].status = "creating" /\ "slow" \in Faults /\ Calm
     \/ Disturb("refuse")

\* SetEndpoint, and once it is answered the record of what is served.
SetEndpoint ==
  /\ pc = "setEndpoint"
  /\ \/ /\ agents[Site].exists
        /\ DoSetEndpoint(Site, Serving)
        /\ \/ End("ok", Served(work), {"SetEndpoint"}) /\ Calm
           \/ End("error", work, {}) /\ Disturb("lose")
     \/ ~agents[Site].exists /\ UNCHANGED planeVars /\ End("error", work, {}) /\ Calm
     \/ UNCHANGED planeVars /\ End("error", work, {}) /\ Disturb("refuse")

\* Apply returns and the CLI keeps the document it was handed.
ReturnIfOk ==
  /\ pc = "return"
  /\ Idle(reply, IF reply = "ok" THEN work ELSE doc)
  /\ UNCHANGED planeVars
  /\ Calm

Return ==
  /\ pc = "return"
  /\ Idle(reply, work)
  /\ UNCHANGED planeVars
  /\ Calm

\* The adapter process dies: the CLI keeps the document it had.
Crash ==
  /\ pc # "idle"
  /\ Idle("error", doc)
  /\ UNCHANGED planeVars
  /\ Disturb("crash")

-----------------------------------------------------------------------------
(* Apply in a dry run: the whole sequence against a simulated plane that   *)
(* is empty when the operation starts (newDryRunClient).  Nothing can fail *)
(* on it but the endpoint of an agent it never saw created, and its first  *)
(* version is numbered 1.  The CLI keeps the document it returns.          *)
DryRunAlwaysServes ==
  /\ pc = "idle"
  /\ Deliverable(want)
  /\ want.config.dryRun
  /\ Idle("ok", recordVersion(doc, 1))
  /\ UNCHANGED <<planeVars, faults, changes, destroys>>
  /\ rehearsed' = TRUE

DryRunApply ==
  LET prior   == Noted(doc)
      created == prior.agentName = None
      state   == IF created THEN [prior EXCEPT !.agentName = want.pack.name] ELSE prior
  IN
  /\ pc = "idle"
  /\ Deliverable(want)
  /\ want.config.dryRun
  /\ \/ ~versionNeeded(state, want) /\ Idle("ok", state)
     \/ /\ versionNeeded(state, want)
        /\ created
        /\ Idle("ok", [recordVersion([state EXCEPT !.inFlight = None], 1) EXCEPT
                         !.packHash = want.pack, !.configHash = Fingerprint(want.config)])
     \/ /\ versionNeeded(state, want)
        /\ ~created
        /\ Idle("error", [state EXCEPT !.inFlight = None])
  /\ UNCHANGED <<planeVars, faults, changes, destroys>>
  /\ rehearsed' = TRUE

-----------------------------------------------------------------------------
(* Destroy: one call, addressed to the recorded agent in the configured    *)
(* project.  Any 404 counts as gone.  A dry run deletes from its empty     *)
(* simulation and succeeds, so that the CLI drops the document.            *)
Destroy ==
  LET s == <<want.config.project, doc.agentName>> IN
  /\ pc = "idle"
  /\ destroys < MaxDestroys
  /\ destroys' = destroys + 1
  /\ UNCHANGED <<changes, rehearsed>>
  /\ \/ /\ doc.agentName = None \/ want.config.dryRun
        /\ UNCHANGED <<planeVars, faults>>
        /\ Idle("ok", newState)
     \/ /\ doc.agentName # None /\ ~want.config.dryRun
        /\ \/ /\ IF agents[s].exists THEN DoDeleteAgent(s) ELSE UNCHANGED planeVars
              /\ UNCHANGED faults
              /\ Idle("ok", newState)
           \/ /\ agents[s].exists /\ DoDeleteAgent(s)
              /\ "lose" \in Faults /\ faults < MaxFaults /\ faults' = faults + 1
              /\ Idle("error", doc)
           \/ /\ UNCHANGED planeVars
              /\ "refuse" \in Faults /\ faults < MaxFaults /\ faults' = faults + 1
              /\ Idle("error", doc)

\* Status reads the plane and changes nothing: deploymentStatus.
deploymentStatus ==
  LET s == <<want.config.project, doc.agentName>> IN
  IF doc.agentName = None THEN "not_deployed"
  ELSE IF ~agents[s].exists THEN "not_deployed"
  ELSE IF agents[s].served = 0 \/ doc.inFlight # None THEN "degraded"
  ELSE "deployed"

-----------------------------------------------------------------------------
(* The operator and the platform.                                          *)

\* The pack or the configuration is edited between two operations.
ChangeMind ==
  /\ pc = "idle"
  /\ changes < MaxChanges
  /\ changes' = changes + 1
  /\ want' \in Requests \ {want}
  /\ UNCHANGED <<planeVars, doc, opVars, faults, destroys, rehearsed>>

Activate ==
  /\ \E v \in 1 .. issued : Settle(v, "active")
  /\ UNCHANGED <<doc, want, opVars>>
  /\ Calm

Disturbance ==
  /\ UNCHANGED <<doc, want, opVars>>
  /\ \/ \E v \in 1 .. issued : Settle(v, "failed") /\ Disturb("fail")
     \/ \E v \in 1 .. issued : Settle(v, "deleted") /\ Disturb("reap")
     \/ \E s \in Sites : DeleteOutOfBand(s) /\ Disturb("delete")
     \/ \E s \in Sites : \E v \in 1 .. issued : Repoint(s, v) /\ Disturb("repoint")
     \/ \E uri \in blobs : LoseBlob(uri) /\ Disturb("unblob")

-----------------------------------------------------------------------------
\* What the adapter does once an operation started.
Advance ==
  \/ Stage \/ BuildSpec \/ CreateAgent \/ Grant \/ CreateVersion
  \/ Await \/ GiveUp \/ SetEndpoint \/ Return

Next ==
  \/ StartApply \/ RejectApply \/ Advance \/ Crash
  \/ DryRunApply \/ Destroy
  \/ ChangeMind \/ Activate \/ Disturbance

Spec == Init /\ [][Next]_vars

\* The adapter does not stop in the middle of an operation by itself; the wait
\* for a version ends because its deadline is a clock's.
AdapterFairness == WF_vars(Advance)

\* The platform settles every version and the operator keeps applying.
WorldFairness == WF_vars(Activate) /\ WF_vars(StartApply)

FairSpec     == Spec /\ AdapterFairness
DiligentSpec == FairSpec /\ WorldFairness
=============================================================================
