---------------------------- MODULE AdapterState ----------------------------
(***************************************************************************)
(* The adapter's state document (state.go), the hash and delivery          *)
(* decisions made from a request (hash.go, pack.go, staging.go) and the    *)
(* diff a plan is built from (plan.go): pure functions of a document and a *)
(* request, used by the state machine in FoundryDeploy.                    *)
(*                                                                         *)
(* The unknown fields parseState preserves and the adapter version string  *)
(* take part in no decision and are left out.                              *)
(***************************************************************************)
EXTENDS FoundryPlane

CONSTANT MaxPriorVersions   \* maxPriorVersions, the length of the rollback history

ASSUME HistoryAssumption == MaxPriorVersions \in Nat

-----------------------------------------------------------------------------
(* The document.                                                           *)

InFlights == [version : Versions, packHash : Packs, configHash : Fingerprints]

ASSUME NoFlightAssumption == None \notin InFlights

States ==
  [agentName      : Names \union {None},
   served         : 0 .. MaxVersions,
   prior          : Seq(Versions),              \* newest first
   packHash       : Packs \union {None},
   configHash     : Fingerprints \union {None},
   stagedPackURI  : URIs \union {None},
   inFlight       : InFlights \union {None}]

newState ==
  [agentName |-> None, served |-> 0, prior |-> <<>>, packHash |-> None,
   configHash |-> None, stagedPackURI |-> None, inFlight |-> None]

\* The history with one more entry at its head, cut to its bound.
Remember(v, prior) ==
  SubSeq(<<v>> \o prior, 1, IF Len(prior) < MaxPriorVersions THEN Len(prior) + 1
                                                             ELSE MaxPriorVersions)

\* Promote a version to the served one; the empty version is not remembered.
RememberAlways(state, v) ==
  IF state.served = v THEN state
  ELSE [state EXCEPT !.served = v, !.prior = Remember(state.served, @)]

recordVersion(state, v) ==
  IF state.served = v THEN state
  ELSE [state EXCEPT !.served = v,
                     !.prior = IF state.served = 0 THEN @ ELSE Remember(state.served, @)]

\* What Plan assumes when the recorded agent is found to be gone.
clearedState(state) ==
  [state EXCEPT !.agentName = None, !.served = 0, !.prior = <<>>, !.inFlight = None]

-----------------------------------------------------------------------------
(* What a request means.  A request is [pack, config].                     *)

Requests == [pack : Packs, config : Configs]

SiteOf(r) == <<r.config.project, r.pack.name>>

\* A pack exactly at the limit is still inline.
Inline(r) == r.pack.bytes <= r.config.limit

\* validatePackDelivery: a pack over the limit needs a staging container.
Deliverable(r) == Inline(r) \/ r.config.container # None

stagedPackURI(r) == IF Inline(r) THEN None ELSE <<r.config.container, r.pack>>

\* buildAgentSpec, on the settings the properties tell apart.
buildAgentSpec(r) ==
  [pack |-> r.pack, config |-> Fingerprint(r.config),
   endpoint |-> r.config.endpoint, uri |-> stagedPackURI(r)]

\* Whether an apply must create a version.
versionAlwaysNeeded(state, r) == TRUE
versionNeededOnce(state, r)   == state.served = 0

versionNeeded(state, r) ==
  \/ state.inFlight # None
  \/ state.served = 0
  \/ state.packHash # r.pack
  \/ state.configHash # Fingerprint(r.config)

-----------------------------------------------------------------------------
(* The plan: what buildPlan tells the operator an apply will do.           *)

agentChange(state) == IF state.agentName = None THEN "create" ELSE "no-change"

\* plan.go decides on its own, in versionReason, whether a version is needed.
versionChangeByHash(state, r) ==
  IF state.served = 0 \/ state.packHash # r.pack \/ state.configHash # Fingerprint(r.config)
  THEN "create" ELSE "none"

versionChange(state, r) ==
  IF state.inFlight # None THEN "update"
  ELSE IF state.served = 0 THEN "create"
  ELSE IF state.packHash # r.pack \/ state.configHash # Fingerprint(r.config) THEN "create"
  ELSE "none"

servedVersionChange(state, r) ==
  IF versionChange(state, r) = "none" THEN "none"
  ELSE IF state.served = 0 THEN "create" ELSE "update"

\* told is what the verification of the document had to report beside the diff:
\* the agent is gone (drift), its endpoint was moved, or the check failed.
Reports == {"nothing", "gone", "moved", "unverified"}

buildPlan(state, r, told) ==
  [agent   |-> agentChange(state),
   version |-> versionChange(state, r),
   served  |-> servedVersionChange(state, r),
   stage   |-> ~Inline(r),
   told    |-> told]

Plans == [agent : {"create", "no-change"}, version : {"none", "create", "update"},
          served : {"none", "create", "update"}, stage : BOOLEAN, told : Reports]
=============================================================================
