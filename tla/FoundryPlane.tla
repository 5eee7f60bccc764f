---------------------------- MODULE FoundryPlane ----------------------------
(***************************************************************************)
(* The Foundry control plane and the staging container, as the adapter     *)
(* sees them through the foundryClient interface (client.go, client_real.go*)
(* and staging_blob.go).  None of this code is in the repository: the      *)
(* operators below say what each call does to the platform when it is      *)
(* carried out, and which changes the platform makes on its own.           *)
(*                                                                         *)
(* An agent lives at a site, a project and an agent name.  Versions are    *)
(* numbered 1, 2, ... in the order they are created; 0 stands for the      *)
(* empty version string of the code.                                       *)
(***************************************************************************)
EXTENDS Integers, Sequences

CONSTANTS
  Packs,         \* the packs an operator may deploy: [name, text, bytes]
  Configs,       \* the deploy configurations:
                 \*   [project, image, speech, endpoint, container, limit, dryRun]
  LiveProjects,  \* the projects that exist in the account
  MaxVersions,   \* bound on the versions ever created
  None           \* the absent value (an empty string or nil pointer in the code)

ASSUME BoundAssumption == MaxVersions \in Nat \ {0}

ASSUME RequestAssumption ==
  /\ \A p \in Packs : p.bytes \in Nat
  /\ \A c \in Configs : c.limit \in Nat /\ c.speech \in BOOLEAN /\ c.dryRun \in BOOLEAN

VARIABLES
  agents,    \* site -> the hosted agent there
  versions,  \* version number -> the immutable version, once created
  issued,    \* how many versions were created so far
  blobs      \* the URIs of the packs present in the staging containers

planeVars == <<agents, versions, issued, blobs>>

-----------------------------------------------------------------------------
Names    == {p.name : p \in Packs}
Projects == {c.project : c \in Configs}
Sites    == Projects \X Names
Versions == 1 .. MaxVersions

ASSUME NoneAssumption == None \notin Sites \union Names

\* A staged pack is named by its container and its content hash; a pack's hash
\* is the pack itself, since two packs that differ never share one.
URIs == {c.container : c \in Configs} \X Packs

(***************************************************************************)
(* The part of the configuration that hashPlanConfig fingerprints.  image  *)
(* stands for every fingerprinted setting that reaches the container       *)
(* (image, sizing, protocols, idle timeout, tags, observability, tool      *)
(* specs); speech says whether the resolved bindings, also fingerprinted,  *)
(* hold a speech role.                                                     *)
(***************************************************************************)
Fingerprint(c) == [project |-> c.project, image |-> c.image, speech |-> c.speech]
Fingerprints   == {Fingerprint(c) : c \in Configs}

\* What a version is made from: buildAgentSpec.  endpoint stands for the
\* settings that reach the environment without being fingerprinted
\* (azure_endpoint and state_store), uri for PACK_URI.
Specs == [pack : Packs, config : Fingerprints,
          endpoint : {c.endpoint : c \in Configs}, uri : URIs \union {None}]

Statuses == {"none", "creating", "active", "failed", "deleted"}

NoAgent   == [exists |-> FALSE, served |-> 0, granted |-> FALSE]
NoVersion == [site |-> None, spec |-> None, status |-> "none", live |-> FALSE]

PlaneTypeOK ==
  /\ agents \in [Sites -> [exists : BOOLEAN, served : 0 .. MaxVersions, granted : BOOLEAN]]
  /\ versions \in [Versions -> [site : Sites \union {None}, spec : Specs \union {None},
                                status : Statuses, live : BOOLEAN]]
  /\ issued \in 0 .. MaxVersions
  /\ blobs \subseteq URIs

PlaneInit ==
  /\ agents = [s \in Sites |-> NoAgent]
  /\ versions = [v \in Versions |-> NoVersion]
  /\ issued = 0
  /\ blobs = {}

-----------------------------------------------------------------------------
(* What a call does when the platform carries it out.                      *)

\* POST /agents.  A second agent of the same name is a conflict.
CanCreateAgent(s) == s[1] \in LiveProjects /\ ~agents[s].exists

DoCreateAgent(s) ==
  /\ agents' = [agents EXCEPT ![s] = [exists |-> TRUE, served |-> 0, granted |-> FALSE]]
  /\ UNCHANGED <<versions, issued, blobs>>

\* The role assignment belongs to the agent's identity, which lives and dies
\* with the agent.
DoGrant(s) ==
  /\ agents' = [agents EXCEPT ![s].granted = TRUE]
  /\ UNCHANGED <<versions, issued, blobs>>

\* POST /agents/{name}/versions, carried out n times when the HTTP pipeline
\* repeats a request whose first answer it lost.
DoCreateVersions(s, spec, n) ==
  /\ issued + n <= MaxVersions
  /\ issued' = issued + n
  /\ versions' = [v \in Versions |->
       IF v \in issued + 1 .. issued + n
       THEN [site |-> s, spec |-> spec, status |-> "creating", live |-> FALSE]
       ELSE versions[v]]
  /\ UNCHANGED <<agents, blobs>>

\* PATCH /agents/{name}: one rule at full traffic.  live remembers that the
\* endpoint pointed at the version once.
DoSetEndpoint(s, v) ==
  /\ agents' = [agents EXCEPT ![s].served = v]
  /\ versions' = [versions EXCEPT ![v].live = TRUE]
  /\ UNCHANGED <<issued, blobs>>

\* DELETE /agents/{name}?force=true takes the agent's versions with it.
DoDeleteAgent(s) ==
  /\ agents' = [agents EXCEPT ![s] = NoAgent]
  /\ versions' = [v \in Versions |->
       IF versions[v].site = s THEN [versions[v] EXCEPT !.status = "deleted"]
       ELSE versions[v]]
  /\ UNCHANGED <<issued, blobs>>

\* PUT of a block blob: an overwrite writes the same bytes again.
DoStage(uri) ==
  /\ blobs' = blobs \union {uri}
  /\ UNCHANGED <<agents, versions, issued>>

-----------------------------------------------------------------------------
(* What the platform, or someone else working on it, does by itself.       *)

\* Provisioning ends: the image was pulled, or it could not be, or the version
\* is torn down before it ever became active (deleting and deleted are one).
Settle(v, outcome) ==
  /\ versions[v].status = "creating"
  /\ versions' = [versions EXCEPT ![v].status = outcome]
  /\ UNCHANGED <<agents, issued, blobs>>

\* The agent is deleted outside the adapter.
DeleteOutOfBand(s) == agents[s].exists /\ DoDeleteAgent(s)

\* The endpoint is pointed at another active version outside the adapter.
Repoint(s, v) ==
  /\ agents[s].exists
  /\ versions[v].site = s
  /\ versions[v].status = "active"
  /\ agents[s].served # v
  /\ DoSetEndpoint(s, v)

\* A staged pack is removed from its container.
LoseBlob(uri) ==
  /\ uri \in blobs
  /\ blobs' = blobs \ {uri}
  /\ UNCHANGED <<agents, versions, issued>>
=============================================================================
