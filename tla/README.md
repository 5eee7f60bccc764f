# A TLA+ model of promptarena-deploy-foundry

This directory holds the formal model of the Foundry deploy adapter
(`src/internal/foundry`) and of the container runtime it deploys
(`src/cmd/foundry-runtime`): TLA+ modules, TLC configurations that model-check
them on small instances, and TLAPS proofs of their safety for every instance.
`PROJECT.json` maps every definition to the source lines it stands for, and
lists the runs, the hazards and the theorems.

## The system

A **deploy** takes a compiled PromptPack and makes it answer requests on Azure
AI Foundry. Two programs take part; they share no code and meet only in the
environment variables of a container.

**The adapter** is a plugin process the CLI starts for one operation: plan,
apply, destroy or status. It gets a request (pack, deploy configuration, arena
configuration) and the *state document* an earlier operation returned, makes
REST calls to the Foundry control plane, and returns a new state document. The
CLI keeps the document; the adapter itself persists nothing. The only
coordination between two operations is that document and the platform's own
state.

**The runtime** is the server in the container. It reads pack, bindings, tool
specs and store settings from its environment, opens PromptKit conversations
for its callers, and serves `POST /invocations` (unary or as an SSE stream),
`GET /readiness` and, for packs with speech, the WebSocket `/invocations_ws`.

### Components, their state and what makes each of them right

| component | state and operations | what makes it right |
|---|---|---|
| Deploy operations (`apply.go`, `provider.go`) | a copy of the document; stage, create agent, grant, create version, await, set endpoint, return | the endpoint only leads to active versions; the record follows the endpoint and never leads it; what a failed or interrupted apply leaves behind is found again; versions are not created for nothing |
| Control-plane client (`client.go`, `client_real.go`, `errors.go`) | none; one method per REST call, the polling loop of `CreateVersion` | the loop ends; what a call returns is true however often its request was sent; a missing agent is told from a missing project |
| State document (`state.go`) | agent name, served version, rollback history, hashes, staged URI, in-flight version | the history is bounded, newest first and only names versions one can go back to |
| Plan (`plan.go`, `hash.go`) | none; the diff of document and request | an apply does what its plan said |
| Delivery (`pack.go`, `staging.go`, `staging_blob.go`) | the blobs in a container | a version that reads its pack from a blob finds it |
| Dry-run client (`client_dryrun.go`) | a simulation, empty at each operation | nothing changes on the platform, and no apply changes what is recorded as served |
| Configuration, bindings, arena (`config.go`, `bindings.go`, `resolve.go`, `arena.go`) | none | what is accepted can be served, by the model that was configured and with the tools that were defined |
| Spec, environment, diagnostics (`versions.go`, `endpoint.go`, `diagnostics.go`) | none | what the container needs reaches it; what it will not do is warned about |
| Grant (`identity.go`) | role assignments; list the subscriptions, search each, assign | speech that is served may be used, and the operator learns whether it may |
| Names and tags (`tags.go`) | none | a legal agent name for every pack, with its id's letters and digits |
| Plugin shell (`main.go`, `schema.go`, `version.go`) | none | - |
| Requests (`handlers.go`, `turn.go`) | per request: handler goroutine, producer goroutine, two channels, a conversation | the caller hears the model's text whole and in order and learns how the turn ended; nothing leaks when the caller goes; conversations do not mix |
| Server (`server.go`, `main.go`) | serving, draining, flushing | a complete shutdown cut nothing; the process exits |
| Voice (`ws_voice.go`, `audio.go`) | per call: inbound goroutine, response pump, writer mutex | one writer at a time, output in order, no circle of waiting, everything ends with the call |
| Start (`config.go`, `pack.go`, `agent.go`, `providers.go`, `toolspecs.go`, `sessionstore.go`, `otel.go`) | what was built so far | what was configured is what runs, over text with its tools and its store |

### Where it is hard

* Each remote call of an apply can fail, can be carried out with its answer
  lost, or can be repeated; the process can die between any two; the platform
  settles versions meanwhile, and others work on the same project.
* The document is a cache of the platform. It is read at the start of an
  operation, used at its end, and also written by dry runs.
* Plan and apply decide separately from different inputs (a verified document
  and the unverified one).
* In the runtime, goroutines hand over text through an unbuffered channel while
  contexts are canceled, callers stall or leave, and a shutdown goes on.
* A voice call has two writers on a connection made for one, and a possible
  circle: caller's audio - conversation - pump - caller who does not read.
* What one program accepts, another has to understand.
* A request is repeated by the pipeline although it was carried out: a conflict
  may be one's own agent, a missing agent one's own delete. A 404 may mean the
  agent, the version or the project, and says so in words.

`PROJECT.json` lists these as hazards, each at its line with the properties that
would catch it going wrong.

## Modules

```
FoundryPlane       the control plane and the staging container (external)
  AdapterState     document, hashes, delivery, plan: pure functions
    FoundryDeploy  the adapter's operations, every remote call a step
      DeployProperties         properties, the inductive invariants;
                               refinement of EndpointPromise
        MCFoundryDeploy        instances for TLC
        FoundryDeployProofs    types, endpoint, what the record says
          DeployRecordProofs   history, in-flight version, EndpointPromise
          DeployCostProofs     staged packs, number of versions
          DeployPlanProofs     plan, dry run, record between operations
EndpointPromise    the abstract specification of endpoints and record

AgentWire          the pipeline and the platform behind one agent (external)
  AgentCalls       each call of the adapter, request by request; the grant
    CallProperties - MCAgentCalls, AgentCallsProofs

AgentName          the fold of a pack's id
  ContainerStart   one deployment from request to served routes
    StartProperties - MCContainerStart, ContainerStartProofs

InvocationStream   a request's two goroutines, its conversation, its caller
  RuntimeServer    the server around requests: drain, flush, exit
    RuntimeProperties          properties, the inductive invariant;
                               refinement of TurnPromise
      MCRuntimeServer          instances for TLC
      RuntimeServerProofs      proofs of the safety properties and the
                               refinement
TurnPromise        the abstract specification of a turn

VoiceSession       one call over the WebSocket
  VoiceProperties - MCVoiceSession, VoiceSessionProofs
```

Indentation is EXTENDS. The modules read like the code they stand for: names of
functions are kept (`versionNeeded`, `recordVersion`, `buildPlan`,
`primaryBinding`, `conversationKey`, ...), a definition that stands for a
platform or library is marked external in the map.

**Mutants.** Next to some definitions stands a variant that holds a plausible
slip of the code (`ReturnIfOk` beside `Return`, `CutOnly` beside `Cut`, ...). No
specification uses them. Each is put in place of its definition to see that a
property notices; `PROJECT.json` pairs them.

### The deployment: FoundryPlane, AdapterState, FoundryDeploy

The plane holds the agents (per project and name: does it exist, the served
version, was model access granted), the versions, how many were issued, and the
blobs. Versions are numbered in the order they are created; 0 is the empty
version string. A pack's hash is the pack itself: distinct packs have distinct
SHA-256 hashes. Of the configuration, `image` stands for every fingerprinted
setting, `endpoint` for those that reach the container without being
fingerprinted, `speech` for bindings with a speech role.

An operation is a run of the adapter, followed by `pc`: `stage`, `spec`,
`createAgent`, `grant`, `createVersion`, `await`, `setEndpoint`, `return`.
`work` is `applyAgent`'s copy of the document, `doc` what the CLI keeps. The
CLI, which is not in the repository, keeps the state it is given, keeps the old
document when the state is empty, and drops it after a successful destroy. One
operation runs at a time; the request changes only between operations. Reading
"creating" in the polling loop again is a stutter. A dry run is one action:
nothing else can see its simulation. What a plan tells the operator of the
endpoint (`Reports`: nothing, gone, unverified, moved) is kept with the plan, so
that a plan that shows no change can be held against the platform. `rehearsed`
is history: an apply was rehearsed in a dry run, after which the document speaks
of what never happened.

`Faults` says which disturbances a run allows, `MaxFaults` how many: a call
refused, its answer lost, a create repeated by the pipeline, a crash, a deadline
that passes, provisioning that fails or is torn down, and other people deleting
an agent, moving an endpoint, removing a blob. Every call returns in the end
(the pipeline's own retry and timeout); a call that hangs is a lost one.

### The abstract specification: EndpointPromise

What a deployment promises whatever happens to its calls: an endpoint only moves
to a version that never was live and is newer than all that were; the record of
what is served only moves to a version that was made live. `DeployProperties`
maps endpoints, record and the versions that were ever live to it, and
`PromiseKept` is checked as a refinement.

### Calls and grant: AgentWire, AgentCalls

`FoundryDeploy` takes a call as one step. `AgentCalls` opens it up for one agent
name: the client sends a request, the pipeline sends it again up to `MaxTries`
times when its answer is lost or asks for patience, the platform carries out
every copy that arrives, and others create traffic rules, talk to the agent,
delete it or grant it the role meanwhile. What the client concludes (`ok`,
`absent`, `no project`, `error`) is translated from `client_real.go`, with the
envelope of a 404, its code and its words as three separate things, for the code
decides before the words. A voice agent's creation goes on to the search of
`identity.go`: subscriptions in the listed order, those that cannot be read
skipped, the first account of the name taken, the assignment written under a
derived name so that a repeat meets itself. Without a client for the grant
(`granter`, chosen at the start: building one may fail) nothing is searched and
nothing said. `seen` and `did` are history: what was there when the last answer
was given, and what the call under way did.

### Requests and server: InvocationStream, RuntimeServer

A unary request runs its turn on the handler's goroutine, a streaming one on a
producer's. `ReceivePiece` is the rendezvous on the unbuffered channel; `errCh`
has room for one error; closing both is one step (`ReportTurn`), since the
handler can see neither before both are closed. A stream ends as `writeSSE` ends
it: after an error event it still sends `[DONE]` (`SendDone`), so that `[DONE]`
alone means a turn that went well. The conversation is the SDK's:
it may say pieces, end or fail at any time, and is assumed to end only once its
context is canceled. Histories are loaded when a conversation opens and saved
when its turn ends. Callers may stall, read on or leave. The server drains,
flushes and exits; after the exit nothing of the process moves. A second request
that names no conversation, in a sandbox without a session, is the stateless
case.

### The abstract specification: TurnPromise

A turn without goroutines, channels and connections: it is asked, the model says
pieces and ends or fails, the caller hears the pieces in their order and is then
told once, truly, how it ended. Nothing contradicts that afterwards: only the
`[DONE]` of a stream that failed may still follow (`Terminate`). A refused turn
never reached the model.
`RuntimeProperties` maps the handlers, producers and conversations to it, and
`TurnKept` is checked and proved as a refinement.

### Voice: VoiceSession

The two goroutines, the frames each is about to write, the set of goroutines
inside `write`, and the library's rule that a failed write or a close frame makes
every later write fail. A conversation takes no input while `Backlog` chunks of
output wait: this back-pressure is what could make a circle.

### Start: AgentName, ContainerStart

One behaviour is one deployment in one sandbox: validate (optional, since
planning does not require it), plan, name, spec, then the runtime's steps in the
order of `run`, the loading of the pack included: the adapter reads a few fields
of it (`packView`), PromptKit all of them, so that a pack the one accepts may
not load in the other (`loads`). What a conversation has depends on its route
(`conversation`): over `/invocations` the tools and the store, over
`/invocations_ws` neither. Requests and sandboxes are chosen in `Init`;
everything after it is determined. Properties relate the request to what the
*other* program made of it. A setting whose check is a comparison with a
constant is either in order or one of the configuration's `flaws`.

`AgentName` folds the pack's id rune by rune, as the loop does, then repairs the
result: trims, falls back, puts a letter before a digit, cuts. A rune is what the
loop tells apart: small letter, capital, digit, separator, other.

Tools are followed to what a call of them is answered with: the two sources
merged by the adapter, one document in the environment, and in the runtime a
mock's template, its result, or an error, or the live tool's address. Traces go
out when the configuration asks for them and there is a collector, its own or
the sandbox's.

## Runs

| run | instance | shows |
|---|---|---|
| `deploy_faults` | one agent, three packs (one inline, two staged), 2 changes, 1 destroy, 2 disturbances of 9 kinds; 1.04 million states | `EndpointActive`, `RecordMatchesServed`, `RecordUsable`, `StagedPackPresent`, `BillingBound`, and the refinement `PromiseKept` |
| `deploy_partial` | 3 changes, a request that is rejected, 2 failing steps, every call answered | `RecordHonest` (nothing orphaned, record and endpoint agree, Status tells the truth), `PlanHonoured` |
| `deploy_drift` | four configurations: plain, dry run, a missing project, another model endpoint alone; two agent names, 2 changes, 1 destroy, 1 disturbance by failures or other people, a platform that may never settle a version; 318 thousand states | `QuietPlanTrue`, `DryRunKeepsRecord`, `Termination` |
| `deploy_converge` | fair platform and operator, 3 disturbances | `Convergence` |
| `agent_calls` | five calls, each sent up to three times, 3 refusals or losses, 2 deeds of others, with and without a client for the grant; 2.4 million states | `AnswersTrue`, `GrantTold` |
| `runtime_requests` | two requests, two pieces of text, a shutdown at any time; 242 thousand states | `StreamFaithful`, `OutcomeTold`, `HistoryKept`, `CleanExit`, `TracesKept`, the refinement `TurnKept`, `AbandonedTurnEnds`, `TurnAnswered`, `ServerExits` |
| `voice_session` | one call, two chunks, room for one; 101 thousand states | `OneWriter`, `HeardInOrder`, `FailureExplained`, `Listening`, `HangUpEnds` |
| `container_start` | 17104 starts: requests and sandboxes, from validating and from planning, and every id of up to four runes; 230 thousand states | `AcceptedServes`, `ModelAsConfigured`, `RemembersAsConfigured`, `RoutesWork`, `ToolsArrive`, `NameLegal`, `NameKeepsId` |
| `says_inflight_recorded`, `says_drift_repaired`, `says_speech_granted`, `says_staged_is_there` | as small as shows it | refuted: see below |

### Bounds, and why they are enough

* `MaxVersions` is at least `1 + MaxChanges + MaxDestroys + MaxFaults` in
  `deploy_faults`, `deploy_partial` and `deploy_converge`, the number
  `BillingBound` allows, so it never cuts a behaviour short while that invariant
  holds. `deploy_drift` has dry runs and a platform that dawdles, which take that
  bound away; there `VersionsLeft` may stop the operator, which is why it does
  not check for deadlock.
* `MaxPriorVersions` is 1 or 2 (20 in the code): the history overflows within
  the changes allowed, which is the case of interest.
* Two disturbances are enough for one that leaves something behind and one that
  strikes the recovery. Three versions after each other are enough for served,
  prior and cut.
* Three sends of one request let the first be carried out unanswered and the
  second be refused; five calls are a whole apply and what follows it; two
  identities and three versions let an agent be deleted and created again.
  The subscriptions are one that can be read without the account, one that
  cannot be read, and one with it.
* Two pieces of text show loss, doubling, reordering and an error between them;
  two chunks and a backlog of one show the circle and every split of a chunk.
  Two requests are enough for one turn to see another's history.
* `container_start` varies two aspects of a plain deployment at a time, all
  pairs of the aspects that meet in one step. A name limit of 5 (63 in the code)
  lets ids of six runes show every way a cut can go.

### Deadlock

Checked in `deploy_faults`, `deploy_partial`, `deploy_converge` and the refuted
runs. `deploy_drift` stops at its bound; in `agent_calls` the calls are used up;
in `runtime_requests`, `voice_session` and `container_start` the system really
stops: the process exits, the call ends, the container serves or has exited.

### Fairness, and why the code justifies it

* `AdapterFairness`, weak fairness of the operation's next step: the adapter is
  sequential code whose calls return; the await ends because its deadline is a
  clock's.
* `WorldFairness`, only for `Convergence`: the platform settles every version,
  and the operator keeps applying. Changes and disturbances are bounded, not
  fair.
* Runtime: weak fairness for each goroutine that can move (the Go scheduler),
  for noticing a dropped connection (net/http reads in the background), for the
  drain and the flush (both have deadlines). The SDK is fair only once its
  context is canceled. Nothing is assumed of callers.
* Voice: as above; strong fairness for entering the lock, since `sync.Mutex`
  hands over to a waiter it has starved for a millisecond; a stalled write ends
  by its deadline. A conversation that is full is *not* assumed to refuse.

## What the checks show

The deployment keeps its endpoint promise under every combination of failures,
losses, repeats and crashes the instances allow. What it does not do is recover
everything by itself: `Convergence` holds with the exception it states
(`Stranded`). An agent whose creation was never recorded blocks every later
create as a conflict; nothing in the code adopts it. `RecordHonest` therefore is
claimed only while calls are answered and the process lives. A moved endpoint is
not put back either, but it is never hidden: `QuietPlanTrue` says that a plan
which shows nothing and warns of nothing is shown only where the endpoint leads
to a version made from the pack and the fingerprinted settings asked for. It says
nothing of `azure_endpoint` and `state_store`, which are not fingerprinted:
`deploy_drift` has a plan that is quiet after the endpoint alone was changed. And
it ends with the first apply that is rehearsed in a dry run.

A call's answer is true under every repetition the pipeline can make
(`AnswersTrue`): the client reads a creation's conflict as an error and never as
success (only a conflict about the role assignment, whose name is derived, is
one), and takes a 404 for an absence only when neither the code nor the words
speak of the project.

### Where the repository says one thing and the code does another

Each of these has a run and a finding:

* **A version that outlasts the deadline is forgotten.** `client_real.go:296`
  says it is "real and recorded, so apply keeps it as in-flight". `applyAgent`
  returns on the error that comes with it, before it looks at the version
  (`says_inflight_recorded`).
* **A deleted agent is planned as a create and never created.** The plan uses
  the verified document, the apply the unverified one, and ends with "Already up
  to date" (`says_drift_repaired`).
* **Speech added to an existing agent is not granted.** The grant hangs on the
  creation of the agent (`says_speech_granted`).
* **A dry run makes the real apply skip its upload.** The simulated staging is
  recorded in the document like a real one (`says_staged_is_there`).

Met while reading, visible in the models, and not given a run of their own:

* Destroy takes a missing project for a deleted agent and drops the document
  (`client_real.go:453`), although the client can tell the two apart.
* A dry run's document is kept like a real one: the first real apply after a
  dry run of a new agent finds a recorded name and does not create it.
* `dry-run.md:56` and `client_dryrun.go:11` have a dry run exercise the whole
  apply and return what a real one would. The simulation knows no recorded agent,
  so a dry-run apply over a deployment ends with the refusal of its endpoint as
  soon as a version is needed. A dry-run destroy succeeds, and the document of a
  running agent is gone (`apply.go:282`). `DryRunKeepsRecord` states both as what
  the code does.
* A pack over the inline limit is staged and its URI handed to the container,
  which cannot read it (`pack.go:54` of the runtime) and exits.
* The adapter reads a narrow view of the pack (`pack.go:34`); one with a field of
  the wrong shape elsewhere is accepted, and its container stops at
  `prompt.LoadPack` (`main.go:37` of the runtime).
* A pack with several prompts and no entry is accepted; its container exits
  (`agent.go:26`).
* A tool manifest whose fields have the wrong types passes `parseToolManifest`,
  which promises that "a single malformed tool file cannot block the deploy"
  (`arena.go:122`), and stops the container at `parseToolSpecs`.
* `diagnoseProtocols` warns that the image does not serve `invocations_ws`,
  which it does with both halves of speech bound.
* `validateStateStore` accepts a redis URL that does not parse; the agent then
  serves and forgets.
* The warning of `bindings.go:112` and `:134` names the lexicographically first
  binding as primary; both programs take the first in the list
  (`resolve.go:71`, `providers.go:74`). `ModelAsConfigured` holds the
  announcement to lists in name order.
* `hash.go:23` says that fields absent from the fingerprint are deliberately not
  deployed state, and `resource-types.md:41` and `resource-lifecycle.md:40` that
  the hash covers everything that becomes part of a version; `azure_endpoint` and
  `state_store` are absent and reach the container (`versions.go:94`, `:101`). A
  change of these alone is planned as no change.
* `provider.go:31` says that a failure to build the role granter is reported;
  `apply.go:204` returns silently when there is none.
* `identity.go:114` says that the account is in no subscription the identity can
  read; only the first page was searched, and a subscription whose listing
  failed for any reason was skipped.
* A 404 whose body does not parse is read as a missing agent, a gateway's or a
  proxy's included (`client_real.go:493`).
* A caller who does not read for `wsWriteTimeout` loses the writing side of the
  call for good while the session goes on.
* `ws_voice.go:100`, `audio.go:153` and `configure.md:141` say that a pack behaves
  identically over voice and text. The voice handler is given neither the tool
  specs nor the session store (`main.go:76`, `ws_voice.go:91`): over voice no tool
  can be called and no conversation is kept in the configured store.
* After the error event of a failed stream `writeSSE` goes on to send `[DONE]`
  (`handlers.go:184`).
* The response pump starts before the ready event is written
  (`ws_voice.go:146`); output may precede it.
* Shutdown does not wait for hijacked connections (`server.go:38`): voice calls
  in progress are cut when the process exits.

`AcceptedServes`, `RemembersAsConfigured` and the other start properties name
such cases as their exceptions; everything else is claimed.

## Proofs

Every theorem holds for every value of the constants that the named ASSUMEs of
the modules allow (bounds, sizes and limits are numbers, `None` is none of the
things it stands beside) and for every number of disturbances. Further
assumptions stand in the theorem.

| module | theorem | besides the ASSUMEs |
|---|---|---|
| `FoundryDeployProofs` | `TypeCorrect`; `EndpointAlwaysActive` | |
| | `RecordAlwaysMatches` | no dry run |
| `DeployRecordProofs` | `RecordAlwaysUsable`; `DeployKeepsPromise`, the refinement of `EndpointPromise` | no dry run; nobody else moves an endpoint |
| `DeployCostProofs` | `StagedPackAlwaysPresent` | no dry run; nobody removes a staged pack |
| | `BillingAlwaysBounded` | no dry run; every deadline that passes is counted |
| `DeployPlanProofs` | `PlanHonouredUnlessGone`; `QuietPlanAlwaysTrue`; `DryRunAlwaysKeepsRecord` | |
| | `PlanAlwaysHonoured` | one project; no dry run; no answer is lost; nobody else deletes an agent |
| | `RecordAlwaysHonest` | one project; no dry run; no answer is lost; the process lives; nobody else moves an endpoint |
| `AgentCallsProofs` | `CallsTypeCorrect`, `AnswersAlwaysTrue`, `GrantAlwaysTold` | |
| `ContainerStartProofs` | `NameAlwaysLegal`, `NameAlwaysKeepsId`: ids of any length | |
| | `StartTypeCorrect`, `AcceptedAlwaysServes`, `ModelAlwaysAsConfigured`, `AlwaysRemembersAsConfigured`, `RoutesAlwaysWork`, `ToolsAlwaysArrive`: bindings, prompts, tools and files of any number | |
| `RuntimeServerProofs` | `RequestsTypeCorrect`, `StreamAlwaysFaithful`, `OutcomeAlwaysTold`, `HistoryAlwaysKept`, `CompleteExitIsClean`, `TracesAlwaysKept`; `RuntimeKeepsPromise`, the refinement of `TurnPromise` | |
| `VoiceSessionProofs` | `VoiceTypeCorrect`, `AlwaysOneWriter`, `AlwaysHeardInOrder`, `FailureAlwaysExplained` | |

The assumptions on disturbances leave out what the code does not recover from:
`says_staged_is_there` shows what a dry run does to a staged pack,
`says_drift_repaired` what a deleted agent does to a plan, and an answer that is
lost may leave an agent the document does not know. Each theorem allows at least
the disturbances of the run that checks its property, and some allow more:
`RecordAlwaysHonest` lets others delete agents. Dry runs are otherwise the
business of `deploy_drift`. None of these properties is inductive by itself; the
strengthening of each stands at the end of its properties module.

**Endpoint and record** (`EndpointInv`, `DeployInv`). The step that moves the
endpoint relies on the awaited version being active, and on its being a version
of the agent that is patched. `EndpointInv` adds what makes it so: the awaited
version is the operation's own, made from its request (`AwaitedOwn`); once seen
active it stays so unless the agent goes, with the agent's endpoint
(`AwaitedActive`); no version exists beyond the last one issued (`Unissued`), so
that a new number never belongs to anything; only a pack over the limit is
staged (`Staging`). Most of the work is done once: `PlaneMoves` shows that every
step changes the plane in one of a few ways, and `VersionsStable` what such a
change leaves alone; the actions are then taken one by one only where they touch
`pc` and `awaited`. `DeployInv` adds that the kept document and the operation's
copy both describe the version they name (`Describes`), from `RecordMoves`,
which says how a document may change in a step.

**History and promise** (`RecordInv`). Newness is the key: nothing newer than
the version an operation waits for was ever live (`AwaitedNewest`), because
versions are issued in order and only an awaited one is made live. Both
documents are `Sound`: what they served can be served again, the history falls
strictly, the version in flight is newer than the served one and not live. The
copy is ahead of the document by one `SetEndpoint` at most (`CopyInv`), which is
what makes the return of an apply a step of the abstract `Record` or none.

**Cost** (`PackInv`, `BillInv`). What any document, copy or version says is
staged is there. A version is owed when the request asks for one that is not
there (`Owed`); while one is owed, fewer versions were issued than there are
excuses, so that creating it keeps the bound. Each step that makes one owed (a
change, a destroy, a disturbance) adds an excuse.

**Plan** (`PlanInv`, `PresentInv`). Plan and apply decide by different code on
different documents: `buildPlan` on the verified one, the operation on `doc`,
step by step, with a copy it changes meanwhile. `PlanShown` says that the plan
is one of the same document unless the agent was found gone, `CallsInv` what has
been called so far compared with what the document called for, each decision
from the step that takes it to the return. With one project and nobody deleting
agents, what a document names is there (`Present`), so that no plan finds it
gone. Without that, the exception remains, and nothing else:
`PlanHonouredUnlessGone` needs no assumption at all.

**What is shown and what is there** (`UnrehearsedInv`, `NeverHalfDry`,
`HonestInv`). A quiet plan compares the document with the request and asks the
platform for the endpoint; that what it finds is a version of what was asked for
needs, for as long as no apply was rehearsed, `DeployInv`, that a document
without an agent's name speaks of no version (`Nameless`), and that a version
lives where the request it was made from says (`SpecSite`), for two
configurations may name different projects. A dry run is one step that begins
and ends at rest (`NeverHalfDry`), and what it returns is followed through the
simulation case by case: an apply over a recorded agent that needs a version
ends at the endpoint, before anything is recorded. `RecordHonest` speaks of the
time between operations, and is kept during one by whoever knows of the
deployment then: `Kept` is the copy while an operation runs and the document
otherwise, and every agent there is has the name and the served version it
keeps.

**Calls** (`CallInv`). An answer means something for the call it is handed to
(`AnswerMeans`): a 404 carries the words of the project exactly when there is
none, a success stands for a deed in `did`. `ResultMeans` is the property itself,
also while a creation goes on to its grant.

**Grant** (`GrantInv`, with the types). The search of the subscriptions is an
account of them: each one listed is still to be searched, or held no account of
the name, or something was refused or lost (`Searched`), which is what "not
found" means when nothing is left. The assignment is written for the identity
the creation reported (`GrantFollows`), which is not the agent's any more if it
was deleted and created again meanwhile. Types are proved with it, for an
account comes from an answer.

**Names** (`NameInv`). The name so far neither starts with a hyphen nor has two
in a row, and `lastHyphen` says how it ends; each repair keeps it so. The cut is
the step that needs the limit to be at least five, the fallback's length.

**What a name keeps** (`KeepInv`). Letters and digits are counted from the left
in the id and in the name (`Rank`). So far each one of the name is the one of the
id with the same count, and the counts are equal, so none is missing (`Follows`).
The repairs then only move the count: a trim takes what does not count
(`RankRest`), a letter put before a digit adds one everywhere (`RankBehind`), a
cut takes the end, at most down to one below the limit (`CutShortens`). That
different ids get different names is not claimed: the fold is lossy by design.

**Start** (`StartInv`). A start is one step after the other, so the invariant
says what every step left behind once the stage is past it: what the adapter
made of the request (`AdapterInv`), what the runtime made of the environment
(`ContainerInv`). Each property then compares the request with the end of the
chain, with no step in between; the two about conversations do it for every route
of text. `AcceptedServes` is part of the invariant, since
the step that fails is the one that knows the reason. `ModelAsConfigured` needs
that the list of bindings is resolved in place (`SameLLMs`), that a least one
exists (`LeastNat`, by well-foundedness), and for the announcement that a name
has one place in the order (`AnnouncedIsFirst`). The assumptions are those of
the data: finitely many prompts, lists that start at 1, an absent value that is
no setting.

**Requests and server** (`RuntimeInv`). A step belongs to one request and leaves
the others as they were (`OthersSame`), so the invariant is a conjunction over
requests, `RequestInv`, and each of its four parts is shown once over the twenty
actions. `StreamFaithful` needs an account of every piece: both texts are
numbered in order (`InOrder`), and while the caller is there they differ in
length by exactly the piece in the handler's hand and the one the producer is
sending (`TextInv`); two texts in order are equal when their lengths are
(`InOrderEqual`), which is what the end of a stream needs. `OutcomeTold` needs
that the error in the channel is the turn's (`TurnInv`), that the headers are
out exactly when something was heard, and that a handler past decoding has a
valid call and a turn (`HandlerInv`); a caller who stays is also never canceled
under, so a turn is not abandoned behind his back. `HistoryKept` adds, request
by request, that what is saved under a key belongs there and that a turn that
went well is saved before anyone is told so (`Recorded`). For the server, a
complete drain means that no handler is left, and only the listener, closed by
then, starts one (`NoNewHandler`, `ExitInv`). The refinement takes the actions
one by one and names the step of `TurnPromise` each of them is.

**Voice** (`VoiceInv`). Every frame the pump was given is kept in `spoken`; what
it still has to write is the end of it (`InOrder`), what the caller heard a
beginning, and as long as the socket lives exactly the part written so far
(`HeardSoFar`). A dead socket never takes a frame again, so the beginning has no
gap. The lock is shown to hold at most the goroutine that has something to write
(`Writing`), and the pump to start only once (`Started`).

**Only model-checked.** Every safety property and action property that a
passing run checks is a theorem, with the assumptions above. What stays with TLC
alone is liveness (`Convergence`, `Termination`, `Listening`, `HangUpEnds`,
`AbandonedTurnEnds`, `TurnAnswered`, `ServerExits`), which is out of the proof
system's reach with fairness and ENABLED, and the four statements the runs
refute.

## Not modelled

* `schema.go` (a JSON constant), `main.go` and `version.go` of the plugin: no
  state and no decision.
* `ListAgents` and `Import`: no operation uses the one, the other only refuses.
* Wire formats, headers, the token policy, telemetry, links, the wording of plans,
  progress events and the advisories that only concern sizes and registries; how
  a format (a URL, an image, a resource pair, a tag) is recognised.
* The PromptKit SDK, Azure, the WebSocket and OpenTelemetry libraries, except
  as the code relies on them; the audio formats of the duplex pipeline.
* `GET /readiness` (a constant), and voice sessions at the exit of the process:
  hijacked connections are not waited for and are cut.
* Several operations at once on one document: the CLI runs one.

## Plan

Done, in this order: plane, document and plan, deploy with its properties and
abstract specification, requests and server, voice, start, names and tags, the
calls request by request with the grant, the abstract turn, and the proofs of
every safety property the runs check and of both refinements.

Next:

1. An abstract specification of a voice call, as `TurnPromise` is one of a turn,
   and the refinement.
2. The steps that liveness rests on, as safety: that each step of an operation
   comes nearer to its return, and that no goroutine of a turn waits for one
   that waits for it.
3. `RecordHonest` with lost answers, restricted to what is recovered (the
   complement of `Stranded`).
