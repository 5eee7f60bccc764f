--------------------------- MODULE ContainerStart ---------------------------
(***************************************************************************)
(* One deployment from its request to the routes its container serves: the *)
(* adapter validates the configuration, plans, and writes the container's  *)
(* environment (config.go, bindings.go, resolve.go, arena.go, pack.go,     *)
(* versions.go, diagnostics.go); the runtime reads that environment back   *)
(* and starts, or exits at the first step that fails (main.go).  The two   *)
(* programs share no code: what they agree on is the environment alone.    *)
(* The plan also derives the agent's name from the pack's id (AgentName).  *)
(***************************************************************************)
EXTENDS AgentName, FiniteSets

CONSTANTS
  Deployments,  \* the requests: [config, pack, arena, url], see below
  Alien,        \* the providers PromptKit does not know how to build
  Sandboxes,    \* the containers' surroundings: [files, writable, credential,
                \* collector]
  NameOrder,    \* the binding names, None among them, in lexicographic order
  None          \* the absent value

(***************************************************************************)
(* config:  [providers, protocols, store, endpoint, container, tracing,    *)
(*          flaws, tags]                                                   *)
(*          providers is a sequence of [name, role, arena, model]; a type  *)
(*          and its model are one value.  store is [kind, root, fromEnv].  *)
(*          flaws names the settings that a comparison with a constant     *)
(*          finds wrong; tags says what is wrong with each tag, if         *)
(*          anything.  tracing is "off", "platform" or "own", by whose     *)
(*          collector it goes to.                                          *)
(* pack:    [id, prompts, members, entry, big, loads]                      *)
(*          loads says whether it has the shape PromptKit's pack has: the  *)
(*          adapter decodes a few fields of a pack, the runtime all.       *)
(* arena:   [loaded, specs, tools, manifests]: providers by id, tools by   *)
(*          name, and the tool manifests in order.  A tool is a mock with  *)
(*          a "template", a "result", "both" or neither ("silent"), "live" *)
(*          with an address or "lost" without, of another mode, or         *)
(*          "mistyped".                                                    *)
(* url:     what the deploying environment holds for url_from_env.         *)
(***************************************************************************)

ASSUME DeploymentAssumption ==
  \A d \in Deployments :
    /\ d.pack.id \in Seq(Runes)
    /\ IsFiniteSet(d.pack.prompts) /\ None \notin d.pack.prompts
    /\ Len(d.config.providers) \in Nat
    /\ DOMAIN d.config.providers = 1 .. Len(d.config.providers)

\* Every binding has a place in the order of the names, a name but one place.
ASSUME OrderAssumption ==
  /\ \A k, l \in DOMAIN NameOrder : NameOrder[k] = NameOrder[l] => k = l
  /\ Len(NameOrder) \in Nat /\ DOMAIN NameOrder = 1 .. Len(NameOrder)
  /\ \A d \in Deployments : \A i \in DOMAIN d.config.providers :
       \E k \in DOMAIN NameOrder : NameOrder[k] = d.config.providers[i].name

ASSUME NoneAssumption ==
  None \notin {"memory", "file", "redis", "account", "llm"}

VARIABLES
  request,   \* the deployment
  sandbox,   \* where its container will start
  stage,     \* the step that comes next, or where it ended
  ended,     \* "" while under way, then "rejected", "exited" or "serving"
  warned,    \* what ValidateConfig warned about, None if it was not asked
  bindings,  \* the resolved bindings of the plan
  env,       \* the environment the adapter wrote
  runtime    \* what the runtime made of it so far

startVars == <<request, sandbox, stage, ended, warned, bindings, env, runtime>>
vars      == <<startVars, nameVars>>

Config == request.config
Pack   == request.pack
Arena  == request.arena

Roles     == {"llm", "embedding", "tts", "stt", "image", "inference"}
Protocols == {"responses", "invocations", "invocations_ws"}
Stores    == {"memory", "file", "redis"}

-----------------------------------------------------------------------------
(***************************************************************************)
(* The adapter's pure functions.                                           *)
(***************************************************************************)

\* Exactly one of a reference to an arena provider and an inline provider.
validateBindingSource(b) == (b.arena # None) # (b.model # None)

validateBindings(list) ==
  /\ list # <<>>
  /\ \A i \in DOMAIN list :
       /\ list[i].name # None
       /\ list[i].role \in Roles \cup {None}
       /\ validateBindingSource(list[i])
       /\ \A j \in DOMAIN list : list[i].name = list[j].name => i = j

\* The declared protocols, invocations when none is.
applyDefaults(c) == IF c.protocols = {} THEN {"invocations"} ELSE c.protocols

validateStateStore(s) ==
  s.kind # None =>
    /\ s.kind \in Stores
    /\ (s.kind = "redis") = (s.fromEnv # None)
    /\ s.root # None => s.kind = "file"

\* A name to address each thing by, a legal size and idle timeout, no protocol
\* twice, absolute URLs.
Flaws == {"account", "project", "image", "resources", "idleTimeout",
          "repeatedProtocol", "stagingContainer", "otlpEndpoint"}

validateStructure(c) ==
  /\ c.flaws = {}
  /\ applyDefaults(c) \subseteq Protocols
  /\ validateStateStore(c.store)

TagFlaws == {"empty name", "long name", "long value", "reserved character"}

validateTags(c) == c.tags \cap TagFlaws = {}

\* Without a binding named default, the one that is announced as primary.
bindingWarnings(list) ==
  LET llms == {list[i].name : i \in {j \in DOMAIN list : list[j].role \in {None, "llm"}}}
  IN IF llms = {} \/ \E i \in DOMAIN list : list[i].name = "default" THEN None
     ELSE NameOrder[CHOOSE k \in DOMAIN NameOrder :
            /\ NameOrder[k] \in llms
            /\ \A j \in 1 .. k - 1 : NameOrder[j] \notin llms]

\* The protocols the bundled runtime is taken not to serve.
diagnoseProtocols(c) == applyDefaults(c) \ {"invocations"}

\* A loaded provider is preferred to a spec of the same id.
provider(id) ==
  IF id \in DOMAIN Arena.loaded THEN Arena.loaded[id]
  ELSE IF id \in DOMAIN Arena.specs THEN Arena.specs[id] ELSE None

\* A binding without a role is for the language model.  (The mutated form
\* leaves the role out.)
RoleVerbatim(b) ==
  [name |-> b.name, role |-> b.role,
   model |-> IF b.arena # None THEN provider(b.arena) ELSE b.model]
resolveBinding(b) ==
  [name |-> b.name, role |-> IF b.role = None THEN "llm" ELSE b.role,
   model |-> IF b.arena # None THEN provider(b.arena) ELSE b.model]

Resolved == [i \in DOMAIN Config.providers |-> resolveBinding(Config.providers[i])]

\* Tool specs by name: the inline ones, then the manifests that name a tool,
\* the first of a name; a manifest that does not parse or names none is
\* skipped.  (The mutated form lets manifests replace.)
Named == {Arena.manifests[i].name : i \in DOMAIN Arena.manifests} \ {None}
FirstManifest(n) ==
  Arena.manifests[CHOOSE i \in DOMAIN Arena.manifests :
    /\ Arena.manifests[i].name = n
    /\ \A j \in 1 .. i - 1 : Arena.manifests[j].name # n].mode

ManifestsReplace ==
  [n \in DOMAIN Arena.tools \cup Named |->
     IF n \in Named THEN FirstManifest(n) ELSE Arena.tools[n]]
encodeToolSpecs ==
  [n \in DOMAIN Arena.tools \cup Named |->
     IF n \in DOMAIN Arena.tools THEN Arena.tools[n] ELSE FirstManifest(n)]

memberNames(p) == IF p.members # {} THEN p.members ELSE p.prompts

\* The store's share of the environment: nothing for memory.  (The mutated
\* form takes a store without a root for the default.)
NoStore == [kind |-> None, root |-> None, url |-> None]
OnlyRooted(s) ==
  IF s.root = None THEN NoStore ELSE [kind |-> s.kind, root |-> s.root, url |-> None]
addStateStoreEnv(s) ==
  IF s.kind \in {None, "memory"} THEN NoStore
  ELSE [kind |-> s.kind, root |-> s.root,
        url |-> IF s.fromEnv = None THEN None ELSE request.url]

\* azureEndpoint derives the account's endpoint when none is configured.  (The
\* mutated form passes on what is configured.)
AsConfigured(c) == c.endpoint
azureEndpoint(c) == IF c.endpoint # None THEN c.endpoint ELSE "account"

-----------------------------------------------------------------------------
(***************************************************************************)
(* The runtime's pure functions.                                           *)
(***************************************************************************)

\* The llm binding named default, else the first llm binding; None when there
\* is none.  (The mutated form takes the first.)
LLMs(list) == {i \in DOMAIN list : list[i].role \in {None, "llm"}}
FirstOf(list, S) == IF S = {} THEN None ELSE list[CHOOSE i \in S : \A j \in S : i <= j]

FirstBinding(list) == FirstOf(list, LLMs(list))
primaryBinding(list) ==
  LET named == {i \in LLMs(list) : list[i].name = "default"}
  IN FirstOf(list, IF named # {} THEN named ELSE LLMs(list))

bindingForRole(list, role) == FirstOf(list, {i \in DOMAIN list : list[i].role = role})

\* Speech in and speech out.  (The mutated form takes half of the pair.)
EitherHalf(list)   == bindingForRole(list, "stt") # None \/ bindingForRole(list, "tts") # None
voiceEnabled(list) == bindingForRole(list, "stt") # None /\ bindingForRole(list, "tts") # None

\* The prompt served: agents.entry, else the only prompt.  The adapter sets no
\* PROMPTPACK_AGENT.
resolveAgentName(p) ==
  IF p.entry # None THEN p.entry
  ELSE IF Cardinality(p.prompts) = 1 THEN CHOOSE n \in p.prompts : TRUE ELSE None

\* The store built from the environment, None when it cannot be.
buildSessionStore(s) ==
  CASE s.kind = None    -> "memory"
    [] s.kind = "file"  -> IF sandbox.files THEN "file" ELSE None
    [] s.kind = "redis" -> IF s.url = "valid" THEN "redis" ELSE None

\* What a mock tool answers a call with; one that declares nothing to answer is
\* callable and fails.
mockHandler(tool) ==
  CASE tool \in {"template", "both"} -> "rendered"
    [] tool = "result"               -> "fixed"
    [] tool = "silent"               -> "error"

\* The tools registered with a conversation, and where their answers come from:
\* mock tools, and live ones with an address.
Mocks == {"template", "result", "both", "silent"}
registerToolExecutors(specs) ==
  [n \in {m \in DOMAIN specs : specs[m] \in Mocks \cup {"live"}} |->
     IF specs[n] = "live" THEN "fetched" ELSE mockHandler(specs[n])]

\* What a conversation of a route is opened with.  Over text every turn has the
\* tools, and the store when it has a key to file its history under; the voice
\* handler gets neither.
conversation(route) ==
  IF route = "invocations"
    THEN [tools |-> registerToolExecutors(runtime.specs), store |-> runtime.store]
    ELSE [tools |-> <<>>, store |-> None]

\* Traces go out when they are asked for and there is a collector, configured
\* or injected by the platform.
setupTracing(tracing) == tracing = "own" \/ (tracing = "platform" /\ sandbox.collector)

-----------------------------------------------------------------------------
Unbuilt == [agent |-> None, primary |-> None, tracing |-> FALSE, specs |-> <<>>,
            voice |-> FALSE, audio |-> None, store |-> None]
NoEnv   == [pack |-> FALSE, providers |-> <<>>, endpoint |-> None, tools |-> <<>>,
            store |-> NoStore, tracing |-> "off"]

Stages == {"validate", "plan", "name", "spec", "config", "pack", "load", "agent",
           "provider", "tools", "voice", "store"}

TypeOK ==
  /\ packId = Pack.id
  /\ sandbox \in Sandboxes
  /\ stage \in Stages
  /\ ended \in {"", "rejected", "exited", "serving"}
  /\ warned = None \/ warned.protocols \subseteq Protocols
  /\ \A i \in DOMAIN bindings : bindings[i].role # None
  /\ DOMAIN env = DOMAIN NoEnv
  /\ env.store.kind \in Stores \cup {None}
  /\ DOMAIN runtime = DOMAIN Unbuilt
  /\ DOMAIN runtime.specs \subseteq DOMAIN env.tools
  /\ runtime.store \in Stores \cup {None}
  /\ NameTypeOK

Init ==
  /\ request \in Deployments
  /\ sandbox \in Sandboxes
  /\ stage \in {"validate", "plan"}   \* planning does not require validating
  /\ ended = ""
  /\ warned = None
  /\ bindings = <<>>
  /\ env = NoEnv
  /\ runtime = Unbuilt
  /\ NameInit(request.pack.id)

\* One step: go on to the next when the step's checks pass, else end there.
Step(this, ok, next, otherwise) ==
  /\ ended = ""
  /\ stage = this
  /\ IF ok THEN stage' = next /\ UNCHANGED ended
           ELSE ended' = otherwise /\ UNCHANGED stage
  /\ UNCHANGED <<request, sandbox, nameVars>>

\* What the runtime built changes only when its step passes.
Builds(ok, built) ==
  /\ runtime' = IF ok THEN built ELSE runtime
  /\ UNCHANGED <<warned, bindings, env>>

-----------------------------------------------------------------------------
ValidateConfig ==
  /\ Step("validate",
          /\ validateStructure(Config)
          /\ validateBindings(Config.providers)
          /\ validateTags(Config),
          "plan", "rejected")
  /\ warned' = [protocols |-> diagnoseProtocols(Config) \cap Protocols,
                primary   |-> bindingWarnings(Config.providers)]
  /\ UNCHANGED <<bindings, env, runtime>>

\* The plan's own checks: the structure again, every reference resolved, a
\* binding for the model, a way to deliver the pack, an id, a prompt to serve.
gatherPlanInput ==
  /\ Step("plan",
          /\ validateStructure(Config)
          /\ \A i \in DOMAIN Config.providers :
               Config.providers[i].arena # None => provider(Config.providers[i].arena) # None
          /\ primaryBinding(Resolved) # None
          /\ Pack.big => Config.container # None
          /\ Pack.id # <<>>
          /\ memberNames(Pack) # {},
          "name", "rejected")
  /\ bindings' = Resolved
  /\ UNCHANGED <<warned, env, runtime>>

\* Its last step, the agent's name, rune by rune.
NameAgent ==
  /\ ended = ""
  /\ stage = "name"
  /\ NameNext
  /\ stage' = IF nameDone' THEN "spec" ELSE "name"
  /\ UNCHANGED <<request, sandbox, ended, warned, bindings, env, runtime>>

\* The environment of the version.
buildAgentEnv ==
  /\ Step("spec", Config.store.kind = "redis" => request.url # None, "config", "rejected")
  /\ env' = [pack      |-> ~Pack.big,
             providers |-> bindings,
             endpoint  |-> azureEndpoint(Config),
             tools     |-> encodeToolSpecs,
             store     |-> addStateStoreEnv(Config.store),
             tracing   |-> Config.tracing]
  /\ UNCHANGED <<warned, bindings, runtime>>

\* The container starts: a pack, in the environment or as a URI, is required,
\* and one is always there.
loadConfig ==
  /\ Step("config", TRUE, "pack", "exited")
  /\ Builds(TRUE, runtime)

\* Only a pack in the environment can be read; some directory must take it.
resolvePackFile ==
  /\ Step("pack", env.pack /\ sandbox.writable, "load", "exited")
  /\ Builds(TRUE, runtime)

\* PromptKit reads the pack, all of it.
LoadPack ==
  /\ Step("load", Pack.loads, "agent", "exited")
  /\ Builds(TRUE, runtime)

ResolveAgent ==
  LET name == resolveAgentName(Pack)
  IN /\ Step("agent", name # None, "provider", "exited")
     /\ Builds(name # None, [runtime EXCEPT !.agent = name])

\* The platform injects the project's endpoint.  Tracing never fails the start.
buildSDKOptions ==
  LET ok == sandbox.credential /\ primaryBinding(env.providers).model \notin Alien
  IN /\ Step("provider", ok, "tools", "exited")
     /\ Builds(ok, [runtime EXCEPT !.primary = primaryBinding(env.providers),
                                   !.tracing = setupTracing(env.tracing)])

\* The specs arrive as one JSON document: one with a field of the wrong type
\* spoils them all.
parseToolSpecs ==
  LET ok == \A n \in DOMAIN env.tools : env.tools[n] # "mistyped"
  IN /\ Step("tools", ok, "voice", "exited")
     /\ Builds(ok, [runtime EXCEPT !.specs = env.tools])

\* The voice route, absent unless both halves of speech are bound.
buildVoiceHandler ==
  LET voice == voiceEnabled(env.providers)
      ok    == voice => sandbox.credential /\ env.endpoint # None
  IN /\ Step("voice", ok, "store", "exited")
     /\ Builds(ok, [runtime EXCEPT !.voice = voice,
                                   !.audio = IF voice THEN env.endpoint ELSE None])

\* Without its store the runtime serves all the same.
newSessionStore ==
  /\ ended = ""
  /\ stage = "store"
  /\ ended' = "serving"
  /\ runtime' = [runtime EXCEPT !.store = buildSessionStore(env.store)]
  /\ UNCHANGED <<request, sandbox, stage, warned, bindings, env, nameVars>>

Next ==
  \/ ValidateConfig \/ gatherPlanInput \/ NameAgent \/ buildAgentEnv
  \/ loadConfig \/ resolvePackFile \/ LoadPack \/ ResolveAgent
  \/ buildSDKOptions \/ parseToolSpecs \/ buildVoiceHandler \/ newSessionStore

Spec == Init /\ [][Next]_vars
=============================================================================
