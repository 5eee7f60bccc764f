--------------------------- MODULE StartProperties ---------------------------
(***************************************************************************)
(* What an accepted deployment may count on, over the steps of             *)
(* ContainerStart.  Each property relates the request to what a different  *)
(* program made of it.                                                     *)
(***************************************************************************)
EXTENDS ContainerStart

Serving == ended = "serving"

(***************************************************************************)
(* AcceptedServes: a deployment the adapter accepted does not stop its     *)
(* container from starting, but for what the adapter lets through and the  *)
(* runtime cannot serve, a pack delivered through Blob storage, a pack     *)
(* that does not have PromptKit's shape where the adapter does not look    *)
(* (pack.go 34), a pack of several prompts that names no entry, a provider *)
(* PromptKit does not know and a mistyped tool, and for a sandbox that     *)
(* takes no file or has no identity.                                       *)
(***************************************************************************)
AcceptedServes ==
  ended = "exited" =>
    \/ Pack.big
    \/ ~Pack.loads
    \/ Pack.entry = None /\ Cardinality(Pack.prompts) # 1
    \/ \E n \in DOMAIN encodeToolSpecs : encodeToolSpecs[n] = "mistyped"
    \/ \E i \in DOMAIN bindings : bindings[i].model \in Alien
    \/ ~sandbox.writable
    \/ ~sandbox.credential

(***************************************************************************)
(* ModelAsConfigured: the model that answers is the one of the binding     *)
(* named default, or of the first for a language model, with its provider  *)
(* looked up in the arena where the binding refers to it, although one     *)
(* program resolves the bindings and another picks among them.  It is the  *)
(* binding validation announced as primary, unless the bindings are not    *)
(* listed in the order of their names, by which only the announcement goes *)
(* (bindings.go 134, resolve.go 71).                                       *)
(***************************************************************************)
InNameOrder ==
  \A i, j \in DOMAIN Config.providers : i < j =>
    \E k, l \in DOMAIN NameOrder :
      /\ k <= l
      /\ NameOrder[k] = Config.providers[i].name
      /\ NameOrder[l] = Config.providers[j].name

\* One binding for a language model goes before another.
GoesBefore(i, j) ==
  LET Default(k) == Config.providers[k].name = "default"
  IN \/ Default(i) /\ ~Default(j)
     \/ (Default(i) <=> Default(j)) /\ i <= j

ModelAsConfigured ==
  Serving =>
    /\ \E i \in LLMs(Config.providers) :
         LET want == Config.providers[i] IN
         /\ \A j \in LLMs(Config.providers) : GoesBefore(i, j)
         /\ runtime.primary.name = want.name
         /\ runtime.primary.model = IF want.arena = None THEN want.model ELSE provider(want.arena)
    /\ warned # None /\ warned.primary # None /\ InNameOrder
         => runtime.primary.name = warned.primary

(***************************************************************************)
(* RemembersAsConfigured: an agent that serves keeps its conversations     *)
(* over text in the store that was configured.  Two things only the        *)
(* runtime can find out remain: a connection string that does not parse,   *)
(* and a file store that cannot be opened.  Conversations over voice are   *)
(* outside it: they are opened without a store (ws_voice.go 91), whatever  *)
(* was configured.                                                         *)
(***************************************************************************)
Routes == {"invocations"} \cup (IF runtime.voice THEN {"invocations_ws"} ELSE {})

TextRoutes == Routes \ {"invocations_ws"}

RemembersAsConfigured ==
  LET want == IF Config.store.kind = None THEN "memory" ELSE Config.store.kind
  IN Serving => \A route \in TextRoutes :
       \/ conversation(route).store = want
       \/ want = "redis" /\ request.url # "valid"
       \/ want = "file" /\ ~sandbox.files

(***************************************************************************)
(* RoutesWork: a declared protocol is served or was warned about, and a    *)
(* voice route is served only where it has what a call needs of the        *)
(* configuration: speech in and out are bound, and both services have an   *)
(* address outside the project's proxy.  Whether the agent's identity may  *)
(* call them is not the container's to know: access is granted when the    *)
(* agent is created, if it can be (apply.go 174-225), of which GrantTold   *)
(* and SpeechGranted speak.                                                *)
(***************************************************************************)
RoutesWork ==
  Serving =>
    /\ warned # None => applyDefaults(Config) \ Routes \subseteq warned.protocols
    /\ runtime.voice =>
         /\ {"stt", "tts"} \subseteq
              {Config.providers[i].role : i \in DOMAIN Config.providers}
         /\ runtime.audio # None

(***************************************************************************)
(* ToolsArrive: over text every tool the arena defines in a way the        *)
(* runtime supports is callable, whether it was defined inline or in a     *)
(* file, and answers as it would in the arena: from the inline definition  *)
(* where there are both, from its template where it also has a result.     *)
(* Over voice no tool is: the handler of that route is not given the specs *)
(* (main.go 76, ws_voice.go 91), although a pack is said to behave         *)
(* identically over voice and text (ws_voice.go 100, configure.md 141).    *)
(***************************************************************************)
ArenaAnswers ==
  [template |-> "rendered", both |-> "rendered", result |-> "fixed",
   silent |-> "error", live |-> "fetched"]

Answers(tools, name, tool) ==
  IF tool \in DOMAIN ArenaAnswers
  THEN name \in DOMAIN tools /\ tools[name] = ArenaAnswers[tool]
  ELSE name \notin DOMAIN tools

ToolsArrive ==
  Serving => \A route \in TextRoutes : LET tools == conversation(route).tools IN
    /\ \A n \in DOMAIN Arena.tools : Answers(tools, n, Arena.tools[n])
    /\ \A n \in Named \ DOMAIN Arena.tools : Answers(tools, n, FirstManifest(n))

(***************************************************************************)
(* NameLegal: whatever the pack's id, the agent is addressed by a name     *)
(* that starts with a letter, has hyphens only inside and one at a time,   *)
(* is not empty and not over the limit: the letter put before a digit may  *)
(* push it over, and the cut may lay bare a hyphen (tags.go 42-60).        *)
(***************************************************************************)
NameLegal ==
  nameDone =>
    /\ Len(agentName) \in 1 .. MaxAgentNameLength
    /\ agentName[1] = "letter"
    /\ agentName[Len(agentName)] # "hyphen"
    /\ \A i \in 2 .. Len(agentName) :
         agentName[i] = "hyphen" => agentName[i - 1] # "hyphen"

(***************************************************************************)
(* NameKeepsId: the name has the id's letters and digits in their order,   *)
(* as letters and as digits, after the letter put before a digit, and all  *)
(* of them unless the name was cut.  It says which runes are kept and      *)
(* nothing about names that are equal: ids may well share one, by design   *)
(* (tags.go 38-41), where they differ in case, in separators, in that      *)
(* letter or behind the cut, or have no letter or digit at all.  Letters   *)
(* and digits are counted, in the id and in the name; the first of the id  *)
(* is its f-th rune.                                                       *)
(***************************************************************************)
Solid     == {"letter", "upper", "digit"}
Folded(c) == IF c = "digit" THEN "digit" ELSE "letter"
Rank(s, i) == Cardinality({k \in 1 .. i : s[k] \in Solid})

\* Behind what was put before them, the letters and digits of a name are the
\* first of the id, among its first n runes.
Follows(name, n, before) ==
  \A i \in before + 1 .. Len(name) : name[i] # "hyphen" =>
    \E j \in 1 .. n : /\ packId[j] \in Solid /\ name[i] = Folded(packId[j])
                     /\ Rank(packId, j) + before = Rank(name, i)

NameKeepsId ==
  nameDone =>
    \/ /\ \A j \in 1 .. Len(packId) : packId[j] \notin Solid
       /\ agentName = fallbackAgentName
    \/ \E f \in 1 .. Len(packId) :
         LET before == IF packId[f] = "digit" THEN 1 ELSE 0 IN
         /\ packId[f] \in Solid /\ Rank(packId, f) = 1
         /\ Follows(agentName, Len(packId), before)
         /\ Len(agentName) < MaxAgentNameLength - 1 =>
              Rank(agentName, Len(agentName)) = Rank(packId, Len(packId)) + before

-----------------------------------------------------------------------------
(* Why NameLegal holds: the inductive invariant ContainerStartProofs       *)
(* proves it from.                                                         *)

\* What the loop keeps true of the name, and each repair after it.
Neat(s) ==
  /\ s # <<>> => s[1] # "hyphen"
  /\ \A i \in 2 .. Len(s) : s[i] = "hyphen" => s[i - 1] # "hyphen"

NameInv ==
  /\ NameTypeOK
  /\ Neat(agentName)
  /\ ~nameDone => (lastHyphen <=> agentName # <<>> /\ agentName[Len(agentName)] = "hyphen")
  /\ NameLegal

\* Why NameKeepsId holds: so far the name follows the id, and misses nothing.
KeepInv ==
  /\ ~nameDone => /\ Follows(agentName, taken, 0)
                  /\ Rank(agentName, Len(agentName)) = Rank(packId, taken)
  /\ NameKeepsId

(***************************************************************************)
(* Why the other properties hold: the inductive invariant they are proved  *)
(* from says what every step left behind once the stage is past it.        *)
(***************************************************************************)
Past(steps) == stage \in Stages \ steps

\* What the adapter made of the request.
AdapterInv ==
  /\ request \in Deployments
  /\ warned # None => /\ warned.protocols = diagnoseProtocols(Config) \cap Protocols
                     /\ warned.primary = bindingWarnings(Config.providers)
  /\ Past({"validate", "plan"}) =>
       /\ validateStructure(Config)
       /\ bindings = Resolved
       /\ primaryBinding(Resolved) # None
  /\ Past({"validate", "plan", "name", "spec"}) =>
       /\ env.pack = ~Pack.big
       /\ env.providers = Resolved
       /\ env.endpoint = azureEndpoint(Config)
       /\ env.tools = encodeToolSpecs
       /\ env.store = addStateStoreEnv(Config.store)

\* What the runtime made of the environment.
ContainerInv ==
  /\ runtime.specs = IF stage \in {"voice", "store"} THEN env.tools ELSE <<>>
  /\ stage \in {"tools", "voice", "store"} => runtime.primary = primaryBinding(env.providers)
  /\ stage = "store" =>
       /\ runtime.voice = voiceEnabled(env.providers)
       /\ runtime.audio = IF runtime.voice THEN env.endpoint ELSE None
  /\ ended = "serving" => stage = "store" /\ runtime.store = buildSessionStore(env.store)

StartInv == TypeOK /\ AdapterInv /\ ContainerInv /\ AcceptedServes
=============================================================================
