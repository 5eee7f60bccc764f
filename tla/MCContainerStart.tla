-------------------------- MODULE MCContainerStart --------------------------
(***************************************************************************)
(* The deployments and sandboxes TLC starts from: every combination of     *)
(* the choices below, right and wrong ones.                                *)
(***************************************************************************)
EXTENDS StartProperties

Inline(name, role, model) == [name |-> name, role |-> role, arena |-> None, model |-> model]
FromArena(name, role, id) == [name |-> name, role |-> role, arena |-> id, model |-> None]

ProviderLists ==
  { <<FromArena("default", None, "a1")>>,
    <<Inline("zed", "llm", "m1"), FromArena("abc", None, "a2")>>,
    <<Inline("zed", "llm", "m1"), Inline("default", "llm", "m2")>>,
    <<Inline("in", "stt", "s"), Inline("default", "llm", "m1"), Inline("out", "tts", "t")>>,
    <<Inline("default", "tts", "t"), Inline("other", None, "m1")>>,
    <<Inline("in", "stt", "s"), Inline("out", "tts", "t")>>,
    <<Inline("default", "LLM", "m1")>>,
    <<FromArena("default", "llm", "gone")>>,
    <<Inline("default", "llm", "alien")>>,
    <<Inline("abc", None, "m1"), Inline("zed", "llm", "m2")>>,
    <<Inline("twice", "llm", "m1"), Inline("twice", "llm", "m2")>>,
    <<>> }

ProtocolSets ==
  { {}, {"invocations", "invocations_ws"}, {"invocations", "responses"}, {"grpc"} }

NoRoot(kind, from) == [kind |-> kind, root |-> None, fromEnv |-> from]
StoreChoices ==
  { NoRoot(None, None), NoRoot("memory", None), NoRoot("file", None),
    [kind |-> "file", root |-> "dir", fromEnv |-> None],
    NoRoot("redis", "URL"), NoRoot("redis", None), NoRoot("disk", None) }

OnePrompt == [id |-> <<"letter">>, prompts |-> {"p"}, members |-> {}, entry |-> None, big |-> FALSE,
              loads |-> TRUE]
PackChoices ==
  { OnePrompt,
    [OnePrompt EXCEPT !.big = TRUE],
    [OnePrompt EXCEPT !.loads = FALSE],
    [OnePrompt EXCEPT !.prompts = {}],
    [OnePrompt EXCEPT !.prompts = {"p", "q"}],
    [OnePrompt EXCEPT !.prompts = {"p", "q"}, !.members = {"p", "q"}, !.entry = "q"] }

NoArena == [loaded |-> <<>>, specs |-> <<>>, tools |-> <<>>, manifests |-> <<>>]
FullArena ==
  [loaded    |-> [a1 |-> "l1"],
   specs     |-> [a1 |-> "x1", a2 |-> "x2"],
   tools     |-> [look |-> "both", ask |-> "live", odd |-> "client", far |-> "lost"],
   manifests |-> <<[name |-> None, mode |-> "result"], [name |-> "look", mode |-> "result"],
                   [name |-> "new", mode |-> "live"], [name |-> "new", mode |-> "client"],
                   [name |-> "still", mode |-> "silent"]>>]

BadArena == [NoArena EXCEPT !.manifests = <<[name |-> "new", mode |-> "mistyped"]>>]

Requests ==
  [config : [providers : ProviderLists, protocols : ProtocolSets, store : StoreChoices,
             endpoint : {None, "own"}, container : {None, "box"}, tracing : {"platform"},
             flaws : {{}}, tags : {{}, {"plain"}}],
   pack   : PackChoices, arena : {FullArena}, url : {None, "malformed", "valid"}]

\* Only one thing is wrong with a sandbox, if any.
GoodBox == [files |-> TRUE, writable |-> TRUE, credential |-> TRUE, collector |-> TRUE]
Boxes   == {GoodBox, [GoodBox EXCEPT !.files = FALSE, !.collector = FALSE],
            [GoodBox EXCEPT !.files = FALSE, !.writable = FALSE],
            [GoodBox EXCEPT !.credential = FALSE]}

\* Every id of up to four runes, and longer ones, which are cut, of the runes
\* that matter to a cut.
PackIDs == UNION {[1 .. n -> Runes] : n \in 0 .. 4}
           \cup UNION {[1 .. n -> {"letter", "digit", "separator"}] : n \in 5 .. 6}

Names == <<None, "abc", "default", "in", "other", "out", "twice", "zed">>

\* Configurations that differ from a plain one in two ways at most keep the
\* number of starts small: who answers and where calls go vary together, and so
\* do what is remembered, what is delivered and the arena.
Plain == [providers |-> <<FromArena("default", None, "a1")>>, protocols |-> {},
          store |-> NoRoot(None, None), endpoint |-> None, container |-> None,
          tracing |-> "platform", flaws |-> {}, tags |-> {}]

DeploymentChoices ==
  {d \in Requests :
     \/ /\ d.config.store = Plain.store /\ d.pack = OnePrompt
        /\ d.config.tags = {} /\ d.config.container = None /\ d.url = None
     \/ /\ d.config.providers = Plain.providers /\ d.config.protocols = {}
        /\ d.config.tags = {"plain"} /\ d.config.endpoint = None}
  \cup {[config |-> [Plain EXCEPT !.providers = l], pack |-> OnePrompt,
         arena |-> a, url |-> None] : l \in ProviderLists, a \in {NoArena, BadArena}}
  \cup {[config |-> c, pack |-> OnePrompt, arena |-> FullArena, url |-> None] :
         c \in {[Plain EXCEPT !.tracing = t] : t \in {"off", "own"}}
               \cup {[Plain EXCEPT !.flaws = {f}] : f \in Flaws}
               \cup {[Plain EXCEPT !.tags = {"plain", f}] : f \in TagFlaws}}
  \cup {[config |-> Plain, pack |-> [OnePrompt EXCEPT !.id = i], arena |-> FullArena,
         url |-> None] : i \in PackIDs}

Aliens == {"alien"}
=============================================================================
