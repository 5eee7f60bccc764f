--------------------------- MODULE MCFoundryDeploy ---------------------------
(***************************************************************************)
(* Small instances of the deployment for TLC.                              *)
(***************************************************************************)
EXTENDS DeployProperties

\* Packs of one agent: the first is delivered inline, the others, over
\* the limit of the configurations below, are staged.
App1 == [name |-> "app", text |-> "first", bytes |-> 1]
App2 == [name |-> "app", text |-> "second", bytes |-> 2]
App3 == [name |-> "app", text |-> "third", bytes |-> 3]

\* A pack whose id, and with it the agent's name, differs.
Renamed == [App1 EXCEPT !.name = "other"]

OnePack   == {App1}
TwoPacks  == {App1, App2}
MorePacks == {App1, App2, App3}
TwoNames  == {App1, App2, Renamed}

Voice == [project |-> "prod", image |-> "i1", speech |-> TRUE, endpoint |-> "e1",
          container |-> "box", limit |-> 1, dryRun |-> FALSE]
Text  == [Voice EXCEPT !.speech = FALSE]

\* Over the limit and with no container to go to.
NoBox == [Text EXCEPT !.container = None]

\* The same deployment as a dry run, and in a project that does not exist.
DryRun == [Text EXCEPT !.dryRun = TRUE]
Moved  == [Text EXCEPT !.project = "staging"]

\* Another of the settings that are not fingerprinted.
Rerouted == [Text EXCEPT !.endpoint = "e2"]

VoiceOnly     == {Voice}
TextOnly      == {Text}
WithRejected  == {Text, NoBox}
TextThenVoice == {Text, Voice}
DryAndReal    == {Text, DryRun}
Wandering     == {Text, DryRun, Moved, Rerouted}

OneProject == {"prod"}
=============================================================================
