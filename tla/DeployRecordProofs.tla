------------------------- MODULE DeployRecordProofs -------------------------
(***************************************************************************)
(* Proofs about what the document offers and how it follows the endpoint:  *)
(* for every set of packs and configurations without a dry run, every      *)
(* bound, and every kind and number of disturbances except that someone    *)
(* else moves an endpoint.                                                 *)
(***************************************************************************)
EXTENDS FoundryDeployProofs

-----------------------------------------------------------------------------
(* Documents against the platform as the next state will have it.          *)

UsableNext(v) ==
  /\ versions'[v].live
  /\ versions'[v].site \in Sites
  /\ agents'[versions'[v].site].exists => versions'[v].status = "active"

HistoryNext(state) ==
  /\ Len(state.prior) <= MaxPriorVersions
  /\ state.served # 0 => UsableNext(state.served)
  /\ \A i \in DOMAIN state.prior :
       /\ UsableNext(state.prior[i])
       /\ state.prior[i] < state.served
       /\ \A j \in DOMAIN state.prior : j < i => state.prior[i] < state.prior[j]

InFlightNext(state) ==
  state.inFlight # None =>
    /\ state.inFlight.version > state.served
    /\ state.inFlight.version <= issued'
    /\ ~versions'[state.inFlight.version].live
    /\ pc' \in {"await", "setEndpoint"} => state.inFlight.version < awaited'

SoundNext(state) == HistoryNext(state) /\ InFlightNext(state) /\ Nameless(state)

LEMMA SoundPrimed ==
  /\ SoundNext(doc') => Sound(doc)'
  /\ SoundNext(work') => Sound(work)'
BY DEF SoundNext, HistoryNext, InFlightNext, UsableNext, Sound, HistoryOf, InFlightOf,
   Usable, Nameless

\* a speaks of the same versions as b, or drops the one in flight.
Alike(a, b) ==
  /\ a.served = b.served
  /\ a.prior = b.prior
  /\ a.inFlight \in {None, b.inFlight}
  /\ a.agentName = None => b.agentName = None

LEMMA SoundAlike ==
  ASSUME NEW a, NEW b, Alike(a, b), SoundNext(b)
  PROVE  SoundNext(a)
BY DEF Alike, SoundNext, HistoryNext, InFlightNext, Nameless

LEMMA SoundNew == SoundNext(newState)
<1>1. Len(<<>>) = 0 /\ DOMAIN <<>> = {}
  OBVIOUS
<1>2. /\ newState.prior = <<>> /\ newState.served = 0 /\ newState.inFlight = None
  BY DEF newState
<1> QED BY <1>1, <1>2, HistoryAssumption DEF SoundNext, HistoryNext, InFlightNext, Nameless

-----------------------------------------------------------------------------
(* What a step does to the versions a document speaks of.                  *)

\* The typing facts every proof below needs.
LEMMA RecordTypes ==
  ASSUME RecordInv
  PROVE  /\ TypeOK /\ EndpointInv /\ DeployInv /\ AwaitedOwn /\ Unissued
         /\ issued \in Nat /\ MaxVersions \in Nat /\ 1 .. issued \subseteq Versions
         /\ awaited \in Nat
         /\ doc \in States /\ work \in States
         /\ doc.served \in Nat /\ work.served \in Nat
         /\ want \in Requests /\ Site \in Sites
<1>1. TypeOK /\ EndpointInv /\ DeployInv /\ AwaitedOwn /\ Unissued
  BY DEF RecordInv, DeployInv, EndpointInv
<1>2. want \in Requests /\ Site \in Sites
  BY <1>1, RequestTypes DEF TypeOK, OpTypeOK, Site
<1> QED BY <1>1, <1>2, BoundAssumption
        DEF TypeOK, PlaneTypeOK, OpTypeOK, Versions, States

\* Only issued versions were ever live.
LEMMA LiveIssued ==
  ASSUME RecordInv, NEW v \in Versions, versions[v].live
  PROVE  v \in 1 .. issued
<1>1. v <= issued
  <2> SUFFICES ASSUME v > issued PROVE FALSE
    BY RecordTypes DEF Versions
  <2>1. versions[v] = NoVersion
    BY RecordTypes DEF Unissued
  <2> QED BY <2>1 DEF NoVersion
<1> QED BY <1>1, RecordTypes DEF Versions

\* A version goes live by the operation that waited for it.
LEMMA LiveMoves ==
  ASSUME RecordInv, [Next]_vars, "repoint" \notin Faults, NEW v \in Versions,
         versions'[v].live
  PROVE  \/ versions[v].live
         \/ /\ v = awaited /\ pc = "setEndpoint" /\ pc' = "return" /\ agents[Site].exists
            /\ DoSetEndpoint(Site, awaited)
<1>1. PlaneMove
  BY PlaneMoves, RecordTypes
<1>2. TypeOK
  BY RecordTypes
<1>3. CASE \/ UNCHANGED <<agents, versions, issued>>
           \/ pc = "createAgent" /\ DoCreateAgent(Site)
           \/ \E s \in Sites : DoGrant(s) \/ DoDeleteAgent(s)
  BY <1>2, <1>3 DEF DoCreateAgent, DoGrant, DoDeleteAgent, TypeOK, PlaneTypeOK
<1>4. CASE \E n \in {1, 2} : DoCreateVersions(Site, buildAgentSpec(want), n)
  BY <1>4 DEF DoCreateVersions
<1>5. CASE /\ pc = "setEndpoint" /\ pc' = "return"
           /\ agents[Site].exists /\ DoSetEndpoint(Site, awaited)
  BY <1>2, <1>5 DEF DoSetEndpoint, TypeOK, PlaneTypeOK
<1>6. CASE \E u \in 1 .. issued : \E outcome \in {"active", "failed", "deleted"} : Settle(u, outcome)
  BY <1>2, <1>6 DEF Settle, TypeOK, PlaneTypeOK
<1> QED BY <1>1, <1>3, <1>4, <1>5, <1>6 DEF PlaneMove

\* An agent only comes to exist by being created.
LEMMA AgentMoves ==
  ASSUME RecordInv, [Next]_vars, NEW s \in Sites, agents'[s].exists,
         ~(pc = "createAgent" /\ DoCreateAgent(Site))
  PROVE  agents[s].exists
<1>1. PlaneMove
  BY PlaneMoves, RecordTypes
<1>2. agents \in [Sites -> [exists : BOOLEAN, served : 0 .. MaxVersions, granted : BOOLEAN]]
  BY RecordTypes DEF TypeOK, PlaneTypeOK
<1>3. CASE \/ UNCHANGED <<agents, versions, issued>>
           \/ \E n \in {1, 2} : DoCreateVersions(Site, buildAgentSpec(want), n)
           \/ \E u \in 1 .. issued :
                \E outcome \in {"active", "failed", "deleted"} : Settle(u, outcome)
  BY <1>3 DEF DoCreateVersions, Settle
<1>4. CASE \E t \in Sites : DoGrant(t) \/ DoDeleteAgent(t)
  BY <1>2, <1>4 DEF DoGrant, DoDeleteAgent, NoAgent
<1>5. CASE \E t \in Sites : \E v : DoSetEndpoint(t, v)
  BY <1>2, <1>5 DEF DoSetEndpoint
<1> QED BY <1>1, <1>3, <1>4, <1>5, RecordTypes DEF PlaneMove, Repoint

\* What could be served again still can, unless its agent is created anew.
LEMMA UsableStep ==
  ASSUME RecordInv, [Next]_vars, NEW v \in Versions, Usable(v),
         ~(pc = "createAgent" /\ DoCreateAgent(Site))
  PROVE  UsableNext(v)
<1>1. v \in 1 .. issued
  BY LiveIssued DEF Usable
<1>2. /\ versions'[v].site = versions[v].site
      /\ versions'[v].live
      /\ versions[v].status = "active" =>
           versions'[v].status = "active" \/ agents'[versions[v].site] = NoAgent
  BY <1>1, VersionsStable, PlaneMoves, RecordTypes DEF Usable
<1>3. ASSUME agents'[versions'[v].site].exists PROVE versions'[v].status = "active"
  <2>1. agents[versions[v].site].exists
    BY <1>2, <1>3, AgentMoves DEF Usable
  <2> QED BY <1>2, <1>3, <2>1 DEF Usable, NoAgent
<1> QED BY <1>2, <1>3 DEF Usable, UsableNext

\* A document without an agent has no history an agent could be missing for.
LEMMA Unnamed ==
  ASSUME RecordInv, pc = "createAgent", NEW state \in {doc, work}
  PROVE  state.served = 0 /\ DOMAIN state.prior = {}
<1>1. state.agentName = None
  BY DEF RecordInv, CopyInv
<1> QED BY <1>1 DEF RecordInv, Sound, Nameless

\* The document and the operation's copy stay as sound as they were.
LEMMA SoundKept ==
  ASSUME RecordInv, [Next]_vars, "repoint" \notin Faults, NEW state \in {doc, work}
  PROVE  SoundNext(state)
<1>1. Sound(state) /\ state \in States
  BY RecordTypes DEF RecordInv
<1>2. /\ state.prior \in Seq(Versions) /\ DOMAIN state.prior = 1 .. Len(state.prior)
      /\ state.served # 0 => state.served \in Versions
      /\ \A i \in DOMAIN state.prior : state.prior[i] \in Versions
  <2>1. state.prior \in Seq(Versions) /\ state.served \in 0 .. MaxVersions
    BY <1>1 DEF States
  <2>2. DOMAIN state.prior = 1 .. Len(state.prior)
    BY <2>1, LenProperties
  <2>3. \A i \in DOMAIN state.prior : state.prior[i] \in Versions
    BY <2>1, <2>2, ElementOfSeq
  <2> QED BY <2>1, <2>2, <2>3, RecordTypes DEF Versions
<1>3. HistoryNext(state)
  <2>1. CASE pc = "createAgent"
    <3>1. state.served = 0 /\ DOMAIN state.prior = {}
      BY <2>1, Unnamed
    <3>2. Len(state.prior) <= MaxPriorVersions
      BY <1>1 DEF Sound, HistoryOf
    <3> QED BY <3>1, <3>2 DEF HistoryNext
  <2>2. CASE pc # "createAgent"
    <3>1. state.served # 0 => UsableNext(state.served)
      BY <1>1, <1>2, <2>2, UsableStep DEF Sound, HistoryOf
    <3>2. \A i \in DOMAIN state.prior : UsableNext(state.prior[i])
      BY <1>1, <1>2, <2>2, UsableStep DEF Sound, HistoryOf
    <3> QED BY <1>1, <3>1, <3>2 DEF Sound, HistoryOf, HistoryNext
  <2> QED BY <2>1, <2>2
<1>4. InFlightNext(state)
  <2> SUFFICES ASSUME state.inFlight # None PROVE InFlightNext(state)
    BY DEF InFlightNext
  <2> DEFINE u == state.inFlight.version
  <2>1. /\ u \in Versions /\ u > state.served /\ u <= issued /\ ~versions[u].live
        /\ pc \in {"await", "setEndpoint"} => u < awaited
    BY <1>1 DEF Sound, InFlightOf, States, InFlights
  <2> HIDE DEF u
  <2>2. issued <= issued' /\ issued' \in Nat
    BY RecordTypes, VersionsStable, PlaneMoves, TypeStep
       DEF EndpointInv, TypeOK, PlaneTypeOK
  <2>3. ~versions'[u].live
    BY <2>1, LiveMoves, RecordTypes DEF Versions
  <2>4. ASSUME pc' \in {"await", "setEndpoint"} PROVE u < awaited'
    <3>1. CASE UNCHANGED awaited /\ pc \in {"await", "setEndpoint"}
      BY <2>1, <3>1
    <3>2. CASE \E n \in {1, 2} : awaited' = issued + n
      BY <2>1, <3>2, RecordTypes DEF Versions
    <3> QED BY <2>4, <3>1, <3>2, WaitMoves, RecordTypes
  <2> QED BY <2>1, <2>2, <2>3, <2>4, RecordTypes DEF InFlightNext, u, Versions
<1> QED BY <1>1, <1>3, <1>4 DEF Sound, SoundNext

-----------------------------------------------------------------------------
(* What a step writes into the document and into the operation's copy.     *)

LEMMA AlikeCopies ==
  ASSUME NEW state \in States, want \in Requests
  PROVE  /\ Alike(state, state)
         /\ Alike(Noted(state), state) /\ Noted(state).agentName = state.agentName
         /\ Alike(Settled(state), state) /\ Settled(state).agentName = state.agentName
         /\ Settled(state).inFlight = None
         /\ Alike([state EXCEPT !.agentName = want.pack.name], state)
         /\ [state EXCEPT !.agentName = want.pack.name].agentName # None
<1>1. want.pack.name # None
  BY RequestTypes, NoneAssumption
<1> QED BY <1>1 DEF Alike, Noted, Settled, States

LEMMA DocMoves ==
  ASSUME TypeOK, [Next]_vars, ~DryRunApply
  PROVE  \/ doc' = doc
         \/ doc' = newState /\ work' = newState /\ pc' = "idle"
         \/ doc' = work /\ pc = "return" /\ pc' = "idle" /\ UNCHANGED planeVars
<1>1. CASE UNCHANGED vars \/ StartApply \/ ChangeMind \/ Activate \/ Disturbance
  BY <1>1 DEF vars, StartApply, ChangeMind, Activate, Disturbance
<1>2. CASE RejectApply \/ Stage \/ BuildSpec \/ CreateAgent \/ Grant \/ CreateVersion
           \/ Await \/ GiveUp \/ SetEndpoint \/ Crash
  BY <1>2 DEF RejectApply, Stage, BuildSpec, CreateAgent, Grant, AfterAgent, CreateVersion,
     Await, GiveUp, SetEndpoint, Crash, Go, End, Idle
<1>3. CASE Return
  BY <1>3 DEF Return, Idle
<1>4. CASE Destroy
  BY <1>4 DEF Destroy, Idle
<1> QED BY <1>1, <1>2, <1>3, <1>4 DEF Next, Advance

\* What the operation notes about a version that was torn down.
Flight == [work EXCEPT !.inFlight = [version |-> awaited, packHash |-> want.pack,
                                     configHash |-> Fingerprint(want.config)]]

LEMMA WorkMoves ==
  ASSUME TypeOK, [Next]_vars, ~DryRunApply
  PROVE  \/ Alike(work', work)
         \/ work' = newState
         \/ work' = doc
         \/ pc = "await" /\ pc' = "return" /\ UNCHANGED planeVars /\ work' = Flight
         \/ /\ pc = "setEndpoint" /\ pc' = "return" /\ agents[Site].exists
            /\ DoSetEndpoint(Site, awaited) /\ work' = Served(work)
<1>1. work \in States /\ want \in Requests
  BY DEF TypeOK, OpTypeOK
<1>2. Alike(work, work) /\ Alike(Noted(work), work) /\ Alike(Settled(work), work)
      /\ Alike([work EXCEPT !.agentName = want.pack.name], work)
  BY <1>1, AlikeCopies
<1>3. CASE UNCHANGED vars \/ ChangeMind \/ Activate \/ Disturbance
  BY <1>2, <1>3 DEF vars, opVars, ChangeMind, Activate, Disturbance
<1>4. CASE StartApply
  BY <1>4 DEF StartApply
<1>5. CASE RejectApply \/ Return \/ Crash \/ Destroy
  BY <1>5 DEF RejectApply, Return, Crash, Destroy, Idle
<1>6. CASE Stage \/ BuildSpec \/ CreateAgent \/ Grant \/ CreateVersion \/ GiveUp
  BY <1>2, <1>6 DEF Stage, BuildSpec, CreateAgent, Grant, AfterAgent, CreateVersion, GiveUp,
     Go, End, Idle
<1>7. CASE Await
  BY <1>2, <1>7 DEF Await, Go, End, Flight
<1>8. CASE SetEndpoint
  BY <1>2, <1>8 DEF SetEndpoint, Serving, End
<1> QED BY <1>3, <1>4, <1>5, <1>6, <1>7, <1>8 DEF Next, Advance

\* The history with a new head, entry by entry.
LEMMA RememberEntries ==
  ASSUME NEW v \in Versions, NEW prior \in Seq(Versions), NEW r, r = Remember(v, prior)
  PROVE  /\ Len(r) <= MaxPriorVersions
         /\ DOMAIN r \subseteq 1 .. Len(prior) + 1
         /\ \A i \in DOMAIN r : r[i] = IF i = 1 THEN v ELSE prior[i - 1]
<1> DEFINE long == <<v>> \o prior
           n    == IF Len(prior) < MaxPriorVersions THEN Len(prior) + 1 ELSE MaxPriorVersions
<1>1. Len(prior) \in Nat
  BY LenProperties
<1>2. <<v>> \in Seq(Versions) /\ Len(<<v>>) = 1 /\ <<v>>[1] = v
  OBVIOUS
<1>3. /\ long \in Seq(Versions) /\ Len(long) = Len(prior) + 1
      /\ \A i \in 1 .. Len(long) : long[i] = IF i = 1 THEN v ELSE prior[i - 1]
  BY <1>1, <1>2, ConcatProperties
<1>4. n \in Nat /\ n <= Len(prior) + 1 /\ n <= MaxPriorVersions
  BY <1>1, HistoryAssumption
<1>5. \A i \in 1 .. n : long[i] \in Versions
  <2> TAKE i \in 1 .. n
  <2>1. i \in 1 .. Len(long)
    BY <1>1, <1>3, <1>4
  <2> QED BY <1>3, <2>1, ElementOfSeq
<1>6. r = SubSeq(long, 1, n)
  BY DEF Remember
<1> HIDE DEF n, long
<1>7. Len(r) = n /\ DOMAIN r = 1 .. n /\ \A i \in 1 .. n : r[i] = long[i]
  BY <1>4, <1>5, <1>6, SubSeqProperties
<1> QED BY <1>1, <1>3, <1>4, <1>7

-----------------------------------------------------------------------------
(* The invariant.                                                          *)

\* Once the endpoint call was answered, the new history is a history.
LEMMA ServedSound ==
  ASSUME RecordInv, [Next]_vars, "repoint" \notin Faults, pc = "setEndpoint", pc' = "return",
         DoSetEndpoint(Site, awaited)
  PROVE  SoundNext(Served(work)) /\ Served(work).served = awaited /\ awaited > work.served
<1>1. /\ SoundNext(work) /\ work \in States /\ work.served \in Nat
      /\ HistoryOf(work) /\ awaited \in 1 .. issued /\ awaited \in Versions
      /\ versions[awaited].site = Site /\ Site \in Sites
  BY SoundKept, RecordTypes DEF RecordInv, Sound, AwaitedOwn
<1>2. work.served # 0 => work.served \in Versions /\ versions[work.served].live
  BY <1>1, RecordTypes DEF HistoryOf, Usable, States, Versions
<1>3. awaited > work.served
  BY <1>1, <1>2, RecordTypes DEF RecordInv, AwaitedNewest, Newest
<1>4. UsableNext(awaited)
  <2>1. /\ versions'[awaited].live /\ versions'[awaited].site = Site
        /\ versions'[awaited].status = versions[awaited].status
        /\ agents'[Site].exists = agents[Site].exists
    BY <1>1, RecordTypes DEF DoSetEndpoint, TypeOK, PlaneTypeOK
  <2> QED BY <1>1, <2>1 DEF UsableNext, RecordInv, DeployInv, EndpointInv, AwaitedActive
<1> DEFINE kept == IF work.served = 0 THEN work.prior ELSE Remember(work.served, work.prior)
<1>5. /\ Served(work).served = awaited /\ Served(work).prior = kept
      /\ Served(work).inFlight = None /\ Served(work).agentName # None
  BY <1>1, <1>3 DEF Served, recordVersion, States, RecordInv, CopyInv
<1>6. /\ work.prior \in Seq(Versions) /\ DOMAIN work.prior = 1 .. Len(work.prior)
      /\ Len(work.prior) \in Nat
  BY <1>1, LenProperties DEF States
<1>h. \A i \in DOMAIN work.prior : work.prior[i] \in Versions
  BY <1>6, ElementOfSeq
<1>7. /\ Len(kept) <= MaxPriorVersions
      /\ \A i \in DOMAIN kept :
           /\ UsableNext(kept[i])
           /\ kept[i] < awaited
           /\ \A j \in DOMAIN kept : j < i => kept[i] < kept[j]
  <2>1. CASE work.served = 0
    <3>1. DOMAIN work.prior = {}
      BY <1>1, <1>h, <2>1 DEF HistoryOf, Versions
    <3> QED BY <1>1, <2>1, <3>1 DEF HistoryOf
  <2>2. CASE work.served # 0
    <3>1. /\ Len(kept) <= MaxPriorVersions
          /\ DOMAIN kept \subseteq 1 .. Len(work.prior) + 1
          /\ \A i \in DOMAIN kept : kept[i] = IF i = 1 THEN work.served ELSE work.prior[i - 1]
      BY <1>2, <1>6, <2>2, RememberEntries
    <3> HIDE DEF kept
    <3>2. ASSUME NEW i \in DOMAIN kept
          PROVE  /\ UsableNext(kept[i])
                 /\ kept[i] < awaited
                 /\ \A j \in DOMAIN kept : j < i => kept[i] < kept[j]
      <4>1. CASE i = 1
        BY <1>1, <1>3, <1>6, <2>2, <3>1, <4>1 DEF SoundNext, HistoryNext
      <4>2. CASE i # 1
        <5>1. i - 1 \in DOMAIN work.prior /\ kept[i] = work.prior[i - 1]
          BY <1>6, <3>1, <4>2
        <5>2. work.prior[i - 1] < work.served /\ UsableNext(work.prior[i - 1])
          BY <1>1, <5>1 DEF SoundNext, HistoryNext
        <5>3. ASSUME NEW j \in DOMAIN kept, j < i PROVE kept[i] < kept[j]
          <6>1. CASE j = 1
            BY <3>1, <5>1, <5>2, <6>1
          <6>2. CASE j # 1
            <7>1. j - 1 \in DOMAIN work.prior /\ kept[j] = work.prior[j - 1] /\ j - 1 < i - 1
              BY <1>6, <3>1, <5>3, <6>2
            <7> QED BY <1>1, <5>1, <7>1 DEF HistoryOf
          <6> QED BY <6>1, <6>2
        <5> QED BY <1>1, <1>3, <1>h, <5>1, <5>2, <5>3 DEF Versions
      <4> QED BY <4>1, <4>2
    <3> QED BY <3>1, <3>2
  <2> QED BY <2>1, <2>2
<1> HIDE DEF kept
<1>8. HistoryNext(Served(work))
  BY <1>4, <1>5, <1>7 DEF HistoryNext
<1> QED BY <1>3, <1>5, <1>8 DEF SoundNext, InFlightNext, Nameless

\* A version that was torn down while it was awaited was never served.
LEMMA FlightSound ==
  ASSUME RecordInv, [Next]_vars, "repoint" \notin Faults, pc = "await", pc' = "return",
         UNCHANGED planeVars
  PROVE  SoundNext(Flight) /\ Flight.served = work.served
<1>1. /\ SoundNext(work) /\ work \in States /\ work.served \in Nat
      /\ HistoryOf(work) /\ awaited \in 1 .. issued /\ awaited \in Versions
  BY SoundKept, RecordTypes DEF RecordInv, Sound, AwaitedOwn
<1>2. work.served # 0 => work.served \in Versions /\ versions[work.served].live
  BY <1>1, RecordTypes DEF HistoryOf, Usable, States, Versions
<1>3. awaited > work.served /\ ~versions[awaited].live
  BY <1>1, <1>2, RecordTypes DEF RecordInv, AwaitedNewest, Newest
<1>4. /\ Flight.served = work.served /\ Flight.prior = work.prior
      /\ Flight.agentName = work.agentName /\ Flight.inFlight.version = awaited
  BY <1>1 DEF Flight, States
<1>5. InFlightNext(Flight)
  BY <1>1, <1>3, <1>4, RecordTypes DEF InFlightNext, planeVars
<1> QED BY <1>1, <1>4, <1>5 DEF SoundNext, HistoryNext, Nameless

LEMMA SoundStep ==
  ASSUME RecordInv, [Next]_vars, "repoint" \notin Faults, \A c \in Configs : ~c.dryRun
  PROVE  Sound(doc)' /\ Sound(work)'
<1>1. SoundNext(doc) /\ SoundNext(work) /\ SoundNext(newState)
  BY SoundKept, SoundNew
<1>2. SoundNext(doc')
  BY <1>1, DocMoves, RecordTypes, NeverRehearsed
<1>3. SoundNext(work')
  BY <1>1, WorkMoves, NeverRehearsed, SoundAlike, FlightSound, ServedSound, RecordTypes
<1> QED BY <1>2, <1>3, SoundPrimed

LEMMA NewestStep ==
  ASSUME RecordInv, [Next]_vars, "repoint" \notin Faults
  PROVE  AwaitedNewest'
<1> SUFFICES ASSUME pc' \in {"await", "setEndpoint"}, NEW u \in Versions, versions'[u].live
             PROVE  u < awaited'
  BY DEF AwaitedNewest, Newest
<1>1. CASE pc' = pc /\ UNCHANGED <<want, awaited>>
  BY <1>1, LiveMoves DEF RecordInv, AwaitedNewest, Newest
<1>2. CASE \E n \in {1, 2} :
             DoCreateVersions(Site, buildAgentSpec(want), n) /\ awaited' = issued + n
  <2>1. versions[u].live
    BY <1>2 DEF DoCreateVersions
  <2> QED BY <1>2, <2>1, LiveIssued, RecordTypes
<1>3. CASE pc = "await" /\ UNCHANGED <<awaited, planeVars>>
  BY <1>3 DEF RecordInv, AwaitedNewest, Newest, planeVars
<1> QED BY <1>1, <1>2, <1>3, WaitMoves, RecordTypes

\* After a step that leaves the document and the served version alone.
CopyNext ==
  /\ pc' # "idle" => \/ work'.served = doc'.served
                     \/ pc' = "return" /\ work'.served > doc'.served
  /\ pc' \in {"stage", "spec", "createAgent"} => work'.agentName = doc'.agentName
  /\ pc' = "createAgent" => work'.agentName = None
  /\ pc' \in {"grant", "createVersion", "await", "setEndpoint"} => work'.agentName # None
  /\ pc' = "setEndpoint" => work'.inFlight = None

LEMMA CopyStep ==
  ASSUME RecordInv, [Next]_vars, "repoint" \notin Faults, \A c \in Configs : ~c.dryRun
  PROVE  CopyInv'
<1> SUFFICES CopyNext
  BY DEF CopyInv, CopyNext
<1>1. /\ ~want.config.dryRun /\ work \in States /\ want \in Requests
      /\ CopyInv /\ doc.served \in Nat /\ work.served \in Nat
  BY RecordTypes DEF Requests, RecordInv
<1> DEFINE named == [work EXCEPT !.agentName = want.pack.name]
<1>2. /\ Noted(work).served = work.served /\ Noted(work).agentName = work.agentName
      /\ Settled(work).served = work.served /\ Settled(work).agentName = work.agentName
      /\ Settled(work).inFlight = None
      /\ named.served = work.served /\ named.agentName # None
  BY <1>1, AlikeCopies DEF Alike
<1> HIDE DEF named
<1>3. CASE UNCHANGED vars \/ Activate \/ Disturbance
  BY <1>1, <1>3 DEF vars, opVars, Activate, Disturbance, CopyInv, CopyNext
<1>4. CASE ChangeMind
  BY <1>4 DEF ChangeMind, opVars, CopyNext
<1>5. CASE StartApply
  BY <1>5 DEF StartApply, CopyNext
<1>6. CASE RejectApply \/ Return \/ Crash \/ Destroy
  BY <1>6 DEF RejectApply, Return, Crash, Destroy, Idle, CopyNext
<1>7. CASE Stage
  BY <1>1, <1>7 DEF Stage, Go, Idle, CopyInv, CopyNext
<1>8. ASSUME NEW state, NEW made, AfterAgent(state, made), state.served = work.served,
             state.agentName # None, pc # "idle", pc # "return"
      PROVE  CopyNext
  BY <1>1, <1>8 DEF AfterAgent, Go, End, CopyInv, CopyNext
<1>9. CASE BuildSpec
  <2>1. CASE Noted(work).agentName = None /\ Go("createAgent", Noted(work), {})
    BY <1>1, <1>2, <1>9, <2>1 DEF BuildSpec, Go, CopyInv, CopyNext
  <2>2. CASE Noted(work).agentName # None /\ AfterAgent(Noted(work), {})
    BY <1>2, <1>8, <1>9, <2>2 DEF BuildSpec
  <2>3. CASE Idle("error", doc)
    BY <2>3 DEF Idle, CopyNext
  <2> QED BY <1>9, <2>1, <2>2, <2>3 DEF BuildSpec
<1>10. ASSUME End("error", work, {}), pc # "idle", pc # "return" PROVE CopyNext
  BY <1>1, <1>10 DEF End, CopyInv, CopyNext
<1>11. CASE CreateAgent
  <2>1. CASE Go("grant", named, {"CreateAgent"})
    BY <1>1, <1>2, <1>11, <2>1 DEF CreateAgent, Go, CopyInv, CopyNext
  <2>2. CASE AfterAgent(named, {"CreateAgent"})
    BY <1>2, <1>8, <1>11, <2>2 DEF CreateAgent
  <2>3. CASE End("error", work, {})
    BY <1>10, <1>11, <2>3 DEF CreateAgent
  <2> QED BY <1>11, <2>1, <2>2, <2>3 DEF CreateAgent, named
<1>12. CASE Grant
  BY <1>1, <1>8, <1>12 DEF Grant, CopyInv
<1>13. CASE CreateVersion
  <2>1. CASE pc' = "await" /\ UNCHANGED <<doc, work>>
    BY <1>1, <1>13, <2>1 DEF CreateVersion, CopyInv, CopyNext
  <2>2. CASE End("error", work, {})
    BY <1>10, <1>13, <2>2 DEF CreateVersion
  <2> QED BY <1>13, <2>1, <2>2 DEF CreateVersion
<1>14. CASE Await \/ GiveUp
  <2>1. CASE Go("setEndpoint", Settled(work), {})
    BY <1>1, <1>2, <1>14, <2>1 DEF Await, GiveUp, Go, CopyInv, CopyNext
  <2>2. CASE pc = "await" /\ End("ok", Flight, {})
    <3>1. Flight.served = work.served
      BY <1>1 DEF Flight, States
    <3> QED BY <1>1, <2>2, <3>1 DEF End, CopyInv, CopyNext
  <2>3. CASE End("error", work, {})
    BY <1>10, <1>14, <2>3 DEF Await, GiveUp
  <2> QED BY <1>14, <2>1, <2>2, <2>3 DEF Await, GiveUp, Flight
<1>15. CASE SetEndpoint
  <2>1. CASE DoSetEndpoint(Site, awaited) /\ End("ok", Served(work), {"SetEndpoint"})
    <3>1. Served(work).served > work.served
      BY <1>15, <2>1, ServedSound, RecordTypes DEF SetEndpoint, End
    <3> QED BY <1>1, <1>15, <2>1, <3>1 DEF SetEndpoint, End, CopyInv, CopyNext
  <2>2. CASE End("error", work, {})
    BY <1>10, <1>15, <2>2 DEF SetEndpoint
  <2> QED BY <1>15, <2>1, <2>2 DEF SetEndpoint, Serving
<1>16. CASE DryRunApply
  BY <1>1, <1>16 DEF DryRunApply
<1> QED BY <1>3, <1>4, <1>5, <1>6, <1>7, <1>9, <1>11, <1>12, <1>13, <1>14, <1>15, <1>16
        DEF Next, Advance

LEMMA RecordInvInit == Init => RecordInv
<1> SUFFICES ASSUME Init PROVE RecordInv
  OBVIOUS
<1>1. DeployInv
  BY EndpointInvInit DEF Init, DeployInv, Describes, newState
<1>2. Len(<<>>) = 0 /\ DOMAIN <<>> = {}
  OBVIOUS
<1>3. Sound(newState)
  BY <1>2, HistoryAssumption DEF Sound, HistoryOf, InFlightOf, Nameless, newState
<1>4. doc = newState /\ work = newState /\ pc = "idle"
  BY DEF Init
<1> QED BY <1>1, <1>3, <1>4 DEF RecordInv, AwaitedNewest, CopyInv

LEMMA RecordInvariant ==
  ASSUME "repoint" \notin Faults, \A c \in Configs : ~c.dryRun
  PROVE  Spec => []RecordInv
<1>1. RecordInv /\ [Next]_vars => RecordInv'
  <2> SUFFICES ASSUME RecordInv, [Next]_vars PROVE RecordInv'
    OBVIOUS
  <2>1. DeployInv'
    BY EndpointInvStep, DescribesStep, NeverRehearsed DEF RecordInv, DeployInv, EndpointInv
  <2> QED BY <2>1, SoundStep, NewestStep, CopyStep DEF RecordInv
<1> QED BY <1>1, RecordInvInit, PTL DEF Spec

(* What the document offers to go back to can be served again, newest      *)
(* first and within its bound, and what it waits for was never served,     *)
(* after every failure and interruption: when nobody else moves an         *)
(* endpoint and no configuration is a dry run.                             *)
THEOREM RecordAlwaysUsable ==
  ASSUME "repoint" \notin Faults, \A c \in Configs : ~c.dryRun
  PROVE  Spec => []RecordUsable
<1>1. RecordInv => RecordUsable
  BY DEF RecordInv, Sound, HistoryOf, InFlightOf, Usable, RecordUsable, HistoryUsable,
     InFlightUnserved
<1> QED BY <1>1, RecordInvariant, PTL

-----------------------------------------------------------------------------
(* The deployment implements EndpointPromise.                              *)

Live == [s \in Sites |-> agents[s].served]
Past == {v \in Versions : versions[v].live}

\* A step that leaves every endpoint alone, or takes some away.
LEMMA EndpointMoves ==
  ASSUME RecordInv, [Next]_vars, "repoint" \notin Faults
  PROVE  \/ Live' = Live /\ Past' = Past
         \/ \E s \in Sites : Live' = [Live EXCEPT ![s] = 0] /\ Past' = Past
         \/ /\ pc = "setEndpoint" /\ pc' = "return"
            /\ Live' = [Live EXCEPT ![Site] = awaited] /\ Past' = Past \union {awaited}
<1>1. PlaneMove /\ Site \in Sites /\ awaited \in Nat
  BY PlaneMoves, RecordTypes
<1>2. /\ agents \in [Sites -> [exists : BOOLEAN, served : 0 .. MaxVersions, granted : BOOLEAN]]
      /\ versions \in [Versions -> [site : Sites \union {None}, spec : Specs \union {None},
                                    status : Statuses, live : BOOLEAN]]
      /\ 1 .. issued \subseteq Versions /\ issued \in Nat
  BY RecordTypes DEF TypeOK, PlaneTypeOK
<1>3. CASE UNCHANGED <<agents, versions, issued>>
  BY <1>3 DEF Live, Past
<1>4. CASE pc = "createAgent" /\ DoCreateAgent(Site)
  BY <1>1, <1>2, <1>4 DEF DoCreateAgent, Live, Past
<1>5. CASE \E s \in Sites : DoDeleteAgent(s)
  <2>1. PICK s \in Sites : DoDeleteAgent(s)
    BY <1>5
  <2>2. Live' = [Live EXCEPT ![s] = 0]
    BY <1>2, <2>1 DEF DoDeleteAgent, NoAgent, Live
  <2>3. \A v \in Versions : versions'[v].live = versions[v].live
    BY <1>2, <2>1 DEF DoDeleteAgent
  <2> QED BY <2>2, <2>3 DEF Past
<1>6. CASE \E s \in Sites : DoGrant(s)
  BY <1>2, <1>6 DEF DoGrant, Live, Past
<1>7. CASE \E n \in {1, 2} : DoCreateVersions(Site, buildAgentSpec(want), n)
  <2>1. Live' = Live
    BY <1>7 DEF DoCreateVersions, Live
  <2>2. \A v \in Versions : versions'[v].live = versions[v].live
    <3> TAKE v \in Versions
    <3>1. v > issued => versions[v].live = FALSE
      BY RecordTypes DEF Unissued, NoVersion
    <3>2. PICK n \in {1, 2} : DoCreateVersions(Site, buildAgentSpec(want), n)
      BY <1>7
    <3>3. CASE v \in issued + 1 .. issued + n
      <4>1. versions'[v].live = FALSE
        BY <3>2, <3>3 DEF DoCreateVersions
      <4>2. v > issued
        BY <1>2, <3>2, <3>3
      <4> QED BY <3>1, <4>1, <4>2, Zenon
    <3>4. CASE v \notin issued + 1 .. issued + n
      BY <3>2, <3>4 DEF DoCreateVersions
    <3> QED BY <3>3, <3>4
  <2> QED BY <2>1, <2>2 DEF Past
<1>8. CASE \E v \in 1 .. issued : \E outcome \in {"active", "failed", "deleted"} : Settle(v, outcome)
  BY <1>2, <1>8 DEF Settle, Live, Past
<1>9. CASE /\ pc = "setEndpoint" /\ pc' = "return"
           /\ agents[Site].exists /\ DoSetEndpoint(Site, awaited)
  <2>1. awaited \in Versions
    BY <1>2, <1>9, RecordTypes DEF AwaitedOwn
  <2>2. Live' = [Live EXCEPT ![Site] = awaited]
    BY <1>1, <1>2, <1>9 DEF DoSetEndpoint, Live
  <2>3. \A v \in Versions : versions'[v].live <=> versions[v].live \/ v = awaited
    BY <1>2, <1>9, <2>1 DEF DoSetEndpoint
  <2>4. Past' = Past \union {awaited}
    BY <2>1, <2>3 DEF Past
  <2> QED BY <1>9, <2>2, <2>4
<1> QED BY <1>1, <1>3, <1>4, <1>5, <1>6, <1>7, <1>8, <1>9 DEF PlaneMove

LEMMA PromiseInit == Init => Promise!Init
<1> SUFFICES ASSUME Init PROVE Promise!Init
  OBVIOUS
<1>1. Past = {} /\ Live = [s \in Sites |-> 0]
  BY DEF Init, PlaneInit, NoVersion, NoAgent, Past, Live
<1>2. doc.served = 0
  BY DEF Init, newState
<1> QED BY <1>1, <1>2 DEF Promise!Init, Past, Live

\* The record moves when an operation returns, and then the endpoints rest.
LEMMA ServedMoves ==
  ASSUME RecordInv, [Next]_vars, \A c \in Configs : ~c.dryRun
  PROVE  \/ doc'.served = doc.served
         \/ doc'.served = 0 /\ pc' = "idle"
         \/ /\ pc = "return" /\ UNCHANGED planeVars
            /\ doc'.served \in Past /\ doc'.served > doc.served
<1>1. newState.served = 0
  BY DEF newState
<1>2. CASE doc' = work /\ pc = "return" /\ UNCHANGED planeVars /\ work.served # doc.served
  <2>1. work.served > doc.served
    BY <1>2 DEF RecordInv, CopyInv
  <2>2. work.served # 0 /\ work.served \in 0 .. MaxVersions
    BY <2>1, RecordTypes DEF States
  <2>3. versions[work.served].live /\ work.served \in Versions
    BY <2>2, RecordTypes DEF RecordInv, Sound, HistoryOf, Usable, Versions
  <2> QED BY <1>2, <2>1, <2>3 DEF Past
<1> QED BY <1>1, <1>2, DocMoves, RecordTypes, NeverRehearsed

LEMMA PromiseStep ==
  ASSUME RecordInv, [Next]_vars, "repoint" \notin Faults, \A c \in Configs : ~c.dryRun
  PROVE  [Promise!Next]_(Promise!promiseVars)
<1> DEFINE rec == doc.served
<1>1. \/ Live' = Live /\ Past' = Past
      \/ \E s \in Sites : Live' = [Live EXCEPT ![s] = 0] /\ Past' = Past
      \/ /\ pc = "setEndpoint" /\ pc' = "return"
         /\ Live' = [Live EXCEPT ![Site] = awaited] /\ Past' = Past \union {awaited}
  BY EndpointMoves
<1>2. \/ rec' = rec
      \/ rec' = 0 /\ pc' = "idle"
      \/ pc = "return" /\ UNCHANGED planeVars /\ rec' \in Past /\ rec' > rec
  BY ServedMoves
<1>3. UNCHANGED planeVars => Live' = Live /\ Past' = Past
  BY DEF planeVars, Live, Past
<1> DEFINE promote(s, v) == /\ \A u \in Past : u < v
                            /\ Live' = [Live EXCEPT ![s] = v]
                            /\ Past' = Past \union {v}
                            /\ rec' = rec
           record(v) == v \in Past /\ v > rec /\ rec' = v /\ Live' = Live /\ Past' = Past
           remove(s) == /\ Live' = [Live EXCEPT ![s] = 0]
                        /\ rec' \in {rec, 0}
                        /\ Past' = Past
           forget == rec' = 0 /\ Live' = Live /\ Past' = Past
           rest == Live' = Live /\ Past' = Past /\ rec' = rec
<1> SUFFICES \/ rest \/ forget
             \/ \E s \in Sites : remove(s) \/ \E v \in Versions : promote(s, v)
             \/ \E v \in Versions : record(v)
  BY DEF Promise!Next, Promise!promiseVars, Promise!Promote, Promise!Record,
         Promise!Remove, Promise!Forget, Live, Past
<1>4. Past \subseteq Versions
  BY DEF Past
<1>5. CASE pc = "setEndpoint" /\ pc' = "return"
           /\ Live' = [Live EXCEPT ![Site] = awaited] /\ Past' = Past \union {awaited}
  <2>1. Site \in Sites /\ awaited \in Versions
    BY <1>5, RecordTypes DEF AwaitedOwn
  <2>2. \A u \in Past : u < awaited
    BY <1>5 DEF RecordInv, AwaitedNewest, Newest, Past
  <2>3. rec' = rec
    BY <1>2, <1>5
  <2>4. promote(Site, awaited)
    BY <1>5, <2>2, <2>3
  <2> QED BY <2>1, <2>4
<1>6. CASE pc = "return" /\ UNCHANGED planeVars /\ rec' \in Past /\ rec' > rec
  BY <1>3, <1>4, <1>6
<1>7. CASE rec' \in {rec, 0} /\ (\/ Live' = Live /\ Past' = Past
                                \/ \E s \in Sites : Live' = [Live EXCEPT ![s] = 0] /\ Past' = Past)
  BY <1>7
<1> QED BY <1>1, <1>2, <1>3, <1>5, <1>6, <1>7

(* An endpoint only ever moves to a version newer than all that were live, *)
(* and the record follows it, never leads it, after every failure and      *)
(* interruption: when nobody else moves an endpoint and no configuration is*)
(* a dry run.                                                              *)
THEOREM DeployKeepsPromise ==
  ASSUME "repoint" \notin Faults, \A c \in Configs : ~c.dryRun
  PROVE  Spec => PromiseKept
<1>1. RecordInv /\ [Next]_vars => [Promise!Next]_(Promise!promiseVars)
  BY PromiseStep
<1> QED BY <1>1, PromiseInit, RecordInvariant, PTL DEF Spec, PromiseKept, Promise!Spec
=============================================================================
