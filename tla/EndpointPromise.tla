--------------------------- MODULE EndpointPromise ---------------------------
(***************************************************************************)
(* What the adapter promises about endpoints, whatever happens to its      *)
(* calls: an endpoint only ever moves to a version that was never live     *)
(* before and is newer than all that were, and the record of what is       *)
(* served follows the endpoint, never leads it.                            *)
(***************************************************************************)
EXTENDS Naturals

CONSTANTS AgentSites, Numbers   \* Numbers: the version numbers, without 0

VARIABLES
  live,       \* agent site -> the version its endpoint points at, 0 for none
  recorded,   \* the version the kept document says is served, 0 for none
  past        \* every version an endpoint pointed at

promiseVars == <<live, recorded, past>>

Init ==
  /\ live = [s \in AgentSites |-> 0]
  /\ recorded = 0
  /\ past = {}

\* The endpoint moves to a fresh version.
Promote(s, v) ==
  /\ \A u \in past : u < v
  /\ live' = [live EXCEPT ![s] = v]
  /\ past' = past \union {v}
  /\ UNCHANGED recorded

\* The record catches up with a version that was made live.
Record(v) ==
  /\ v \in past
  /\ v > recorded
  /\ recorded' = v
  /\ UNCHANGED <<live, past>>

\* The agent, and with it its endpoint, goes away; the record may stay behind.
Remove(s) ==
  /\ live' = [live EXCEPT ![s] = 0]
  /\ recorded' \in {recorded, 0}
  /\ UNCHANGED past

\* The record is dropped with nothing removed.
Forget ==
  /\ recorded' = 0
  /\ UNCHANGED <<live, past>>

Next ==
  \/ \E s \in AgentSites : Remove(s) \/ \E v \in Numbers : Promote(s, v)
  \/ \E v \in Numbers : Record(v)
  \/ Forget

Spec == Init /\ [][Next]_promiseVars
=============================================================================
