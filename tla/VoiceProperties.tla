--------------------------- MODULE VoiceProperties ---------------------------
(***************************************************************************)
(* What a voice session promises, over the steps of VoiceSession.          *)
(***************************************************************************)
EXTENDS VoiceSession, FiniteSets

OnWire(word) == \E i \in DOMAIN wire : wire[i][1] = word

(***************************************************************************)
(* OneWriter: the pump and the inbound goroutine are never inside a write  *)
(* of the connection together; the library supports one writer.            *)
(***************************************************************************)
OneWriter == Cardinality(holder) <= 1

\* What the pump may write, and that one frame of it comes before another.
FromPump == Kinds \cup {"done"}

WithinChunk == {<<"audio", "text">>, <<"audio", "transcript">>, <<"text", "transcript">>}

Before(f, g) ==
  /\ f[1] # "done"
  /\ \/ g[1] = "done"
     \/ f[2] < g[2]
     \/ f[2] = g[2] /\ <<f[1], g[1]>> \in WithinChunk

HeardAt == {i \in DOMAIN wire : wire[i][1] \in FromPump}
Heard   == {wire[i] : i \in HeardAt}

\* The first n frames the pump was given.
Spoken(n) == {spoken[k] : k \in 1 .. n}

(***************************************************************************)
(* HeardInOrder: what the caller hears of the conversation is what it put  *)
(* out, in order, a chunk's audio before its text before its transcript,   *)
(* without a gap, and done is heard only after all of it, whatever the     *)
(* inbound goroutine writes in between and whichever writes fail.          *)
(***************************************************************************)
HeardInOrder ==
  /\ \A i, j \in HeardAt : i < j => Before(wire[i], wire[j])
  /\ \E n \in 0 .. Len(spoken) : Heard = Spoken(n)

(***************************************************************************)
(* FailureExplained: a caller whose session fails is told why before the   *)
(* connection is closed on it, and nothing comes after the close frame.    *)
(***************************************************************************)
FailureExplained ==
  OnWire("close") => OnWire("error") /\ wire[Len(wire)][1] = "close"

(***************************************************************************)
(* Listening: audio of the caller, or an interrupt, does not stay stuck in *)
(* the relay, even when the caller reads nothing of what is sent back and  *)
(* the conversation's output piles up behind it.                           *)
(***************************************************************************)
Listening ==
  (inbound \in {"relaying", "interrupting"}) ~> (inbound \notin {"relaying", "interrupting"})

(***************************************************************************)
(* HangUpEnds: when the caller hangs up, or the session ends in any other  *)
(* way, the conversation is closed and both goroutines end.                *)
(***************************************************************************)
HangUpEnds ==
  (client = "gone") ~> (inbound = "ended" /\ pump \in {"none", "ended"} /\ conv # "open")
-----------------------------------------------------------------------------
(***************************************************************************)
(* Why OneWriter, HeardInOrder and FailureExplained hold: the inductive    *)
(* invariant VoiceSessionProofs proves them from.                          *)
(***************************************************************************)

\* A goroutine inside a write has something to write.
Writing ==
  /\ holder \in {{}, {"inbound"}, {"pump"}}
  /\ "inbound" \in holder => inbound \in {"greeting", "failing", "closing"}
  /\ "pump" \in holder => todo # <<>>

\* The pump starts once.
Started == inbound \in {"upgrading", "opening", "responding"} => pump = "none"

\* What the pump was given is in order, and its end is still to be written.
Taken == output - Len(waiting)
Done  == Len(spoken) - Len(todo)

InOrder ==
  /\ Taken >= 0
  /\ Done >= 0
  /\ \A k \in 1 .. Len(todo) : todo[k] = spoken[Done + k]
  /\ \A j, k \in DOMAIN spoken : j < k => Before(spoken[j], spoken[k])
  /\ \A k \in DOMAIN spoken : spoken[k][1] \in FromPump /\ spoken[k][2] <= Taken
  /\ pump \in {"none", "relaying"} => \A k \in DOMAIN spoken : spoken[k][1] # "done"

\* What was heard is a beginning of it, all that was written while the
\* connection held.
HeardSoFar ==
  /\ \A i, j \in HeardAt : i < j => Before(wire[i], wire[j])
  /\ \E n \in 0 .. Done : Heard = Spoken(n) /\ (socket = "open" => n = Done)

\* The error is on the wire before the close frame, which is the last.
Explained ==
  /\ inbound = "closing" /\ socket = "open" => OnWire("error")
  /\ OnWire("close") => socket = "dead"
  /\ FailureExplained

VoiceInv == TypeOK /\ Writing /\ Started /\ InOrder /\ HeardSoFar /\ Explained
=============================================================================
