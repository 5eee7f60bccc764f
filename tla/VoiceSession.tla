---------------------------- MODULE VoiceSession ----------------------------
(***************************************************************************)
(* One call over WS /invocations_ws (ws_voice.go): the inbound goroutine,  *)
(* which runs the session and relays the caller's frames into a duplex     *)
(* conversation, the response pump, which relays its output back, the      *)
(* mutex both write under, and the caller at the other end.                *)
(*                                                                         *)
(* The conversation and the WebSocket library are outside the repository.  *)
(* The conversation hands its output over one chunk at a time and takes no *)
(* input while Backlog chunks wait; its stream of responses ends by itself *)
(* or once it is closed.  The library refuses every write after a close    *)
(* frame or a write that failed.                                           *)
(***************************************************************************)
EXTENDS Integers, Sequences

CONSTANTS
  Chunks,     \* what one chunk of output may carry: sets of Kinds
  MaxChunks,  \* bound on the chunks a conversation puts out
  Backlog,    \* how many of them may wait for the pump
  None        \* no frame, no goroutine

Kinds == {"audio", "text", "transcript"}

ASSUME ChunksAssumption == Chunks \subseteq SUBSET Kinds
ASSUME SizeAssumption == MaxChunks \in Nat /\ Backlog \in Nat \ {0}

VARIABLES
  inbound,    \* where the inbound goroutine is
  pump,       \* where the response pump is
  todo,       \* the frames of the chunk the pump has in hand
  holder,     \* the goroutines inside write
  conv,       \* the conversation
  waiting,    \* the chunks that wait for the pump
  output,     \* how many chunks the conversation put out
  responses,  \* is its stream of responses open
  client,     \* what the caller does
  socket,     \* can the connection still be written to
  spoken,     \* history: the frames the pump was given, in order
  wire        \* history: the frames that reached the caller

vars == <<inbound, pump, todo, holder, conv, waiting, output, responses,
          client, socket, spoken, wire>>

-----------------------------------------------------------------------------
Frames == (Kinds \X (1 .. MaxChunks)) \cup {<<w, 0>> : w \in {"ready", "error", "close", "done"}}

\* What the inbound goroutine writes where it is, if anything; fail writes the
\* error event first and the close frame after it.  (The mutated form closes
\* first.)
CloseFirst == CASE inbound = "greeting" -> <<"ready", 0>>
                [] inbound = "failing"  -> <<"close", 0>>
                [] inbound = "closing"  -> <<"error", 0>>
                [] OTHER -> None
InboundFrame == CASE inbound = "greeting" -> <<"ready", 0>>
                  [] inbound = "failing"  -> <<"error", 0>>
                  [] inbound = "closing"  -> <<"close", 0>>
                  [] OTHER -> None

AfterInbound == CASE inbound = "greeting" -> "reading"
                  [] inbound = "failing"  -> "closing"
                  [] inbound = "closing"  -> "leaving"

\* The frames of a chunk, in the order the pump writes them: what was
\* synthesized, its text, the transcript of what was heard.  (The mutated forms
\* write the text first, and count chunks from zero.)
Carried(kind, chunk, n) == IF kind \in chunk THEN <<<<kind, n>>>> ELSE <<>>
TextFirst(chunk, n) ==
  Carried("text", chunk, n) \o Carried("audio", chunk, n) \o Carried("transcript", chunk, n)
FromZero(chunk, n) ==
  Carried("audio", chunk, n - 1) \o Carried("text", chunk, n - 1)
    \o Carried("transcript", chunk, n - 1)
FramesOf(chunk, n) ==
  Carried("audio", chunk, n) \o Carried("text", chunk, n) \o Carried("transcript", chunk, n)

TypeOK ==
  /\ inbound \in {"upgrading", "opening", "responding", "greeting", "reading",
                  "relaying", "interrupting", "failing", "closing", "leaving", "ended"}
  /\ pump \in {"none", "relaying", "finishing", "ended"}
  /\ todo \in Seq(Frames)
  /\ holder \subseteq {"inbound", "pump"}
  /\ conv \in {"none", "open", "closed"}
  /\ waiting \in Seq(Chunks) /\ Len(waiting) <= Backlog
  /\ output \in 0 .. MaxChunks
  /\ responses \in {"open", "closed"}
  /\ client \in {"reading", "stalled", "gone"}
  /\ socket \in {"open", "dead"}
  /\ spoken \in Seq(Frames)
  /\ wire \in Seq(Frames)

Init ==
  /\ inbound = "upgrading"
  /\ pump = "none"
  /\ todo = <<>>
  /\ holder = {}
  /\ conv = "none"
  /\ waiting = <<>>
  /\ output = 0
  /\ responses = "open"
  /\ client = "reading"
  /\ socket = "open"
  /\ spoken = <<>>
  /\ wire = <<>>

-----------------------------------------------------------------------------
(***************************************************************************)
(* Writing: one goroutine at a time, each write under a deadline.          *)
(***************************************************************************)
FrameOf(g) == IF g = "inbound" THEN InboundFrame
              ELSE IF todo # <<>> THEN Head(todo) ELSE None

\* May a goroutine begin a write?  (The mutated form takes no lock.)
Unlocked(g) == g \notin holder
LockFree(g) == holder = {}

BeginWrite(g) ==
  /\ FrameOf(g) # None
  /\ LockFree(g)
  /\ holder' = holder \cup {g}
  /\ UNCHANGED <<inbound, pump, todo, conv, waiting, output, responses, client,
                 socket, spoken, wire>>

\* The writer goes on after a write, whether it succeeded or not.
GoOn(g) ==
  /\ holder' = holder \ {g}
  /\ IF g = "inbound"
       THEN /\ inbound' = AfterInbound
            /\ UNCHANGED <<pump, todo>>
       ELSE /\ todo' = Tail(todo)
            /\ pump' = IF pump = "finishing" THEN "ended" ELSE pump
            /\ UNCHANGED inbound

\* The frame reaches the caller; a close frame is the last that may.
FrameLands(g) ==
  /\ g \in holder
  /\ socket = "open"
  /\ client = "reading"
  /\ wire' = Append(wire, FrameOf(g))
  /\ socket' = IF FrameOf(g)[1] = "close" THEN "dead" ELSE "open"
  /\ GoOn(g)
  /\ UNCHANGED <<conv, waiting, output, responses, client, spoken>>

\* When does a write fail: on a dead socket, on a caller who is gone, and, for
\* one who does not read, when wsWriteTimeout passes.  (The mutated form sets
\* no deadline.)
FailsOnlyDead == socket = "dead" \/ client = "gone"
WriteFails == socket = "dead" \/ client # "reading"

FrameLost(g) ==
  /\ g \in holder
  /\ WriteFails
  /\ socket' = "dead"
  /\ GoOn(g)
  /\ UNCHANGED <<conv, waiting, output, responses, client, spoken, wire>>

-----------------------------------------------------------------------------
(***************************************************************************)
(* The inbound goroutine.                                                  *)
(***************************************************************************)
InboundTo(from, to) ==
  /\ inbound = from
  /\ inbound' = to
  /\ UNCHANGED <<pump, todo, holder, waiting, output, responses, client, socket,
                 spoken, wire>>

Upgrade ==
  /\ \/ InboundTo("upgrading", "opening")
     \/ InboundTo("upgrading", "ended")   \* the library has answered
  /\ UNCHANGED conv

OpenConversation ==
  \/ InboundTo("opening", "responding") /\ conv' = "open"
  \/ InboundTo("opening", "failing") /\ UNCHANGED conv

\* The stream of responses, and the pump on its own goroutine before the
\* ready event is written.
StartPump ==
  /\ inbound = "responding"
  /\ inbound' = "greeting"
  /\ pump' = "relaying"
  /\ UNCHANGED <<todo, holder, conv, waiting, output, responses, client, socket,
                 spoken, wire>>

ResponseFails == InboundTo("responding", "failing") /\ UNCHANGED conv

\* A binary frame is audio, a text frame may be an interrupt; any other is
\* ignored.
ReadFrame ==
  /\ client # "gone"
  /\ InboundTo("reading", "relaying") \/ InboundTo("reading", "interrupting")
  /\ UNCHANGED conv

\* A closed socket is the normal end of a call.
ReadFails ==
  /\ client = "gone"
  /\ InboundTo("reading", "leaving")
  /\ UNCHANGED conv

\* The conversation takes the audio, or the interrupt, when it has room.
Accepted ==
  /\ Len(waiting) < Backlog
  /\ InboundTo("relaying", "reading") \/ InboundTo("interrupting", "reading")
  /\ UNCHANGED conv

\* It may refuse: audio ends the session, an interrupt is only logged.
Rejected ==
  /\ InboundTo("relaying", "failing") \/ InboundTo("interrupting", "reading")
  /\ UNCHANGED conv

\* The deferred calls: the conversation is closed, then the connection.
CloseIfOpen == IF conv = "open" THEN "closed" ELSE conv

Leave ==
  /\ inbound = "leaving"
  /\ inbound' = "ended"
  /\ conv' = CloseIfOpen
  /\ socket' = "dead"
  /\ client' = "gone"
  /\ UNCHANGED <<pump, todo, holder, waiting, output, responses, spoken, wire>>

InboundStep ==
  \/ Upgrade \/ OpenConversation \/ StartPump \/ ResponseFails
  \/ ReadFails \/ Accepted \/ Leave

-----------------------------------------------------------------------------
(***************************************************************************)
(* The response pump, the conversation and the caller.                     *)
(***************************************************************************)

\* The pump takes the next chunk, whether or not anything can still be written.
\* (The mutated form stops once the connection fails.)
WhileWritable == socket = "open"
KeepsTaking == TRUE

TakeChunk ==
  /\ pump = "relaying"
  /\ todo = <<>>
  /\ waiting # <<>>
  /\ KeepsTaking
  /\ waiting' = Tail(waiting)
  /\ LET n == output - Len(waiting) + 1
         frames == FramesOf(Head(waiting), n)
     IN /\ todo' = frames
        /\ spoken' = spoken \o frames
  /\ UNCHANGED <<inbound, pump, holder, conv, output, responses, client, socket, wire>>

\* The stream ends: one more event.
EndPump ==
  /\ pump = "relaying"
  /\ todo = <<>>
  /\ waiting = <<>>
  /\ responses = "closed"
  /\ pump' = "finishing"
  /\ todo' = <<<<"done", 0>>>>
  /\ spoken' = Append(spoken, <<"done", 0>>)
  /\ UNCHANGED <<inbound, holder, conv, waiting, output, responses, client, socket, wire>>

\* The conversation puts out a chunk, an empty one if its turn failed: the
\* chunk's error is not looked at.
PutOut(chunk) ==
  /\ conv = "open"
  /\ responses = "open"
  /\ output < MaxChunks
  /\ Len(waiting) < Backlog
  /\ output' = output + 1
  /\ waiting' = Append(waiting, chunk)
  /\ UNCHANGED <<inbound, pump, todo, holder, conv, responses, client, socket, spoken, wire>>

EndResponses ==
  /\ conv # "none"
  /\ responses = "open"
  /\ responses' = "closed"
  /\ UNCHANGED <<inbound, pump, todo, holder, conv, waiting, output, client,
                 socket, spoken, wire>>

\* The caller stops reading, reads on or hangs up.
CallerTurns ==
  /\ inbound # "ended"
  /\ client # "gone"
  /\ client' \in {"reading", "stalled", "gone"} \ {client}
  /\ UNCHANGED <<inbound, pump, todo, holder, conv, waiting, output, responses,
                 socket, spoken, wire>>

-----------------------------------------------------------------------------
WriteStep(g) == BeginWrite(g) \/ FrameLands(g) \/ FrameLost(g)
PumpStep == TakeChunk \/ EndPump

Next ==
  \/ \E g \in {"inbound", "pump"} : WriteStep(g)
  \/ InboundStep
  \/ Rejected
  \/ ReadFrame
  \/ PumpStep
  \/ \E chunk \in Chunks : PutOut(chunk)
  \/ EndResponses
  \/ CallerTurns

Spec == Init /\ [][Next]_vars

\* Goroutines that can move do, sync.Mutex keeps no waiter out for ever, and a
\* closed conversation ends its stream.  Nothing is assumed of the caller, nor
\* that a conversation with no room would rather refuse.
Fairness ==
  /\ \A g \in {"inbound", "pump"} :
       SF_vars(BeginWrite(g)) /\ WF_vars(FrameLands(g) \/ FrameLost(g))
  /\ WF_vars(InboundStep)
  /\ WF_vars(PumpStep)
  /\ WF_vars(EndResponses /\ conv = "closed")

FairSpec == Spec /\ Fairness

=============================================================================
