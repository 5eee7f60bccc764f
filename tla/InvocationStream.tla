-------------------------- MODULE InvocationStream --------------------------
(***************************************************************************)
(* What happens to the requests POST /invocations accepts: the handler     *)
(* goroutine net/http runs (handlers.go), the producer goroutine a         *)
(* streaming turn starts (turn.go), the unbuffered channel of text pieces  *)
(* and the one-place channel of errors between them, the conversation each *)
(* turn opens, the caller at the other end, and the histories turns save   *)
(* under a conversation key.                                               *)
(*                                                                         *)
(* The model and the PromptKit SDK are outside the repository.  A          *)
(* conversation opens or fails to; a running turn says pieces of text,     *)
(* then ends or fails, at any time; a turn that ends is saved.  Chunks     *)
(* that carry no text change nothing and are left out.                     *)
(***************************************************************************)
EXTENDS Integers, Sequences

CONSTANTS
  Requests,   \* the requests that may arrive
  Calls,      \* what requests may ask: [valid, stream, conversation]
  Asks,       \* request -> those of them it may ask
  SessionID,  \* the sandbox's session id, or None
  HasStore,   \* could newSessionStore build a store for histories
  MaxPieces,  \* bound on the pieces of text one turn says
  None        \* the absent value (the empty string in the code)

ASSUME PiecesAssumption == MaxPieces \in Nat
ASSUME StoreAssumption == HasStore \in BOOLEAN
ASSUME CallsAssumption ==
  /\ \A c \in Calls : c.valid \in BOOLEAN /\ c.stream \in BOOLEAN
  /\ Asks \in [Requests -> SUBSET Calls]
ASSUME AbsentAssumption == None \notin Calls

VARIABLES
  call,       \* request -> what it asks, None until it arrives
  handler,    \* request -> where the handler goroutine is
  turn,       \* request -> where the goroutine running the turn is
  conv,       \* request -> the turn's conversation
  failure,    \* request -> did the turn fail
  errCh,      \* request -> the channel of errors
  canceled,   \* request -> is the request's context canceled
  header,     \* request -> sseWriter.wroteHeader
  client,     \* request -> what the caller does
  said,       \* request -> the pieces of text the model said
  piece,      \* request -> the piece writeSSE holds, 0 for none
  heard,      \* request -> the pieces that reached the caller
  reply,      \* request -> the last other thing that reached the caller
  remembers,  \* request -> the requests whose turns its history held
  histories   \* conversation key -> the requests whose turns are saved there

streamVars == <<call, handler, turn, conv, failure, errCh, canceled, header,
                client, said, piece, heard, reply, remembers, histories>>

-----------------------------------------------------------------------------
Conversations == {c.conversation : c \in Calls} \cup {SessionID}

\* The key a turn's history is stored under: the caller's conversation id, the
\* sandbox's session id without one, None when there is neither.
conversationKey(c) ==
  IF c.conversation # None THEN c.conversation ELSE SessionID

\* Is the store attached to the conversation?  (The mutated form files keyless
\* turns under the empty key.)
AlwaysAttached(r) == HasStore
Attached(r) == HasStore /\ conversationKey(call[r]) # None

Streaming(r) == call[r] # None /\ call[r].stream

StreamTypeOK ==
  /\ call \in [Requests -> Calls \cup {None}]
  /\ handler \in [Requests -> {"idle", "decode", "ask", "relay", "write", "done",
                           "returned"}]
  /\ turn \in [Requests -> {"none", "opening", "running", "sending", "closing",
                            "reporting", "over"}]
  /\ conv \in [Requests -> {"none", "open", "closed"}]
  /\ errCh \in [Requests -> {"empty", "error", "closed"}]
  /\ client \in [Requests -> {"reading", "stalled", "gone"}]
  /\ reply \in [Requests -> {"none", "refused", "500", "answer", "error event", "[DONE]",
                         "error event, [DONE]"}]
  /\ failure \in [Requests -> BOOLEAN]
  /\ canceled \in [Requests -> BOOLEAN]
  /\ header \in [Requests -> BOOLEAN]
  /\ said \in [Requests -> Seq(1 .. MaxPieces)]
  /\ piece \in [Requests -> 0 .. MaxPieces]
  /\ heard \in [Requests -> Seq(1 .. MaxPieces)]
  /\ remembers \in [Requests -> SUBSET Requests]
  /\ histories \in [Conversations -> SUBSET Requests]

StreamInit ==
  /\ call = [r \in Requests |-> None]
  /\ handler = [r \in Requests |-> "idle"]
  /\ turn = [r \in Requests |-> "none"]
  /\ conv = [r \in Requests |-> "none"]
  /\ failure = [r \in Requests |-> FALSE]
  /\ errCh = [r \in Requests |-> "empty"]
  /\ canceled = [r \in Requests |-> FALSE]
  /\ header = [r \in Requests |-> FALSE]
  /\ client = [r \in Requests |-> "reading"]
  /\ said = [r \in Requests |-> <<>>]
  /\ piece = [r \in Requests |-> 0]
  /\ heard = [r \in Requests |-> <<>>]
  /\ reply = [r \in Requests |-> "none"]
  /\ remembers = [r \in Requests |-> {}]
  /\ histories = [k \in Conversations |-> {}]

-----------------------------------------------------------------------------
(***************************************************************************)
(* The handler goroutine.                                                  *)
(***************************************************************************)

\* A word from the handler, lost on a caller who has gone.
Reach(r, word) ==
  reply' = IF client[r] = "gone" THEN reply ELSE [reply EXCEPT ![r] = word]

\* The last one.  When the handler returns, net/http cancels the request's
\* context.
Finish(r, word) ==
  /\ handler' = [handler EXCEPT ![r] = "returned"]
  /\ canceled' = [canceled EXCEPT ![r] = TRUE]
  /\ Reach(r, word)

\* A request arrives.
Accept(r, c) ==
  /\ c \in Asks[r]
  /\ handler[r] = "idle"
  /\ call' = [call EXCEPT ![r] = c]
  /\ handler' = [handler EXCEPT ![r] = "decode"]
  /\ UNCHANGED <<turn, conv, failure, errCh, canceled, header, client, said,
                 piece, heard, reply, remembers, histories>>

\* Another method, an unreadable body or an empty turn: 405 or 400.  (The mutated
\* form goes on after it.)
RefuseAndGoOn(r) ==
  /\ handler[r] = "decode"
  /\ ~call[r].valid
  /\ Reach(r, "refused")
  /\ handler' = [handler EXCEPT ![r] = "ask"]
  /\ turn' = [turn EXCEPT ![r] = "opening"]
  /\ UNCHANGED <<call, conv, failure, errCh, canceled, header, client, said,
                 piece, heard, remembers, histories>>

Refuse(r) ==
  /\ handler[r] = "decode"
  /\ ~call[r].valid
  /\ Finish(r, "refused")
  /\ UNCHANGED <<call, turn, conv, failure, errCh, header, client, said,
                 piece, heard, remembers, histories>>

\* The turn starts: inline, or on a goroutine of its own.
Start(r) ==
  /\ handler[r] = "decode"
  /\ call[r].valid
  /\ handler' = [handler EXCEPT ![r] = IF Streaming(r) THEN "relay" ELSE "ask"]
  /\ turn' = [turn EXCEPT ![r] = "opening"]
  /\ UNCHANGED <<call, conv, failure, errCh, canceled, header, client, said,
                 piece, heard, reply, remembers, histories>>

\* A unary turn came back: its answer, or 500.
AnswerTurn(r) ==
  /\ handler[r] = "ask"
  /\ turn[r] = "over"
  /\ Finish(r, IF failure[r] THEN "500" ELSE "answer")
  /\ UNCHANGED <<call, turn, conv, failure, errCh, header, client, said,
                 piece, heard, remembers, histories>>

\* writeSSE receives a piece; the channel is unbuffered, so the producer's send
\* completes with it.
ReceivePiece(r) ==
  /\ handler[r] = "relay"
  /\ turn[r] = "sending"
  /\ handler' = [handler EXCEPT ![r] = "write"]
  /\ piece' = [piece EXCEPT ![r] = Len(said[r])]
  /\ turn' = [turn EXCEPT ![r] = "running"]
  /\ UNCHANGED <<call, conv, failure, errCh, canceled, header, client, said,
                 heard, reply, remembers, histories>>

\* The text writeSSE holds.  (The mutated forms read a buffer the producer
\* fills again, or one that was cleared.)
RefilledText(r) == Len(said[r])
ClearedText(r)  == 0
Text(r) == piece[r]

\* writeSSE sends the piece on, the headers first if they are not out yet.  A
\* caller who has stalled holds the write up.
WritePiece(r) ==
  /\ handler[r] = "write"
  /\ client[r] = "reading"
  /\ header' = [header EXCEPT ![r] = TRUE]
  /\ heard' = [heard EXCEPT ![r] = Append(@, Text(r))]
  /\ piece' = [piece EXCEPT ![r] = 0]
  /\ handler' = [handler EXCEPT ![r] = "relay"]
  /\ UNCHANGED <<call, turn, conv, failure, errCh, canceled, client, said,
                 reply, remembers, histories>>

\* The caller has gone: the write goes nowhere, or it fails and writeSSE
\* returns with the producer still running.
WriteToNobody(r) ==
  /\ handler[r] = "write"
  /\ client[r] = "gone"
  /\ header' = [header EXCEPT ![r] = TRUE]
  /\ piece' = [piece EXCEPT ![r] = 0]
  /\ \/ /\ handler' = [handler EXCEPT ![r] = "relay"]
        /\ UNCHANGED canceled
     \/ /\ handler' = [handler EXCEPT ![r] = "returned"]
        /\ canceled' = [canceled EXCEPT ![r] = TRUE]
  /\ UNCHANGED <<call, turn, conv, failure, errCh, client, said, heard,
                 reply, remembers, histories>>

\* The channel of pieces is closed and writeSSE takes the error, if any: before
\* any output it is still a status, after it an event of the stream.  (The
\* mutated form always sends a status.)
Failed(r) == errCh[r] = "error"
NeverInBand(r) == FALSE
InBand(r) == Failed(r) /\ header[r]

PiecesOver(r) == handler[r] = "relay" /\ turn[r] = "over" /\ client[r] # "stalled"

EndStream(r) ==
  /\ PiecesOver(r)
  /\ ~InBand(r)
  /\ Finish(r, IF Failed(r) THEN "500" ELSE "[DONE]")
  /\ header' = [header EXCEPT ![r] = @ \/ ~Failed(r)]
  /\ UNCHANGED <<call, turn, conv, failure, errCh, client, said, piece, heard,
                 remembers, histories>>

ReportFailure(r) ==
  /\ PiecesOver(r)
  /\ InBand(r)
  /\ handler' = [handler EXCEPT ![r] = "done"]
  /\ Reach(r, "error event")
  /\ UNCHANGED <<call, turn, conv, failure, errCh, canceled, header, client, said,
                 piece, heard, remembers, histories>>

\* A stream that failed ends with [DONE] too, after the event that says so.
SendDone(r) ==
  /\ handler[r] = "done"
  /\ client[r] # "stalled"
  /\ Finish(r, "error event, [DONE]")
  /\ UNCHANGED <<call, turn, conv, failure, errCh, header, client, said, piece,
                 heard, remembers, histories>>

-----------------------------------------------------------------------------
(***************************************************************************)
(* The turn, on the handler's goroutine or the producer's.                 *)
(***************************************************************************)

\* The conversation opens, with the history under its key when it has one.
OpenConversation(r) ==
  /\ turn[r] = "opening"
  /\ conv' = [conv EXCEPT ![r] = "open"]
  /\ turn' = [turn EXCEPT ![r] = "running"]
  /\ remembers' = IF Attached(r)
                    THEN [remembers EXCEPT ![r] = histories[conversationKey(call[r])]]
                    ELSE remembers
  /\ UNCHANGED <<call, handler, failure, errCh, canceled, header, client,
                 said, piece, heard, reply, histories>>

OpenFails(r) ==
  /\ turn[r] = "opening"
  /\ failure' = [failure EXCEPT ![r] = TRUE]
  /\ turn' = [turn EXCEPT ![r] = "reporting"]
  /\ UNCHANGED <<call, handler, conv, errCh, canceled, header, client, said,
                 piece, heard, reply, remembers, histories>>

\* The model says a piece of text, which the producer is to send.
ModelSays(r) ==
  /\ turn[r] = "running"
  /\ Streaming(r)
  /\ Len(said[r]) < MaxPieces
  /\ said' = [said EXCEPT ![r] = Append(@, Len(@) + 1)]
  /\ turn' = [turn EXCEPT ![r] = "sending"]
  /\ UNCHANGED <<call, handler, conv, failure, errCh, canceled, header,
                 client, piece, heard, reply, remembers, histories>>

ModelEnds(r) ==
  /\ turn[r] = "running"
  /\ turn' = [turn EXCEPT ![r] = "closing"]
  /\ histories' = IF Attached(r)
                    THEN [histories EXCEPT ![conversationKey(call[r])] = @ \cup {r}]
                    ELSE histories
  /\ UNCHANGED <<call, handler, conv, failure, errCh, canceled, header,
                 client, said, piece, heard, reply, remembers>>

ModelFails(r) ==
  /\ turn[r] = "running"
  /\ failure' = [failure EXCEPT ![r] = TRUE]
  /\ turn' = [turn EXCEPT ![r] = "closing"]
  /\ UNCHANGED <<call, handler, conv, errCh, canceled, header, client, said,
                 piece, heard, reply, remembers, histories>>

\* Does the producer's select see the context end?  (The mutated form has no
\* such case.)
OnlySends(r) == FALSE
SeesCancel(r) == canceled[r]

\* The context is canceled while the producer waits to send.
AbandonSend(r) ==
  /\ turn[r] = "sending"
  /\ SeesCancel(r)
  /\ failure' = [failure EXCEPT ![r] = TRUE]
  /\ turn' = [turn EXCEPT ![r] = "closing"]
  /\ UNCHANGED <<call, handler, conv, errCh, canceled, header, client, said,
                 piece, heard, reply, remembers, histories>>

CloseConversation(r) ==
  /\ turn[r] = "closing"
  /\ conv' = [conv EXCEPT ![r] = "closed"]
  /\ turn' = [turn EXCEPT ![r] = "reporting"]
  /\ UNCHANGED <<call, handler, failure, errCh, canceled, header, client,
                 said, piece, heard, reply, remembers, histories>>

\* The mutated form of ReportTurn: a channel of errors without room, whose send
\* waits for a handler that waits for the channel of pieces to close.
UnbufferedReport(r) ==
  /\ turn[r] = "reporting"
  /\ failure[r] => handler[r] = "ask"
  /\ turn' = [turn EXCEPT ![r] = "over"]
  /\ errCh' = [errCh EXCEPT ![r] = IF failure[r] THEN "error" ELSE "closed"]
  /\ UNCHANGED <<call, handler, conv, failure, canceled, header, client, said,
                 piece, heard, reply, remembers, histories>>

\* The error goes into its channel, which has room for it, and both channels
\* are closed; a unary turn returns.
ReportTurn(r) ==
  /\ turn[r] = "reporting"
  /\ turn' = [turn EXCEPT ![r] = "over"]
  /\ errCh' = [errCh EXCEPT ![r] = IF failure[r] THEN "error" ELSE "closed"]
  /\ UNCHANGED <<call, handler, conv, failure, canceled, header, client, said,
                 piece, heard, reply, remembers, histories>>

-----------------------------------------------------------------------------
(***************************************************************************)
(* The caller and the connection.                                          *)
(***************************************************************************)

Served(r) == handler[r] \notin {"idle", "returned"}

\* The caller stops reading, which matters where a stream is being written,
\* reads on, or hangs up.
CallerTurns(r) ==
  /\ Served(r)
  /\ \/ /\ client[r] = "reading"
        /\ handler[r] \in {"write", "done"} \/ (handler[r] = "relay" /\ turn[r] = "over")
        /\ client' = [client EXCEPT ![r] = "stalled"]
     \/ /\ client[r] = "stalled"
        /\ client' = [client EXCEPT ![r] = "reading"]
     \/ /\ client[r] # "gone"
        /\ client' = [client EXCEPT ![r] = "gone"]
  /\ UNCHANGED <<call, handler, turn, conv, failure, errCh, canceled, header,
                 said, piece, heard, reply, remembers, histories>>

\* net/http notices that the connection is gone and cancels the context.
NoticeGone(r) ==
  /\ Served(r)
  /\ client[r] = "gone"
  /\ ~canceled[r]
  /\ canceled' = [canceled EXCEPT ![r] = TRUE]
  /\ UNCHANGED <<call, handler, turn, conv, failure, errCh, header, client,
                 said, piece, heard, reply, remembers, histories>>

-----------------------------------------------------------------------------
HandlerStep(r) ==
  \/ Refuse(r) \/ Start(r) \/ AnswerTurn(r)
  \/ ReceivePiece(r) \/ WritePiece(r) \/ WriteToNobody(r)
  \/ EndStream(r) \/ ReportFailure(r) \/ SendDone(r)

\* What the runtime's own code does for a turn; the SDK's part is separate.
TurnStep(r) ==
  \/ OpenConversation(r) \/ OpenFails(r)
  \/ AbandonSend(r) \/ CloseConversation(r) \/ ReportTurn(r)

ModelStep(r) == ModelSays(r) \/ ModelEnds(r) \/ ModelFails(r)

StreamStep ==
  \E r \in Requests :
    HandlerStep(r) \/ TurnStep(r) \/ ModelStep(r) \/ CallerTurns(r) \/ NoticeGone(r)
=============================================================================
