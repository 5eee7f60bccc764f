-------------------------- MODULE RuntimeProperties --------------------------
(***************************************************************************)
(* What the runtime's request handling promises, over the steps of         *)
(* RuntimeServer.                                                          *)
(***************************************************************************)
EXTENDS RuntimeServer, SequencesExt

Settled(r) == handler[r] = "returned" /\ client[r] # "gone"

(***************************************************************************)
(* StreamFaithful: what a caller hears is the model's own text, in order   *)
(* and without a gap, though two goroutines and a channel pass it on.  A   *)
(* stream ends when all that was said was heard.  [DONE] ends every one    *)
(* that began, so [DONE] alone does not say that the turn went well: it    *)
(* did unless an error event came before it, and failed if one did         *)
(* (handlers.go 183-187).                                                  *)
(***************************************************************************)
StreamFaithful ==
  \A r \in Requests :
    /\ IsPrefix(heard[r], said[r])
    /\ reply[r] \in {"[DONE]", "error event", "error event, [DONE]"} =>
         /\ heard[r] = said[r]
         /\ failure[r] <=> reply[r] # "[DONE]"

(***************************************************************************)
(* OutcomeTold: a caller who stays learns how the turn ended.  A failure   *)
(* before any text is a 500, after text it is an event of the stream, with *)
(* [DONE] behind it, and no failure is ever passed off as an answer.       *)
(***************************************************************************)
OutcomeTold ==
  \A r \in Requests :
    Settled(r) /\ call[r].valid =>
      /\ turn[r] = "over"
      /\ reply[r] = IF failure[r]
                      THEN IF heard[r] = <<>> THEN "500" ELSE "error event, [DONE]"
                      ELSE IF call[r].stream THEN "[DONE]" ELSE "answer"

(***************************************************************************)
(* TurnKept: the two goroutines, their channels and the connection keep    *)
(* the promise of TurnPromise, also while callers leave and the server     *)
(* drains and exits: all text is heard before the outcome is told and none *)
(* after it, the outcome told is the turn's and is not told twice, only    *)
(* the [DONE] of a stream that failed follows it, and a request that was   *)
(* refused starts no turn (handlers.go 121-188).                           *)
(***************************************************************************)
HowEnded(r) ==
  IF turn[r] \in {"closing", "reporting", "over"}
    THEN IF failure[r] THEN "failed" ELSE "done" ELSE "open"

Word(r) ==
  IF reply[r] \in {"500", "error event"} THEN "failed"
  ELSE IF reply[r] = "error event, [DONE]" THEN "failed, terminated"
  ELSE IF reply[r] \in {"answer", "[DONE]"} THEN "answer" ELSE reply[r]

Promise == INSTANCE TurnPromise WITH
  Turns  <- Requests,
  Pieces <- 1 .. MaxPieces,
  asked  <- {r \in Requests : call[r] # None},
  text   <- said,
  end    <- [r \in Requests |-> HowEnded(r)],
  got    <- heard,
  word   <- [r \in Requests |-> Word(r)]

TurnKept == Promise!Spec

(***************************************************************************)
(* HistoryKept: a turn starts from the turns of its own conversation and   *)
(* from no one else's, every turn of it that was answered before included. *)
(* Two turns belong together when the caller named the same conversation,  *)
(* or named none in a sandbox with a session of its own.                   *)
(***************************************************************************)
Together(c, d) ==
  \/ c.conversation # None /\ c.conversation = d.conversation
  \/ {c.conversation, d.conversation} \subseteq {None, SessionID} /\ SessionID # None

HistoryKept ==
  [][\A r \in Requests :
       conv[r] = "none" /\ conv'[r] = "open" =>
         LET mine == {q \in Requests : q # r /\ call[q] # None /\ Together(call[q], call[r])}
             told == {q \in mine : reply[q] \in {"answer", "[DONE]"}}
         IN /\ remembers'[r] \subseteq mine
            /\ HasStore => told \subseteq remembers'[r]]_vars

(***************************************************************************)
(* CleanExit: when runServer reports a complete shutdown, no request was   *)
(* cut.  Every caller who stayed was told the outcome and every            *)
(* conversation a caller waited for was closed.                            *)
(***************************************************************************)
CleanExit ==
  server = "exited" /\ status = "complete" =>
    \A r \in Requests :
      /\ handler[r] \in {"idle", "returned"}
      /\ Settled(r) => reply[r] # "none" /\ conv[r] # "open"

(***************************************************************************)
(* TracesKept: after a complete shutdown whose flush worked, the collector *)
(* has the spans of every turn a caller was told about.                    *)
(***************************************************************************)
TracesKept ==
  server = "exited" /\ status = "complete" /\ exported # None =>
    {r \in Requests : Settled(r) /\ call[r].valid} \subseteq exported

(***************************************************************************)
(* AbandonedTurnEnds: when the caller hangs up, the handler returns, the   *)
(* producer ends and the conversation is closed, wherever each of them     *)
(* was.  Every turn that leaks here stays for the life of the container.   *)
(***************************************************************************)
AbandonedTurnEnds ==
  \A r \in Requests :
    (client[r] = "gone") ~>
      \/ handler[r] = "returned" /\ turn[r] \in {"none", "over"} /\ conv[r] # "open"
      \/ server = "exited"

(***************************************************************************)
(* TurnAnswered: once the model has ended or failed a turn, its handler    *)
(* returns, unless the caller stopped reading.                             *)
(***************************************************************************)
TurnAnswered ==
  \A r \in Requests :
    (turn[r] = "closing") ~>
      (handler[r] = "returned" \/ client[r] = "stalled" \/ server = "exited")

(***************************************************************************)
(* ServerExits: after a signal the process exits, whatever callers, the    *)
(* model and the collector do.                                             *)
(***************************************************************************)
ServerExits == (server # "serving") ~> (server = "exited")

-----------------------------------------------------------------------------
(***************************************************************************)
(* Why the safety properties hold: the inductive invariant                 *)
(* RuntimeServerProofs proves them from, request by request.               *)
(***************************************************************************)

\* Where the handler is, and what it was asked.
HandlerInv(r) ==
  /\ call[r] = None <=> handler[r] = "idle"
  /\ turn[r] = "none" <=> \/ handler[r] \in {"idle", "decode"}
                          \/ handler[r] = "returned" /\ ~call[r].valid
  /\ handler[r] = "ask" => call[r].valid /\ ~call[r].stream
  /\ handler[r] \in {"relay", "write", "done"} => call[r].valid /\ call[r].stream
  /\ handler[r] # "returned" /\ client[r] # "gone" => ~canceled[r]

\* How the turn went and how its goroutine reports it.
TurnInv(r) ==
  /\ turn[r] \in {"none", "opening", "running", "sending"} => ~failure[r]
  /\ turn[r] = "over" => (errCh[r] = "error" <=> failure[r])
  /\ conv[r] = "open" <=> turn[r] \in {"running", "sending", "closing"}

\* The text, piece by piece: on its way from the producer, in the handler's
\* hand, with the caller.
InOrder(s) == \A i \in 1 .. Len(s) : s[i] = i

TextInv(r) ==
  /\ InOrder(said[r]) /\ InOrder(heard[r])
  /\ Len(heard[r]) <= Len(said[r]) /\ Len(said[r]) <= MaxPieces
  /\ turn[r] \in {"none", "opening"} \/ ~call[r].stream => said[r] = <<>>
  /\ turn[r] = "sending" => said[r] # <<>>
  /\ handler[r] \in {"idle", "decode"} => ~header[r]
  /\ handler[r] \in {"relay", "write"} /\ client[r] # "gone" =>
       /\ handler[r] = "relay" /\ turn[r] # "sending" => Len(said[r]) = Len(heard[r])
       /\ handler[r] = "relay" /\ turn[r] = "sending" => Len(said[r]) = Len(heard[r]) + 1
       /\ handler[r] = "write" /\ turn[r] # "sending" => Len(said[r]) = Len(heard[r]) + 1
       /\ handler[r] = "write" /\ turn[r] = "sending" => Len(said[r]) = Len(heard[r]) + 2
       /\ handler[r] = "write" => piece[r] = Len(heard[r]) + 1
       /\ header[r] <=> heard[r] # <<>>

\* What the caller was told.
ReplyInv(r) ==
  /\ handler[r] \notin {"done", "returned"} => reply[r] = "none"
  /\ handler[r] = "done" =>
       /\ turn[r] = "over" /\ failure[r]
       /\ client[r] # "gone" => reply[r] = "error event" /\ heard[r] # <<>>
  /\ reply[r] = "refused" => turn[r] = "none"
  /\ reply[r] \notin {"none", "refused"} => turn[r] = "over"
  /\ reply[r] \in {"[DONE]", "error event", "error event, [DONE]"} =>
       /\ heard[r] = said[r]
       /\ failure[r] <=> reply[r] # "[DONE]"
  /\ Settled(r) => reply[r] # "none"
  /\ Settled(r) /\ turn[r] # "none" =>
       /\ turn[r] = "over"
       /\ reply[r] = IF failure[r]
                       THEN IF heard[r] = <<>> THEN "500" ELSE "error event, [DONE]"
                       ELSE IF call[r].stream THEN "[DONE]" ELSE "answer"

RequestInv(r) == HandlerInv(r) /\ TurnInv(r) /\ TextInv(r) /\ ReplyInv(r)

\* Once runServer reported a complete shutdown no handler is left, and none
\* starts again.
ExitInv ==
  /\ server \in {"serving", "draining"} => status = "none"
  /\ server \in {"flushing", "exited"} /\ status = "complete" => AllReturned
  /\ TracesKept

RuntimeInv == TypeOK /\ (\A r \in Requests : RequestInv(r)) /\ ExitInv

(***************************************************************************)
(* Why HistoryKept holds, request by request: what is saved under a key    *)
(* belongs there, a turn that ended well is saved before anyone is told,   *)
(* and nothing is remembered before the conversation opens.                *)
(***************************************************************************)
Recorded(r) ==
  /\ \A k \in Conversations : r \in histories[k] =>
       /\ turn[r] \in {"closing", "reporting", "over"}
       /\ call[r] # None /\ Attached(r) /\ k = conversationKey(call[r])
  /\ turn[r] \in {"closing", "reporting", "over"} /\ ~failure[r] /\ Attached(r) =>
       r \in histories[conversationKey(call[r])]
  /\ turn[r] \in {"none", "opening"} => remembers[r] = {}
  /\ reply[r] \in {"answer", "[DONE]"} => turn[r] = "over" /\ ~failure[r]

HistoryInv == \A r \in Requests : Recorded(r)
=============================================================================
