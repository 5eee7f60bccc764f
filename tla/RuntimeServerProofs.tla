------------------------- MODULE RuntimeServerProofs -------------------------
(***************************************************************************)
(* Proofs about RuntimeServer for every number of requests, every kind of  *)
(* call, every length of turn, and every moment of a shutdown.             *)
(***************************************************************************)
EXTENDS RuntimeProperties, SequenceTheorems, TLAPS

-----------------------------------------------------------------------------
(* A step belongs to one request and leaves the others alone.              *)

RequestStep(r) ==
  \/ \E c \in Calls : Accept(r, c)
  \/ HandlerStep(r) \/ TurnStep(r) \/ ModelStep(r) \/ CallerTurns(r) \/ NoticeGone(r)

Same(q) ==
  /\ call'[q] = call[q] /\ handler'[q] = handler[q] /\ turn'[q] = turn[q]
  /\ conv'[q] = conv[q] /\ failure'[q] = failure[q] /\ errCh'[q] = errCh[q]
  /\ canceled'[q] = canceled[q] /\ header'[q] = header[q] /\ client'[q] = client[q]
  /\ said'[q] = said[q] /\ piece'[q] = piece[q] /\ heard'[q] = heard[q]
  /\ reply'[q] = reply[q]

LEMMA SameKeeps ==
  ASSUME NEW q \in Requests, RequestInv(q), Same(q)
  PROVE  RequestInv(q)'
<1>1. HandlerInv(q)'
  BY DEF Same, RequestInv, HandlerInv
<1>2. TurnInv(q)'
  BY DEF Same, RequestInv, TurnInv
<1>3. TextInv(q)'
  BY DEF Same, RequestInv, TextInv, InOrder
<1>4. ReplyInv(q)'
  BY DEF Same, RequestInv, ReplyInv, Settled
<1> QED BY <1>1, <1>2, <1>3, <1>4 DEF RequestInv

LEMMA OthersSame ==
  ASSUME StreamTypeOK, NEW r \in Requests, RequestStep(r),
         NEW q \in Requests, q # r
  PROVE  Same(q)
<1>1. ASSUME NEW c \in Calls, Accept(r, c) PROVE Same(q)
  BY <1>1 DEF StreamTypeOK, Same, Accept
<1>2. CASE Refuse(r)
  BY <1>2 DEF StreamTypeOK, Same, Refuse, Finish, Reach
<1>3. CASE Start(r)
  BY <1>3 DEF StreamTypeOK, Same, Start, Streaming
<1>4. CASE AnswerTurn(r)
  BY <1>4 DEF StreamTypeOK, Same, AnswerTurn, Finish, Reach
<1>5. CASE ReceivePiece(r)
  BY <1>5 DEF StreamTypeOK, Same, ReceivePiece
<1>6. CASE WritePiece(r)
  BY <1>6 DEF StreamTypeOK, Same, WritePiece, Text
<1>7. CASE WriteToNobody(r)
  <2>1. \/ handler' = [handler EXCEPT ![r] = "relay"] /\ canceled' = canceled
        \/ /\ handler' = [handler EXCEPT ![r] = "returned"]
           /\ canceled' = [canceled EXCEPT ![r] = TRUE]
    BY <1>7 DEF WriteToNobody
  <2>2. handler'[q] = handler[q] /\ canceled'[q] = canceled[q]
    <3>1. DOMAIN handler = Requests /\ DOMAIN canceled = Requests
      BY DEF StreamTypeOK
    <3>2. CASE handler' = [handler EXCEPT ![r] = "relay"] /\ canceled' = canceled
      BY <3>1, <3>2
    <3>3. CASE /\ handler' = [handler EXCEPT ![r] = "returned"]
               /\ canceled' = [canceled EXCEPT ![r] = TRUE]
      BY <3>1, <3>3
    <3> QED BY <2>1, <3>2, <3>3
  <2>3. header' = [header EXCEPT ![r] = TRUE] /\ piece' = [piece EXCEPT ![r] = 0]
    BY <1>7 DEF WriteToNobody
  <2>4. header'[q] = header[q] /\ piece'[q] = piece[q]
    <3>1. DOMAIN header = Requests /\ DOMAIN piece = Requests
      BY DEF StreamTypeOK
    <3> QED BY <2>3, <3>1
  <2>5. UNCHANGED <<call, turn, conv, failure, errCh, client, said, heard, reply>>
    BY <1>7 DEF WriteToNobody
  <2> QED BY <2>2, <2>4, <2>5 DEF Same
<1>8. CASE EndStream(r)
  BY <1>8 DEF StreamTypeOK, Same, EndStream, PiecesOver, InBand, Failed, Finish, Reach
<1>19. CASE ReportFailure(r)
  BY <1>19 DEF StreamTypeOK, Same, ReportFailure, PiecesOver, InBand, Failed, Reach
<1>20. CASE SendDone(r)
  BY <1>20 DEF StreamTypeOK, Same, SendDone, Finish, Reach
<1>9. CASE OpenConversation(r)
  BY <1>9 DEF StreamTypeOK, Same, OpenConversation, Attached, conversationKey
<1>10. CASE OpenFails(r)
  BY <1>10 DEF StreamTypeOK, Same, OpenFails
<1>11. CASE AbandonSend(r)
  BY <1>11 DEF StreamTypeOK, Same, AbandonSend, SeesCancel
<1>12. CASE CloseConversation(r)
  BY <1>12 DEF StreamTypeOK, Same, CloseConversation
<1>13. CASE ReportTurn(r)
  BY <1>13 DEF StreamTypeOK, Same, ReportTurn
<1>14. CASE ModelSays(r)
  BY <1>14 DEF StreamTypeOK, Same, ModelSays, Streaming
<1>15. CASE ModelEnds(r)
  BY <1>15 DEF StreamTypeOK, Same, ModelEnds, Attached, conversationKey
<1>16. CASE ModelFails(r)
  BY <1>16 DEF StreamTypeOK, Same, ModelFails
<1>17. CASE CallerTurns(r)
  <2>1. \E c : client' = [client EXCEPT ![r] = c]
    BY <1>17 DEF CallerTurns
  <2>2. client'[q] = client[q]
    BY <2>1 DEF StreamTypeOK
  <2>3. UNCHANGED <<call, handler, turn, conv, failure, errCh, canceled, header,
                    said, piece, heard, reply>>
    BY <1>17 DEF CallerTurns
  <2> QED BY <2>2, <2>3 DEF Same
<1>18. CASE NoticeGone(r)
  BY <1>18 DEF StreamTypeOK, Same, NoticeGone, Served
<1> QED BY <1>1, <1>2, <1>3, <1>4, <1>5, <1>6, <1>7, <1>8, <1>9, <1>10, <1>11, <1>12, <1>13, <1>14, <1>15, <1>16, <1>17, <1>18, <1>19, <1>20 DEF RequestStep, HandlerStep, TurnStep, ModelStep
-----------------------------------------------------------------------------
(* Types.                                                                  *)

LEMMA TypeInit == Init => TypeOK
BY EmptySeq, AbsentAssumption, PiecesAssumption
   DEF Init, StreamInit, TypeOK, StreamTypeOK

\* Every call has a key of its own or shares the absent one.
LEMMA KeyType ==
  ASSUME NEW c \in Calls
  PROVE  conversationKey(c) \in Conversations
BY DEF conversationKey, Conversations

LEMMA ZeroPiece == 0 \in 0 .. MaxPieces
BY PiecesAssumption

LEMMA TextTypes ==
  ASSUME StreamTypeOK, NEW r \in Requests
  PROVE  /\ said[r] \in Seq(1 .. MaxPieces) /\ Len(said[r]) \in Nat
         /\ heard[r] \in Seq(1 .. MaxPieces) /\ Len(heard[r]) \in Nat
         /\ piece[r] \in 0 .. MaxPieces
<1>1. /\ said[r] \in Seq(1 .. MaxPieces) /\ heard[r] \in Seq(1 .. MaxPieces)
      /\ piece[r] \in 0 .. MaxPieces
  BY DEF StreamTypeOK
<1> QED BY <1>1, LenProperties

\* Only a request that asked for something has a turn.
LEMMA TurnHasCall ==
  ASSUME StreamTypeOK, NEW r \in Requests, RequestInv(r), turn[r] # "none"
  PROVE  call[r] \in Calls
<1>1. call[r] # None
  BY DEF RequestInv, HandlerInv
<1>2. call[r] \in Calls \cup {None}
  BY DEF StreamTypeOK
<1> QED BY <1>1, <1>2

LEMMA RequestType ==
  ASSUME StreamTypeOK, NEW r \in Requests, RequestInv(r), RequestStep(r)
  PROVE  StreamTypeOK'
<1>1. ASSUME NEW c \in Calls, Accept(r, c) PROVE StreamTypeOK'
  BY <1>1 DEF StreamTypeOK, Accept
<1>2. CASE Refuse(r)
  BY <1>2 DEF StreamTypeOK, Refuse, Finish, Reach
<1>3. CASE Start(r)
  BY <1>3 DEF StreamTypeOK, Start, Streaming
<1>4. CASE AnswerTurn(r)
  BY <1>4 DEF StreamTypeOK, AnswerTurn, Finish, Reach
<1>5. CASE ReceivePiece(r)
  <2>1. Len(said[r]) \in 0 .. MaxPieces
    BY TextTypes, PiecesAssumption DEF RequestInv, TextInv
  <2> QED BY <1>5, <2>1 DEF StreamTypeOK, ReceivePiece
<1>6. CASE WritePiece(r)
  <2>1. client[r] # "gone" /\ handler[r] = "write"
    BY <1>6 DEF WritePiece
  <2>2. Len(heard[r]) \in Nat /\ piece[r] = Len(heard[r]) + 1
    BY <2>1, TextTypes DEF RequestInv, TextInv
  <2>3. piece[r] \in 1 .. MaxPieces
    BY <2>2, TextTypes, PiecesAssumption
  <2>4. heard' \in [Requests -> Seq(1 .. MaxPieces)]
    <3>1. heard' = [heard EXCEPT ![r] = Append(heard[r], piece[r])]
      BY <1>6 DEF WritePiece, Text
    <3>2. Append(heard[r], piece[r]) \in Seq(1 .. MaxPieces)
      BY <2>3, TextTypes, AppendProperties
    <3> QED BY <3>1, <3>2 DEF StreamTypeOK
  <2>5. piece' \in [Requests -> 0 .. MaxPieces] /\ header' \in [Requests -> BOOLEAN]
    BY <1>6, ZeroPiece DEF StreamTypeOK, WritePiece
  <2> QED BY <1>6, <2>4, <2>5 DEF StreamTypeOK, WritePiece
<1>7. CASE WriteToNobody(r)
  <2>1. /\ handler' \in [Requests -> {"idle", "decode", "ask", "relay", "write", "done",
                                  "returned"}]
        /\ canceled' \in [Requests -> BOOLEAN]
    <3>1. CASE handler' = [handler EXCEPT ![r] = "relay"] /\ canceled' = canceled
      BY <3>1 DEF StreamTypeOK
    <3>2. CASE /\ handler' = [handler EXCEPT ![r] = "returned"]
               /\ canceled' = [canceled EXCEPT ![r] = TRUE]
      BY <3>2 DEF StreamTypeOK
    <3> QED BY <1>7, <3>1, <3>2 DEF WriteToNobody
  <2>2. piece' \in [Requests -> 0 .. MaxPieces] /\ header' \in [Requests -> BOOLEAN]
    BY <1>7, ZeroPiece DEF StreamTypeOK, WriteToNobody
  <2> QED BY <1>7, <2>1, <2>2 DEF StreamTypeOK, WriteToNobody
<1>8. CASE EndStream(r)
  BY <1>8 DEF StreamTypeOK, EndStream, PiecesOver, InBand, Failed, Finish, Reach
<1>19. CASE ReportFailure(r)
  BY <1>19 DEF StreamTypeOK, ReportFailure, PiecesOver, InBand, Failed, Reach
<1>20. CASE SendDone(r)
  BY <1>20 DEF StreamTypeOK, SendDone, Finish, Reach
<1>9. CASE OpenConversation(r)
  <2>1. call[r] \in Calls
    BY <1>9, TurnHasCall DEF OpenConversation
  <2>2. histories[conversationKey(call[r])] \in SUBSET Requests
    BY <2>1, KeyType DEF StreamTypeOK
  <2>3. remembers' \in [Requests -> SUBSET Requests]
    BY <1>9, <2>2 DEF StreamTypeOK, OpenConversation
  <2>4. conv' \in [Requests -> {"none", "open", "closed"}]
    BY <1>9 DEF StreamTypeOK, OpenConversation
  <2>5. turn' \in [Requests -> {"none", "opening", "running", "sending", "closing",
                               "reporting", "over"}]
    BY <1>9 DEF StreamTypeOK, OpenConversation
  <2> QED BY <1>9, <2>3, <2>4, <2>5 DEF StreamTypeOK, OpenConversation
<1>10. CASE OpenFails(r)
  BY <1>10 DEF StreamTypeOK, OpenFails
<1>11. CASE AbandonSend(r)
  BY <1>11 DEF StreamTypeOK, AbandonSend, SeesCancel
<1>12. CASE CloseConversation(r)
  BY <1>12 DEF StreamTypeOK, CloseConversation
<1>13. CASE ReportTurn(r)
  BY <1>13 DEF StreamTypeOK, ReportTurn
<1>14. CASE ModelSays(r)
  <2>1. Len(said[r]) \in Nat /\ Len(said[r]) + 1 \in 1 .. MaxPieces
    BY <1>14, TextTypes, PiecesAssumption DEF ModelSays
  <2>2. said' \in [Requests -> Seq(1 .. MaxPieces)]
    <3>1. said' = [said EXCEPT ![r] = Append(said[r], Len(said[r]) + 1)]
      BY <1>14 DEF ModelSays
    <3>2. Append(said[r], Len(said[r]) + 1) \in Seq(1 .. MaxPieces)
      BY <2>1, TextTypes, AppendProperties
    <3> QED BY <3>1, <3>2 DEF StreamTypeOK
  <2> QED BY <1>14, <2>2 DEF StreamTypeOK, ModelSays
<1>15. CASE ModelEnds(r)
  <2>1. call[r] \in Calls
    BY <1>15, TurnHasCall DEF ModelEnds
  <2>2. conversationKey(call[r]) \in Conversations
    BY <2>1, KeyType
  <2>3. histories' \in [Conversations -> SUBSET Requests]
    BY <1>15, <2>2 DEF StreamTypeOK, ModelEnds
  <2> QED BY <1>15, <2>3 DEF StreamTypeOK, ModelEnds
<1>16. CASE ModelFails(r)
  BY <1>16 DEF StreamTypeOK, ModelFails
<1>17. CASE CallerTurns(r)
  BY <1>17 DEF StreamTypeOK, CallerTurns, Served
<1>18. CASE NoticeGone(r)
  BY <1>18 DEF StreamTypeOK, NoticeGone, Served
<1> QED BY <1>1, <1>2, <1>3, <1>4, <1>5, <1>6, <1>7, <1>8, <1>9, <1>10, <1>11, <1>12, <1>13, <1>14, <1>15, <1>16, <1>17, <1>18, <1>19, <1>20 DEF RequestStep, HandlerStep, TurnStep, ModelStep

-----------------------------------------------------------------------------
(* One request: what its own steps keep.                                   *)

LEMMA InOrderAppend ==
  ASSUME NEW s \in Seq(1 .. MaxPieces), InOrder(s), Len(s) + 1 \in 1 .. MaxPieces
  PROVE  /\ InOrder(Append(s, Len(s) + 1))
         /\ Len(Append(s, Len(s) + 1)) = Len(s) + 1
         /\ Append(s, Len(s) + 1) # <<>>
<1>1. Len(s) \in Nat
  BY LenProperties
<1> DEFINE t == Append(s, Len(s) + 1)
<1>2. /\ Len(t) = Len(s) + 1
      /\ \A i \in 1 .. Len(s) : t[i] = s[i]
      /\ t[Len(s) + 1] = Len(s) + 1
  BY AppendProperties
<1>3. InOrder(t)
  BY <1>1, <1>2 DEF InOrder
<1>4. t # <<>>
  BY <1>1, <1>2, EmptySeq
<1> QED BY <1>2, <1>3, <1>4

\* Texts in order are told apart by their lengths alone.
LEMMA InOrderEqual ==
  ASSUME NEW s \in Seq(1 .. MaxPieces), NEW t \in Seq(1 .. MaxPieces),
         InOrder(s), InOrder(t), Len(s) = Len(t)
  PROVE  s = t
BY SeqEqual DEF InOrder

LEMMA PrefixInOrder ==
  ASSUME NEW s \in Seq(1 .. MaxPieces), NEW t \in Seq(1 .. MaxPieces),
         InOrder(s), InOrder(t), Len(s) <= Len(t)
  PROVE  IsPrefix(s, t)
<1>1. Len(s) \in Nat /\ Len(t) \in Nat
  BY LenProperties
<1>2. /\ SubSeq(t, 1, Len(s)) \in Seq(1 .. MaxPieces)
      /\ Len(SubSeq(t, 1, Len(s))) = Len(s)
      /\ \A i \in 1 .. Len(s) : SubSeq(t, 1, Len(s))[i] = t[i]
  <2>1. \A i \in 1 .. Len(s) : t[i] \in 1 .. MaxPieces
    <3>1. ASSUME NEW i \in 1 .. Len(s) PROVE i \in 1 .. Len(t)
      BY <1>1, <3>1
    <3> QED BY <3>1, ElementOfSeq
  <2>2. /\ SubSeq(t, 1, Len(s)) \in Seq(1 .. MaxPieces)
        /\ Len(SubSeq(t, 1, Len(s))) = IF 1 <= Len(s) THEN Len(s) - 1 + 1 ELSE 0
        /\ \A i \in 1 .. Len(s) - 1 + 1 : SubSeq(t, 1, Len(s))[i] = t[1 + i - 1]
    BY <1>1, <2>1, SubSeqProperties
  <2>3. Len(s) - 1 + 1 = Len(s) /\ \A i \in 1 .. Len(s) : 1 + i - 1 = i
    BY <1>1
  <2> QED BY <1>1, <2>2, <2>3
<1>3. s = SubSeq(t, 1, Len(s))
  BY <1>1, <1>2, SeqEqual DEF InOrder
<1> QED BY <1>1, <1>3 DEF IsPrefix

LEMMA EmptyText ==
  ASSUME NEW s \in Seq(1 .. MaxPieces)
  PROVE  s = <<>> <=> Len(s) = 0
BY EmptySeq

\* A unary turn has no pieces.
LEMMA UnaryIsSilent ==
  ASSUME StreamTypeOK, NEW r \in Requests, RequestInv(r), handler[r] = "ask"
  PROVE  said[r] = <<>> /\ heard[r] = <<>> /\ ~call[r].stream
<1>1. ~call[r].stream
  BY DEF RequestInv, HandlerInv
<1>2. said[r] = <<>> /\ Len(heard[r]) <= Len(said[r])
  BY <1>1 DEF RequestInv, TextInv
<1> QED BY <1>1, <1>2, TextTypes, EmptyText

LEMMA HandlerInvStep ==
  ASSUME StreamTypeOK, NEW r \in Requests, RequestInv(r), RequestStep(r)
  PROVE  HandlerInv(r)'
<1> USE DEF RequestInv, HandlerInv, TurnInv, ReplyInv, Settled
<1>1. ASSUME NEW c \in Calls, Accept(r, c) PROVE HandlerInv(r)'
  BY <1>1, AbsentAssumption DEF StreamTypeOK, Accept
<1>2. CASE Refuse(r)
  BY <1>2 DEF StreamTypeOK, Refuse, Finish, Reach
<1>3. CASE Start(r)
  BY <1>3 DEF StreamTypeOK, Start, Streaming
<1>4. CASE AnswerTurn(r)
  BY <1>4 DEF StreamTypeOK, AnswerTurn, Finish, Reach
<1>5. CASE ReceivePiece(r)
  BY <1>5 DEF StreamTypeOK, ReceivePiece
<1>6. CASE WritePiece(r)
  BY <1>6 DEF StreamTypeOK, WritePiece, Text
<1>7. CASE WriteToNobody(r)
  BY <1>7 DEF StreamTypeOK, WriteToNobody
<1>8. CASE EndStream(r)
  BY <1>8 DEF StreamTypeOK, EndStream, PiecesOver, InBand, Failed, Finish, Reach
<1>19. CASE ReportFailure(r)
  BY <1>19 DEF StreamTypeOK, ReportFailure, PiecesOver, InBand, Failed, Reach
<1>20. CASE SendDone(r)
  BY <1>20 DEF StreamTypeOK, SendDone, Finish, Reach
<1>9. CASE OpenConversation(r)
  BY <1>9 DEF StreamTypeOK, OpenConversation
<1>10. CASE OpenFails(r)
  BY <1>10 DEF StreamTypeOK, OpenFails
<1>11. CASE AbandonSend(r)
  BY <1>11 DEF StreamTypeOK, AbandonSend, SeesCancel
<1>12. CASE CloseConversation(r)
  BY <1>12 DEF StreamTypeOK, CloseConversation
<1>13. CASE ReportTurn(r)
  BY <1>13 DEF StreamTypeOK, ReportTurn
<1>14. CASE ModelSays(r)
  BY <1>14 DEF StreamTypeOK, ModelSays, Streaming
<1>15. CASE ModelEnds(r)
  BY <1>15 DEF StreamTypeOK, ModelEnds
<1>16. CASE ModelFails(r)
  BY <1>16 DEF StreamTypeOK, ModelFails
<1>17. CASE CallerTurns(r)
  BY <1>17 DEF StreamTypeOK, CallerTurns, Served
<1>18. CASE NoticeGone(r)
  BY <1>18 DEF StreamTypeOK, NoticeGone, Served
<1> QED BY <1>1, <1>2, <1>3, <1>4, <1>5, <1>6, <1>7, <1>8, <1>9, <1>10, <1>11, <1>12, <1>13, <1>14, <1>15, <1>16, <1>17, <1>18, <1>19, <1>20 DEF RequestStep, HandlerStep, TurnStep, ModelStep

LEMMA TurnInvStep ==
  ASSUME StreamTypeOK, NEW r \in Requests, RequestInv(r), RequestStep(r)
  PROVE  TurnInv(r)'
<1> USE DEF RequestInv, HandlerInv, TurnInv, ReplyInv, Settled
<1>1. ASSUME NEW c \in Calls, Accept(r, c) PROVE TurnInv(r)'
  BY <1>1, AbsentAssumption DEF StreamTypeOK, Accept
<1>2. CASE Refuse(r)
  BY <1>2 DEF StreamTypeOK, Refuse, Finish, Reach
<1>3. CASE Start(r)
  BY <1>3 DEF StreamTypeOK, Start, Streaming
<1>4. CASE AnswerTurn(r)
  BY <1>4 DEF StreamTypeOK, AnswerTurn, Finish, Reach
<1>5. CASE ReceivePiece(r)
  BY <1>5 DEF StreamTypeOK, ReceivePiece
<1>6. CASE WritePiece(r)
  BY <1>6 DEF StreamTypeOK, WritePiece, Text
<1>7. CASE WriteToNobody(r)
  BY <1>7 DEF StreamTypeOK, WriteToNobody
<1>8. CASE EndStream(r)
  BY <1>8 DEF StreamTypeOK, EndStream, PiecesOver, InBand, Failed, Finish, Reach
<1>19. CASE ReportFailure(r)
  BY <1>19 DEF StreamTypeOK, ReportFailure, PiecesOver, InBand, Failed, Reach
<1>20. CASE SendDone(r)
  BY <1>20 DEF StreamTypeOK, SendDone, Finish, Reach
<1>9. CASE OpenConversation(r)
  BY <1>9 DEF StreamTypeOK, OpenConversation
<1>10. CASE OpenFails(r)
  BY <1>10 DEF StreamTypeOK, OpenFails
<1>11. CASE AbandonSend(r)
  BY <1>11 DEF StreamTypeOK, AbandonSend, SeesCancel
<1>12. CASE CloseConversation(r)
  BY <1>12 DEF StreamTypeOK, CloseConversation
<1>13. CASE ReportTurn(r)
  BY <1>13 DEF StreamTypeOK, ReportTurn
<1>14. CASE ModelSays(r)
  BY <1>14 DEF StreamTypeOK, ModelSays, Streaming
<1>15. CASE ModelEnds(r)
  BY <1>15 DEF StreamTypeOK, ModelEnds
<1>16. CASE ModelFails(r)
  BY <1>16 DEF StreamTypeOK, ModelFails
<1>17. CASE CallerTurns(r)
  BY <1>17 DEF StreamTypeOK, CallerTurns, Served
<1>18. CASE NoticeGone(r)
  BY <1>18 DEF StreamTypeOK, NoticeGone, Served
<1> QED BY <1>1, <1>2, <1>3, <1>4, <1>5, <1>6, <1>7, <1>8, <1>9, <1>10, <1>11, <1>12, <1>13, <1>14, <1>15, <1>16, <1>17, <1>18, <1>19, <1>20 DEF RequestStep, HandlerStep, TurnStep, ModelStep

LEMMA TextInvStep ==
  ASSUME StreamTypeOK, NEW r \in Requests, RequestInv(r), RequestStep(r)
  PROVE  TextInv(r)'
<1> USE DEF RequestInv, HandlerInv, TurnInv, TextInv
<1>a. /\ said[r] \in Seq(1 .. MaxPieces) /\ Len(said[r]) \in Nat
      /\ heard[r] \in Seq(1 .. MaxPieces) /\ Len(heard[r]) \in Nat
      /\ (said[r] = <<>> <=> Len(said[r]) = 0) /\ (heard[r] = <<>> <=> Len(heard[r]) = 0)
  BY TextTypes, EmptyText
<1>1. ASSUME NEW c \in Calls, Accept(r, c) PROVE TextInv(r)'
  BY <1>1, <1>a, AbsentAssumption DEF StreamTypeOK, Accept
<1>2. CASE Refuse(r)
  BY <1>2, <1>a DEF StreamTypeOK, Refuse, Finish, Reach
<1>3. CASE Start(r)
  <2>1. /\ handler[r] = "decode" /\ handler'[r] \in {"relay", "ask"} /\ turn[r] = "none"
        /\ turn'[r] = "opening" /\ said'[r] = said[r] /\ heard'[r] = heard[r]
        /\ header'[r] = FALSE
    BY <1>3, <1>a DEF StreamTypeOK, Start
  <2>2. /\ said[r] = <<>> /\ heard[r] = <<>> /\ InOrder(said[r]) /\ InOrder(heard[r])
        /\ Len(said[r]) = 0 /\ Len(heard[r]) = 0
    BY <2>1, <1>a
  <2> HIDE DEF RequestInv, HandlerInv, TurnInv
  <2> QED BY <2>1, <2>2, <1>a, PiecesAssumption DEF InOrder
<1>4. CASE AnswerTurn(r)
  <2>1. /\ handler[r] = "ask" /\ handler'[r] = "returned" /\ turn'[r] = turn[r]
        /\ call'[r] = call[r] /\ said'[r] = said[r] /\ heard'[r] = heard[r]
    BY <1>4 DEF StreamTypeOK, AnswerTurn, Finish, Reach
  <2> QED BY <2>1, <1>a DEF InOrder
<1>5. CASE ReceivePiece(r)
  <2>1. /\ handler[r] = "relay" /\ turn[r] = "sending" /\ handler'[r] = "write"
        /\ turn'[r] = "running" /\ piece'[r] = Len(said[r]) /\ said'[r] = said[r]
        /\ heard'[r] = heard[r] /\ header'[r] = header[r] /\ client'[r] = client[r]
        /\ call'[r] = call[r]
    BY <1>5 DEF StreamTypeOK, ReceivePiece
  <2>2. client[r] # "gone" => /\ Len(said[r]) = Len(heard[r]) + 1
                              /\ header[r] <=> heard[r] # <<>>
    BY <2>1, <1>a
  <2>3. /\ call[r].stream /\ InOrder(said[r]) /\ InOrder(heard[r])
        /\ Len(heard[r]) <= Len(said[r]) /\ Len(said[r]) <= MaxPieces
    BY <2>1
  <2> HIDE DEF RequestInv, HandlerInv, TurnInv
  <2> QED BY <2>1, <2>2, <2>3, <1>a DEF InOrder
<1>6. CASE WritePiece(r)
  <2>1. /\ client[r] = "reading" /\ handler[r] = "write"
        /\ turn'[r] = turn[r] /\ said'[r] = said[r] /\ header'[r] = TRUE /\ handler'[r] = "relay"
        /\ client'[r] = client[r] /\ call'[r] = call[r]
    BY <1>6 DEF StreamTypeOK, WritePiece
  <2>2. /\ turn[r] = "sending" => Len(said[r]) = Len(heard[r]) + 2
        /\ turn[r] # "sending" => Len(said[r]) = Len(heard[r]) + 1
        /\ piece[r] = Len(heard[r]) + 1
    BY <2>1, <1>a
  <2>3. /\ InOrder(said[r]) /\ InOrder(heard[r]) /\ Len(said[r]) <= MaxPieces
        /\ turn[r] \in {"none", "opening"} \/ ~call[r].stream => said[r] = <<>>
        /\ turn[r] = "sending" => said[r] # <<>>
    OBVIOUS
  <2> HIDE DEF RequestInv, HandlerInv, TurnInv
  <2>4. heard'[r] = Append(heard[r], Len(heard[r]) + 1)
    BY <1>6, <2>2 DEF StreamTypeOK, WritePiece, Text
  <2>5. Len(heard[r]) + 1 \in 1 .. MaxPieces
    <3>1. /\ Len(heard[r]) \in Nat /\ Len(said[r]) \in Nat
          /\ Len(heard[r]) + 1 <= Len(said[r]) /\ Len(said[r]) <= MaxPieces
      BY <2>2, <2>3, <1>a
    <3> HIDE DEF TextInv
    <3> QED BY <3>1, PiecesAssumption
  <2> DEFINE t == Append(heard[r], Len(heard[r]) + 1)
  <2>6. InOrder(t) /\ Len(t) = Len(heard[r]) + 1 /\ t # <<>>
    BY <2>3, <2>5, <1>a, InOrderAppend
  <2>7. heard'[r] = t
    BY <2>4
  <2> HIDE DEF t
  <2>8. /\ Len(heard'[r]) = Len(heard[r]) + 1 /\ heard'[r] # <<>>
        /\ InOrder(said[r])' /\ InOrder(heard[r])'
    BY <2>1, <2>3, <2>6, <2>7 DEF InOrder
  <2>9. /\ turn[r] = "sending" => Len(said'[r]) = Len(heard'[r]) + 1
        /\ turn[r] # "sending" => Len(said'[r]) = Len(heard'[r])
        /\ Len(heard'[r]) <= Len(said'[r])
    BY <2>1, <2>2, <2>8, <1>a
  <2> QED BY <2>1, <2>3, <2>8, <2>9
<1>7. CASE WriteToNobody(r)
  BY <1>7, <1>a DEF StreamTypeOK, WriteToNobody
<1>8. CASE EndStream(r)
  BY <1>8, <1>a DEF StreamTypeOK, EndStream, PiecesOver, InBand, Failed, Finish, Reach
<1>19. CASE ReportFailure(r)
  BY <1>19, <1>a DEF StreamTypeOK, ReportFailure, PiecesOver, InBand, Failed, Reach
<1>20. CASE SendDone(r)
  BY <1>20, <1>a DEF StreamTypeOK, SendDone, Finish, Reach
<1>9. CASE OpenConversation(r)
  BY <1>9, <1>a DEF StreamTypeOK, OpenConversation
<1>10. CASE OpenFails(r)
  BY <1>10, <1>a DEF StreamTypeOK, OpenFails
<1>11. CASE AbandonSend(r)
  BY <1>11, <1>a DEF StreamTypeOK, AbandonSend, SeesCancel
<1>12. CASE CloseConversation(r)
  BY <1>12, <1>a DEF StreamTypeOK, CloseConversation
<1>13. CASE ReportTurn(r)
  BY <1>13, <1>a DEF StreamTypeOK, ReportTurn
<1>14. CASE ModelSays(r)
  <2>1. /\ turn[r] = "running" /\ turn'[r] = "sending" /\ handler'[r] = handler[r]
        /\ heard'[r] = heard[r] /\ header'[r] = header[r] /\ piece'[r] = piece[r]
        /\ client'[r] = client[r] /\ call'[r] = call[r] /\ call[r].stream
        /\ said'[r] = Append(said[r], Len(said[r]) + 1) /\ Len(said[r]) < MaxPieces
    BY <1>14 DEF StreamTypeOK, ModelSays, Streaming
  <2>2. /\ InOrder(said[r]) /\ InOrder(heard[r]) /\ Len(heard[r]) <= Len(said[r])
        /\ handler[r] \notin {"idle", "decode"}
        /\ handler[r] \in {"relay", "write"} /\ client[r] # "gone" =>
             /\ handler[r] = "write" => Len(said[r]) = Len(heard[r]) + 1
             /\ handler[r] = "relay" => Len(said[r]) = Len(heard[r])
             /\ handler[r] = "write" => piece[r] = Len(heard[r]) + 1
             /\ header[r] <=> heard[r] # <<>>
    <3>1. CASE handler[r] \in {"relay", "write"} /\ client[r] # "gone"
      BY <3>1, <2>1, <1>a
    <3>2. CASE ~(handler[r] \in {"relay", "write"} /\ client[r] # "gone")
      BY <3>2, <2>1, <1>a
    <3> QED BY <3>1, <3>2
  <2> HIDE DEF RequestInv, HandlerInv, TurnInv
  <2>3. Len(said[r]) + 1 \in 1 .. MaxPieces
    <3>1. Len(said[r]) \in Nat /\ Len(said[r]) < MaxPieces
      BY <2>1, <1>a
    <3> HIDE DEF TextInv
    <3> QED BY <3>1, PiecesAssumption
  <2> DEFINE t == Append(said[r], Len(said[r]) + 1)
  <2>4. InOrder(t) /\ Len(t) = Len(said[r]) + 1 /\ t # <<>>
    BY <2>2, <2>3, <1>a, InOrderAppend
  <2>5. said'[r] = t
    BY <2>1
  <2> HIDE DEF t
  <2>6. /\ Len(said'[r]) = Len(said[r]) + 1 /\ said'[r] # <<>>
        /\ Len(heard'[r]) <= Len(said'[r]) /\ Len(said'[r]) <= MaxPieces
    <3>1. Len(said'[r]) = Len(said[r]) + 1 /\ said'[r] # <<>>
      BY <2>4, <2>5
    <3>2. heard'[r] = heard[r] /\ Len(heard[r]) <= Len(said[r]) /\ Len(said[r]) < MaxPieces
      BY <2>1, <2>2
    <3> HIDE DEF TextInv
    <3> QED BY <3>1, <3>2, <1>a, PiecesAssumption
  <2>7. InOrder(said[r])' /\ InOrder(heard[r])'
    BY <2>1, <2>2, <2>4, <2>5 DEF InOrder
  <2>8. handler[r] \in {"relay", "write"} /\ client[r] # "gone" =>
             /\ handler[r] = "write" => Len(said'[r]) = Len(heard'[r]) + 2
             /\ handler[r] = "relay" => Len(said'[r]) = Len(heard'[r]) + 1
    BY <2>1, <2>2, <2>6, <1>a
  <2> QED BY <2>1, <2>2, <2>6, <2>7, <2>8
<1>15. CASE ModelEnds(r)
  BY <1>15, <1>a DEF StreamTypeOK, ModelEnds
<1>16. CASE ModelFails(r)
  BY <1>16, <1>a DEF StreamTypeOK, ModelFails
<1>17. CASE CallerTurns(r)
  BY <1>17, <1>a DEF StreamTypeOK, CallerTurns, Served
<1>18. CASE NoticeGone(r)
  BY <1>18, <1>a DEF StreamTypeOK, NoticeGone, Served
<1> QED BY <1>1, <1>2, <1>3, <1>4, <1>5, <1>6, <1>7, <1>8, <1>9, <1>10, <1>11, <1>12, <1>13, <1>14, <1>15, <1>16, <1>17, <1>18, <1>19, <1>20 DEF RequestStep, HandlerStep, TurnStep, ModelStep

LEMMA ReplyInvStep ==
  ASSUME StreamTypeOK, NEW r \in Requests, RequestInv(r), RequestStep(r)
  PROVE  ReplyInv(r)'
<1> USE DEF RequestInv, HandlerInv, TurnInv, ReplyInv, Settled
<1>1. ASSUME NEW c \in Calls, Accept(r, c) PROVE ReplyInv(r)'
  BY <1>1, AbsentAssumption DEF StreamTypeOK, Accept
<1>2. CASE Refuse(r)
  BY <1>2 DEF StreamTypeOK, Refuse, Finish, Reach
<1>3. CASE Start(r)
  BY <1>3 DEF StreamTypeOK, Start, Streaming
<1>4. CASE AnswerTurn(r)
  <2>1. /\ said[r] = <<>> /\ heard[r] = <<>> /\ ~call[r].stream
    BY <1>4, UnaryIsSilent DEF AnswerTurn
  <2> QED BY <1>4, <2>1 DEF StreamTypeOK, AnswerTurn, Finish, Reach
<1>5. CASE ReceivePiece(r)
  BY <1>5 DEF StreamTypeOK, ReceivePiece
<1>6. CASE WritePiece(r)
  <2>1. /\ handler[r] = "write" /\ handler'[r] = "relay" /\ reply'[r] = reply[r]
    BY <1>6 DEF StreamTypeOK, WritePiece
  <2> QED BY <2>1
<1>7. CASE WriteToNobody(r)
  BY <1>7 DEF StreamTypeOK, WriteToNobody
<1>8. CASE EndStream(r)
  <2>1. /\ handler[r] = "relay" /\ turn[r] = "over" /\ call[r].stream /\ reply[r] = "none"
        /\ (Failed(r) <=> failure[r]) /\ ~(Failed(r) /\ header[r])
    BY <1>8 DEF EndStream, PiecesOver, InBand, Failed
  <2>2. client[r] # "gone" => heard[r] = said[r] /\ (header[r] <=> heard[r] # <<>>)
    BY <2>1, TextTypes, InOrderEqual DEF TextInv
  <2>3. /\ handler'[r] = "returned" /\ turn'[r] = "over" /\ call'[r] = call[r]
        /\ failure'[r] = failure[r] /\ heard'[r] = heard[r] /\ said'[r] = said[r]
        /\ client'[r] = client[r]
    BY <1>8, <2>1 DEF StreamTypeOK, EndStream, Finish
  <2>4. CASE client[r] = "gone"
    BY <1>8, <2>1, <2>3, <2>4 DEF EndStream, Finish, Reach
  <2>5. CASE client[r] # "gone"
    <3>1. reply'[r] = IF Failed(r) THEN "500" ELSE "[DONE]"
      BY <1>8, <2>5 DEF StreamTypeOK, EndStream, Finish, Reach
    <3> QED BY <2>1, <2>2, <2>3, <2>5, <3>1
  <2> QED BY <2>4, <2>5
<1>19. CASE ReportFailure(r)
  <2>1. /\ handler[r] = "relay" /\ turn[r] = "over" /\ call[r].stream /\ reply[r] = "none"
        /\ failure[r] /\ header[r]
    BY <1>19 DEF ReportFailure, PiecesOver, InBand, Failed
  <2>2. client[r] # "gone" => heard[r] = said[r] /\ heard[r] # <<>>
    BY <2>1, TextTypes, InOrderEqual DEF TextInv
  <2>3. /\ handler'[r] = "done" /\ turn'[r] = "over" /\ call'[r] = call[r]
        /\ failure'[r] = failure[r] /\ heard'[r] = heard[r] /\ said'[r] = said[r]
        /\ client'[r] = client[r]
        /\ reply'[r] = IF client[r] = "gone" THEN "none" ELSE "error event"
    BY <1>19, <2>1 DEF StreamTypeOK, ReportFailure, Reach
  <2> QED BY <2>1, <2>2, <2>3
<1>20. CASE SendDone(r)
  <2>1. /\ handler[r] = "done" /\ turn[r] = "over" /\ call[r].stream /\ failure[r]
        /\ client[r] # "gone" => reply[r] = "error event" /\ heard[r] # <<>>
    BY <1>20 DEF SendDone
  <2>2. reply[r] = "error event" => heard[r] = said[r]
    OBVIOUS
  <2>3. /\ handler'[r] = "returned" /\ turn'[r] = "over" /\ call'[r] = call[r]
        /\ failure'[r] = failure[r] /\ heard'[r] = heard[r] /\ said'[r] = said[r]
        /\ client'[r] = client[r]
        /\ reply'[r] = IF client[r] = "gone" THEN reply[r] ELSE "error event, [DONE]"
    BY <1>20, <2>1 DEF StreamTypeOK, SendDone, Finish, Reach
  <2> QED BY <2>1, <2>2, <2>3
<1>9. CASE OpenConversation(r)
  BY <1>9 DEF StreamTypeOK, OpenConversation
<1>10. CASE OpenFails(r)
  BY <1>10 DEF StreamTypeOK, OpenFails
<1>11. CASE AbandonSend(r)
  BY <1>11 DEF StreamTypeOK, AbandonSend, SeesCancel
<1>12. CASE CloseConversation(r)
  BY <1>12 DEF StreamTypeOK, CloseConversation
<1>13. CASE ReportTurn(r)
  BY <1>13 DEF StreamTypeOK, ReportTurn
<1>14. CASE ModelSays(r)
  <2>1. /\ turn[r] = "running" /\ turn'[r] = "sending" /\ handler'[r] = handler[r]
        /\ reply'[r] = reply[r] /\ client'[r] = client[r]
    BY <1>14 DEF StreamTypeOK, ModelSays
  <2> QED BY <2>1
<1>15. CASE ModelEnds(r)
  BY <1>15 DEF StreamTypeOK, ModelEnds
<1>16. CASE ModelFails(r)
  BY <1>16 DEF StreamTypeOK, ModelFails
<1>17. CASE CallerTurns(r)
  BY <1>17 DEF StreamTypeOK, CallerTurns, Served
<1>18. CASE NoticeGone(r)
  BY <1>18 DEF StreamTypeOK, NoticeGone, Served
<1> QED BY <1>1, <1>2, <1>3, <1>4, <1>5, <1>6, <1>7, <1>8, <1>9, <1>10, <1>11, <1>12, <1>13, <1>14, <1>15, <1>16, <1>17, <1>18, <1>19, <1>20 DEF RequestStep, HandlerStep, TurnStep, ModelStep

-----------------------------------------------------------------------------
(* All requests and the server.                                            *)

LEMMA EveryRequest ==
  ASSUME StreamTypeOK, \A q \in Requests : RequestInv(q),
         NEW r \in Requests, RequestStep(r)
  PROVE  StreamTypeOK' /\ \A q \in Requests : RequestInv(q)'
<1>1. StreamTypeOK'
  BY RequestType
<1>2. RequestInv(r)'
  BY HandlerInvStep, TurnInvStep, TextInvStep, ReplyInvStep DEF RequestInv
<1>3. ASSUME NEW q \in Requests, q # r PROVE RequestInv(q)'
  BY <1>3, OthersSame, SameKeeps
<1> QED BY <1>1, <1>2, <1>3

LEMMA RestingRequests ==
  ASSUME UNCHANGED streamVars, StreamTypeOK, \A q \in Requests : RequestInv(q)
  PROVE  StreamTypeOK' /\ \A q \in Requests : RequestInv(q)'
<1>1. StreamTypeOK'
  BY DEF streamVars, StreamTypeOK
<1>2. ASSUME NEW q \in Requests PROVE RequestInv(q)'
  <2>1. Same(q)
    BY DEF streamVars, Same
  <2> QED BY <2>1, SameKeeps
<1> QED BY <1>1, <1>2

\* A request that has no handler gets one only from the listener.
LEMMA NoNewHandler ==
  ASSUME StreamTypeOK, StreamStep, AllReturned
  PROVE  AllReturned'
<1>1. PICK r \in Requests :
        HandlerStep(r) \/ TurnStep(r) \/ ModelStep(r) \/ CallerTurns(r) \/ NoticeGone(r)
  BY DEF StreamStep
<1>2. handler[r] \in {"idle", "returned"}
  BY DEF AllReturned, Served
<1>3. ~HandlerStep(r)
  BY <1>2 DEF HandlerStep, Refuse, Start, AnswerTurn, ReceivePiece, WritePiece,
              WriteToNobody, EndStream, ReportFailure, PiecesOver, SendDone
<1>4. handler' = handler
  BY <1>1, <1>3 DEF TurnStep, ModelStep, OpenConversation, OpenFails, AbandonSend,
     CloseConversation, ReportTurn, ModelSays, ModelEnds, ModelFails, CallerTurns, NoticeGone
<1> QED BY <1>4 DEF AllReturned, Served

LEMMA RuntimeInit == Init => RuntimeInv
<1> SUFFICES ASSUME Init PROVE RuntimeInv
  OBVIOUS
<1>1. TypeOK
  BY TypeInit
<1>2. ASSUME NEW r \in Requests PROVE RequestInv(r)
  <2>1. Len(<<>>) = 0
    BY EmptySeq
  <2>2. HandlerInv(r) /\ TurnInv(r) /\ ReplyInv(r)
    BY DEF Init, StreamInit, HandlerInv, TurnInv, ReplyInv, Settled
  <2>3. TextInv(r)
    BY <2>1, PiecesAssumption DEF Init, StreamInit, TextInv, InOrder
  <2> QED BY <2>2, <2>3 DEF RequestInv
<1>3. ExitInv
  BY DEF Init, ExitInv, TracesKept
<1> QED BY <1>1, <1>2, <1>3 DEF RuntimeInv

\* A caller who was told of a turn has the turn over, its span with it.
LEMMA ToldIsOver ==
  ASSUME NEW r \in Requests, RequestInv(r), Settled(r), call[r].valid
  PROVE  turn[r] = "over"
BY DEF RequestInv, HandlerInv, ReplyInv, Settled

LEMMA RuntimeStep == RuntimeInv /\ [Next]_vars => RuntimeInv'
<1> SUFFICES ASSUME RuntimeInv, [Next]_vars PROVE RuntimeInv'
  OBVIOUS
<1> USE DEF RuntimeInv, TypeOK
<1>1. ASSUME NEW r \in Requests, NEW c \in Calls, ServeRequest(r, c) PROVE RuntimeInv'
  <2>1. StreamTypeOK' /\ \A q \in Requests : RequestInv(q)'
    BY <1>1, EveryRequest DEF ServeRequest, RequestStep
  <2>2. server' = "serving" /\ status' = status /\ exported' = exported
    BY <1>1 DEF ServeRequest, serverVars
  <2>3. ExitInv'
    BY <1>1, <2>2 DEF ServeRequest, ExitInv, TracesKept
  <2> QED BY <2>1, <2>2, <2>3
<1>2. CASE server # "exited" /\ StreamStep /\ UNCHANGED serverVars
  <2>1. StreamTypeOK' /\ \A q \in Requests : RequestInv(q)'
    BY <1>2, EveryRequest DEF StreamStep, RequestStep
  <2>2. server' = server /\ status' = status /\ exported' = exported
    BY <1>2 DEF serverVars
  <2>3. ExitInv'
    BY <1>2, <2>2, NoNewHandler DEF ExitInv, TracesKept
  <2> QED BY <2>1, <2>2, <2>3
<1>3. CASE ServerStep
  <2>1. UNCHANGED streamVars
    BY <1>3 DEF ServerStep, Signal, ServeFails, Drained, DrainExpires, FlushAndExit
  <2>2. StreamTypeOK' /\ \A q \in Requests : RequestInv(q)'
    BY <2>1, RestingRequests
  <2>3. AllReturned => AllReturned'
    BY <2>1 DEF streamVars, AllReturned, Served
  <2>4. CASE Signal
    BY <2>2, <2>4 DEF Signal, ExitInv, TracesKept
  <2>5. CASE ServeFails
    BY <2>2, <2>5 DEF ServeFails, ExitInv, TracesKept
  <2>6. CASE Drained
    BY <2>2, <2>3, <2>6 DEF Drained, ExitInv, TracesKept
  <2>7. CASE DrainExpires
    BY <2>2, <2>7 DEF DrainExpires, ExitInv, TracesKept
  <2>8. CASE FlushAndExit
    <3>1. server' = "exited" /\ status' = status /\ exported' \in (SUBSET Requests) \cup {None}
      <4> DEFINE ended == {r \in Requests : turn[r] \in {"reporting", "over"}}
      <4>1. server' = "exited" /\ status' = status /\ exported' \in {ended, None}
        BY <2>8 DEF FlushAndExit
      <4>2. ended \in SUBSET Requests
        OBVIOUS
      <4>3. exported' = ended \/ exported' = None
        BY <4>1
      <4> HIDE DEF ended
      <4> QED BY <4>1, <4>2, <4>3
    <3>2. TracesKept'
      <4>1. SUFFICES ASSUME exported' # None, NEW r \in Requests,
                            Settled(r)', call'[r].valid
                     PROVE  r \in exported'
        BY DEF TracesKept
      <4>2. Settled(r) /\ call[r].valid
        BY <2>1, <4>1 DEF streamVars, Settled
      <4>3. turn[r] = "over"
        BY <4>2, ToldIsOver
      <4> QED BY <2>8, <4>1, <4>3 DEF FlushAndExit
    <3>3. ExitInv'
      BY <2>3, <2>8, <3>1, <3>2 DEF FlushAndExit, ExitInv
    <3> QED BY <2>2, <3>1, <3>3
  <2> QED BY <1>3, <2>4, <2>5, <2>6, <2>7, <2>8 DEF ServerStep
<1>4. CASE UNCHANGED vars
  <2>1. UNCHANGED streamVars /\ server' = server /\ status' = status /\ exported' = exported
    BY <1>4 DEF vars, serverVars
  <2>2. StreamTypeOK' /\ \A q \in Requests : RequestInv(q)'
    BY <2>1, RestingRequests
  <2>3. ExitInv'
    BY <2>1 DEF streamVars, ExitInv, TracesKept, AllReturned, Served, Settled
  <2> QED BY <2>1, <2>2, <2>3
<1> QED BY <1>1, <1>2, <1>3, <1>4 DEF Next

LEMMA RuntimeInductive == Spec => []RuntimeInv
BY RuntimeInit, RuntimeStep, PTL DEF Spec

-----------------------------------------------------------------------------
(* The theorems.                                                           *)

\* Every goroutine, channel, caller and saved history is in one of its states,
\* and the handler never writes a piece the producer did not send.
THEOREM RequestsTypeCorrect == Spec => []TypeOK
<1>1. RuntimeInv => TypeOK
  BY DEF RuntimeInv
<1> QED BY <1>1, RuntimeInductive, PTL

\* Whatever the interleaving of producer, handler and caller, what the caller
\* heard is a prefix of what the model said; its stream ends after all of it,
\* and the turn went well unless an error event comes before [DONE].
THEOREM StreamAlwaysFaithful == Spec => []StreamFaithful
<1>1. RuntimeInv => StreamFaithful
  <2> SUFFICES ASSUME RuntimeInv, NEW r \in Requests
               PROVE  /\ IsPrefix(heard[r], said[r])
                      /\ reply[r] \in {"[DONE]", "error event", "error event, [DONE]"} =>
                           /\ heard[r] = said[r]
                           /\ failure[r] <=> reply[r] # "[DONE]"
    BY DEF StreamFaithful
  <2>1. RequestInv(r) /\ StreamTypeOK
    BY DEF RuntimeInv, TypeOK
  <2>2. IsPrefix(heard[r], said[r])
    BY <2>1, PrefixInOrder, TextTypes DEF RequestInv, TextInv
  <2> QED BY <2>1, <2>2 DEF RequestInv, ReplyInv
<1> QED BY <1>1, RuntimeInductive, PTL

\* A caller who stays is told how the turn ended, an error before any text as
\* a status, one after it as an event with [DONE] behind it.
THEOREM OutcomeAlwaysTold == Spec => []OutcomeTold
<1>1. RuntimeInv => OutcomeTold
  <2> SUFFICES ASSUME RuntimeInv, NEW r \in Requests, Settled(r), call[r].valid
               PROVE  /\ turn[r] = "over"
                      /\ reply[r] = IF failure[r]
                                      THEN IF heard[r] = <<>> THEN "500"
                                           ELSE "error event, [DONE]"
                                      ELSE IF call[r].stream THEN "[DONE]" ELSE "answer"
    BY DEF OutcomeTold
  <2>1. HandlerInv(r) /\ ReplyInv(r)
    BY DEF RuntimeInv, RequestInv
  <2> QED BY <2>1 DEF HandlerInv, ReplyInv, Settled
<1> QED BY <1>1, RuntimeInductive, PTL

\* A shutdown that runServer calls complete cut no request.
THEOREM CompleteExitIsClean == Spec => []CleanExit
<1>1. RuntimeInv => CleanExit
  <2> SUFFICES ASSUME RuntimeInv, server = "exited", status = "complete",
                      NEW r \in Requests
               PROVE  /\ handler[r] \in {"idle", "returned"}
                      /\ Settled(r) => reply[r] # "none" /\ conv[r] # "open"
    BY DEF CleanExit
  <2>1. HandlerInv(r) /\ TurnInv(r) /\ ReplyInv(r)
    BY DEF RuntimeInv, RequestInv
  <2>2. handler[r] \in {"idle", "returned"}
    BY DEF RuntimeInv, ExitInv, AllReturned, Served
  <2> QED BY <2>1, <2>2 DEF TurnInv, ReplyInv
<1> QED BY <1>1, RuntimeInductive, PTL

\* After a complete shutdown whose flush worked, no turn a caller was told of
\* is missing from the traces.
THEOREM TracesAlwaysKept == Spec => []TracesKept
<1>1. RuntimeInv => TracesKept
  BY DEF RuntimeInv, ExitInv
<1> QED BY <1>1, RuntimeInductive, PTL

-----------------------------------------------------------------------------
(***************************************************************************)
(* The runtime implements TurnPromise: every step is one of the promise's  *)
(* or changes nothing it speaks of.                                        *)
(***************************************************************************)

(* What a step may do to the promise's view of one request.                *)

KeepsCall(q)  == call'[q] = None <=> call[q] = None
KeepsText(q)  == said'[q] = said[q]
KeepsHeard(q) == heard'[q] = heard[q]
KeepsEnd(q)   == HowEnded(q)' = HowEnded(q)
KeepsWord(q)  == Word(q)' = Word(q)

Kept(q) == KeepsCall(q) /\ KeepsText(q) /\ KeepsHeard(q) /\ KeepsEnd(q) /\ KeepsWord(q)

Arrives(r) ==
  /\ call[r] = None /\ call'[r] # None
  /\ KeepsText(r) /\ KeepsHeard(r) /\ KeepsEnd(r) /\ KeepsWord(r)

Refused(r) ==
  /\ call[r] # None /\ HowEnded(r) = "open" /\ said[r] = <<>> /\ Word(r) = "none"
  /\ Word(r)' = "refused"
  /\ KeepsCall(r) /\ KeepsText(r) /\ KeepsHeard(r) /\ KeepsEnd(r)

UnderWay(r) == call[r] # None /\ HowEnded(r) = "open" /\ Word(r) = "none"

Says(r) ==
  /\ UnderWay(r)
  /\ \E p \in 1 .. MaxPieces : said'[r] = Append(said[r], p)
  /\ KeepsCall(r) /\ KeepsHeard(r) /\ KeepsEnd(r) /\ KeepsWord(r)

Ends(r) ==
  /\ UnderWay(r)
  /\ HowEnded(r)' \in {"done", "failed"}
  /\ KeepsCall(r) /\ KeepsText(r) /\ KeepsHeard(r) /\ KeepsWord(r)

Hears(r) ==
  /\ Word(r) = "none"
  /\ Len(heard[r]) < Len(said[r])
  /\ heard'[r] = Append(heard[r], said[r][Len(heard[r]) + 1])
  /\ KeepsCall(r) /\ KeepsText(r) /\ KeepsEnd(r) /\ KeepsWord(r)

Tells(r) ==
  /\ HowEnded(r) # "open" /\ Word(r) = "none" /\ heard[r] = said[r]
  /\ Word(r)' = IF HowEnded(r) = "failed" THEN "failed" ELSE "answer"
  /\ KeepsCall(r) /\ KeepsText(r) /\ KeepsHeard(r) /\ KeepsEnd(r)

Terminates(r) ==
  /\ Word(r) = "failed" /\ heard[r] # <<>>
  /\ Word(r)' = "failed, terminated"
  /\ KeepsCall(r) /\ KeepsText(r) /\ KeepsHeard(r) /\ KeepsEnd(r)

Move(r) ==
  \/ Kept(r) \/ Arrives(r) \/ Refused(r) \/ Says(r) \/ Ends(r) \/ Hears(r) \/ Tells(r)
  \/ Terminates(r)

LEMMA SameKept ==
  ASSUME NEW q, Same(q)
  PROVE  Kept(q)
BY DEF Same, Kept, KeepsCall, KeepsText, KeepsHeard, KeepsEnd, KeepsWord, HowEnded, Word

\* Of a text in order, the piece after n others is the one numbered n + 1.
LEMMA NextPiece ==
  ASSUME NEW s, InOrder(s), Len(s) \in Nat, NEW n \in Nat, n < Len(s)
  PROVE  s[n + 1] = n + 1
<1>1. n + 1 \in 1 .. Len(s)
  OBVIOUS
<1> QED BY <1>1 DEF InOrder

-----------------------------------------------------------------------------
(* Each action makes one of these moves.                                   *)

LEMMA StepMoves ==
  ASSUME StreamTypeOK, NEW r \in Requests, RequestInv(r), RequestStep(r)
  PROVE  Move(r)
<1> USE DEF RequestInv, HandlerInv, TurnInv, ReplyInv, Settled, KeepsCall, KeepsText,
            KeepsHeard, KeepsEnd, KeepsWord, HowEnded, Word
<1>a. call[r] # None => call[r] \in Calls
  BY DEF StreamTypeOK
<1>1. ASSUME NEW c \in Calls, Accept(r, c) PROVE Arrives(r)
  <2>1. call[r] = None /\ call'[r] = c /\ c # None
    BY <1>1, AbsentAssumption DEF StreamTypeOK, Accept
  <2>2. /\ turn' = turn /\ failure' = failure /\ said' = said /\ heard' = heard
        /\ reply' = reply
    BY <1>1 DEF Accept
  <2> QED BY <2>1, <2>2 DEF Arrives
<1>2. CASE Refuse(r)
  <2>1. /\ turn[r] = "none" /\ reply[r] = "none" /\ call[r] # None /\ said[r] = <<>>
        /\ turn' = turn /\ failure' = failure /\ said' = said /\ heard' = heard
        /\ call' = call
    BY <1>2 DEF Refuse, TextInv
  <2>2. CASE client[r] = "gone"
    BY <1>2, <2>1, <2>2 DEF Refuse, Finish, Reach, Kept, Move
  <2>3. CASE client[r] # "gone"
    <3>1. reply'[r] = "refused"
      BY <1>2, <2>3 DEF Refuse, Finish, Reach, StreamTypeOK
    <3> QED BY <2>1, <3>1 DEF Refused, Move
  <2> QED BY <2>2, <2>3
<1>3. CASE Start(r)
  <2>1. /\ turn[r] = "none" /\ turn'[r] = "opening" /\ failure' = failure
        /\ said' = said /\ heard' = heard /\ call' = call /\ reply' = reply
    BY <1>3 DEF Start, StreamTypeOK
  <2> QED BY <2>1 DEF Kept, Move
<1>4. CASE AnswerTurn(r)
  <2>0. said[r] = <<>> /\ heard[r] = <<>>
    BY <1>4, UnaryIsSilent DEF AnswerTurn
  <2>1. /\ turn[r] = "over" /\ reply[r] = "none" /\ call[r] # None
        /\ said[r] = <<>> /\ heard[r] = <<>>
        /\ turn' = turn /\ failure' = failure /\ said' = said /\ heard' = heard
        /\ call' = call
    BY <1>4, <2>0 DEF AnswerTurn
  <2>2. CASE client[r] = "gone"
    BY <1>4, <2>1, <2>2 DEF AnswerTurn, Finish, Reach, Kept, Move
  <2>3. CASE client[r] # "gone"
    <3>1. reply'[r] = IF failure[r] THEN "500" ELSE "answer"
      BY <1>4, <2>3 DEF AnswerTurn, Finish, Reach, StreamTypeOK
    <3> QED BY <2>1, <3>1 DEF Tells, Move
  <2> QED BY <2>2, <2>3
<1>5. CASE ReceivePiece(r)
  <2>1. /\ turn[r] = "sending" /\ turn'[r] = "running" /\ failure' = failure
        /\ said' = said /\ heard' = heard /\ call' = call /\ reply' = reply
    BY <1>5 DEF ReceivePiece, StreamTypeOK
  <2> QED BY <2>1 DEF Kept, Move
<1>6. CASE WritePiece(r)
  <2>1. /\ handler[r] = "write" /\ client[r] = "reading" /\ reply[r] = "none"
        /\ heard'[r] = Append(heard[r], piece[r])
        /\ turn' = turn /\ failure' = failure /\ said' = said /\ call' = call
        /\ reply' = reply
    BY <1>6 DEF WritePiece, Text, StreamTypeOK
  <2>2. piece[r] = Len(heard[r]) + 1 /\ Len(heard[r]) < Len(said[r]) /\ InOrder(said[r])
    BY <2>1, TextTypes DEF TextInv
  <2>3. said[r][Len(heard[r]) + 1] = piece[r]
    BY <2>2, TextTypes, NextPiece
  <2> QED BY <2>1, <2>2, <2>3 DEF Hears, Move
<1>7. CASE WriteToNobody(r)
  BY <1>7 DEF WriteToNobody, Kept, Move
<1>8. CASE EndStream(r)
  <2>1. /\ handler[r] = "relay" /\ turn[r] = "over" /\ reply[r] = "none"
        /\ turn' = turn /\ failure' = failure /\ said' = said /\ heard' = heard
        /\ call' = call
        /\ Failed(r) <=> failure[r]
    BY <1>8 DEF EndStream, PiecesOver, Failed
  <2>2. CASE client[r] = "gone"
    BY <1>8, <2>1, <2>2 DEF EndStream, Finish, Reach, Kept, Move
  <2>3. CASE client[r] # "gone"
    <3>1. heard[r] = said[r]
      BY <2>1, <2>3, TextTypes, InOrderEqual DEF TextInv
    <3>2. reply'[r] = IF Failed(r) THEN "500" ELSE "[DONE]"
      BY <1>8, <2>3 DEF EndStream, Finish, Reach, StreamTypeOK
    <3> QED BY <2>1, <3>1, <3>2 DEF Tells, Move
  <2> QED BY <2>2, <2>3
<1>20. CASE ReportFailure(r)
  <2>1. /\ handler[r] = "relay" /\ turn[r] = "over" /\ reply[r] = "none" /\ failure[r]
        /\ turn' = turn /\ failure' = failure /\ said' = said /\ heard' = heard
        /\ call' = call
    BY <1>20 DEF ReportFailure, PiecesOver, InBand, Failed
  <2>2. CASE client[r] = "gone"
    BY <1>20, <2>1, <2>2 DEF ReportFailure, Reach, Kept, Move
  <2>3. CASE client[r] # "gone"
    <3>1. heard[r] = said[r]
      BY <2>1, <2>3, TextTypes, InOrderEqual DEF TextInv
    <3>2. reply'[r] = "error event"
      BY <1>20, <2>3 DEF ReportFailure, Reach, StreamTypeOK
    <3> QED BY <2>1, <3>1, <3>2 DEF Tells, Move
  <2> QED BY <2>2, <2>3
<1>21. CASE SendDone(r)
  <2>1. /\ handler[r] = "done"
        /\ turn' = turn /\ failure' = failure /\ said' = said /\ heard' = heard
        /\ call' = call
    BY <1>21 DEF SendDone
  <2>2. CASE client[r] = "gone"
    BY <1>21, <2>1, <2>2 DEF SendDone, Finish, Reach, Kept, Move
  <2>3. CASE client[r] # "gone"
    <3>1. reply[r] = "error event" /\ heard[r] # <<>>
      BY <2>1, <2>3
    <3>2. reply'[r] = "error event, [DONE]"
      BY <1>21, <2>3 DEF SendDone, Finish, Reach, StreamTypeOK
    <3> QED BY <2>1, <3>1, <3>2 DEF Terminates, Move
  <2> QED BY <2>2, <2>3
<1>9. CASE OpenConversation(r)
  <2>1. /\ turn[r] = "opening" /\ turn'[r] = "running" /\ failure' = failure
        /\ said' = said /\ heard' = heard /\ call' = call /\ reply' = reply
    BY <1>9 DEF OpenConversation, StreamTypeOK
  <2> QED BY <2>1 DEF Kept, Move
<1>10. CASE OpenFails(r)
  <2>1. /\ turn[r] = "opening" /\ turn'[r] = "reporting" /\ failure'[r] = TRUE
        /\ said' = said /\ heard' = heard /\ call' = call /\ reply' = reply
    BY <1>10 DEF OpenFails, StreamTypeOK
  <2>2. reply[r] = "none" /\ call[r] # None
    BY <2>1 DEF StreamTypeOK
  <2> QED BY <2>1, <2>2 DEF Ends, UnderWay, Move
<1>11. CASE AbandonSend(r)
  <2>1. /\ turn[r] = "sending" /\ turn'[r] = "closing" /\ failure'[r] = TRUE
        /\ said' = said /\ heard' = heard /\ call' = call /\ reply' = reply
    BY <1>11 DEF AbandonSend, StreamTypeOK
  <2>2. reply[r] = "none" /\ call[r] # None
    BY <2>1 DEF StreamTypeOK
  <2> QED BY <2>1, <2>2 DEF Ends, UnderWay, Move
<1>12. CASE CloseConversation(r)
  <2>1. /\ turn[r] = "closing" /\ turn'[r] = "reporting" /\ failure' = failure
        /\ said' = said /\ heard' = heard /\ call' = call /\ reply' = reply
    BY <1>12 DEF CloseConversation, StreamTypeOK
  <2> QED BY <2>1 DEF Kept, Move
<1>13. CASE ReportTurn(r)
  <2>1. /\ turn[r] = "reporting" /\ turn'[r] = "over" /\ failure' = failure
        /\ said' = said /\ heard' = heard /\ call' = call /\ reply' = reply
    BY <1>13 DEF ReportTurn, StreamTypeOK
  <2> QED BY <2>1 DEF Kept, Move
<1>14. CASE ModelSays(r)
  <2>1. /\ turn[r] = "running" /\ turn'[r] = "sending" /\ failure' = failure
        /\ said'[r] = Append(said[r], Len(said[r]) + 1) /\ Len(said[r]) < MaxPieces
        /\ heard' = heard /\ call' = call /\ reply' = reply
    BY <1>14 DEF ModelSays, StreamTypeOK
  <2>2. reply[r] = "none" /\ call[r] # None
    BY <2>1 DEF StreamTypeOK
  <2>3. Len(said[r]) + 1 \in 1 .. MaxPieces
    <3>1. Len(said[r]) \in Nat /\ Len(said[r]) < MaxPieces
      BY <2>1, TextTypes
    <3> HIDE DEF RequestInv
    <3> QED BY <3>1, PiecesAssumption
  <2> QED BY <2>1, <2>2, <2>3 DEF Says, UnderWay, Move
<1>15. CASE ModelEnds(r)
  <2>1. /\ turn[r] = "running" /\ turn'[r] = "closing" /\ failure' = failure
        /\ said' = said /\ heard' = heard /\ call' = call /\ reply' = reply
    BY <1>15 DEF ModelEnds, StreamTypeOK
  <2>2. reply[r] = "none" /\ call[r] # None
    BY <2>1 DEF StreamTypeOK
  <2> QED BY <2>1, <2>2 DEF Ends, UnderWay, Move
<1>16. CASE ModelFails(r)
  <2>1. /\ turn[r] = "running" /\ turn'[r] = "closing" /\ failure'[r] = TRUE
        /\ said' = said /\ heard' = heard /\ call' = call /\ reply' = reply
    BY <1>16 DEF ModelFails, StreamTypeOK
  <2>2. reply[r] = "none" /\ call[r] # None
    BY <2>1 DEF StreamTypeOK
  <2> QED BY <2>1, <2>2 DEF Ends, UnderWay, Move
<1>17. CASE CallerTurns(r)
  BY <1>17 DEF CallerTurns, Kept, Move
<1>18. CASE NoticeGone(r)
  BY <1>18 DEF NoticeGone, Kept, Move
<1>19. ASSUME NEW c \in Calls, Accept(r, c) PROVE Move(r)
  BY <1>1, <1>19 DEF Move
<1> QED
  <2> HIDE DEF Move, RequestInv, HandlerInv, TurnInv, ReplyInv, Settled, KeepsCall, KeepsText,
               KeepsHeard, KeepsEnd, KeepsWord, HowEnded, Word
  <2> QED BY <1>2, <1>3, <1>4, <1>5, <1>6, <1>7, <1>8, <1>9, <1>10, <1>11, <1>12, <1>13, <1>14, <1>15, <1>16, <1>17, <1>18, <1>19, <1>20, <1>21 DEF RequestStep, HandlerStep, TurnStep, ModelStep

-----------------------------------------------------------------------------
(* A move of one request is a step of the promise.                         *)

\* The two texts are functions, as the type invariant has it.
Views ==
  /\ said = [q \in Requests |-> said[q]]
  /\ heard = [q \in Requests |-> heard[q]]

LEMMA MoveKeepsPromise ==
  ASSUME Views, Views', NEW r \in Requests, Move(r),
         \A q \in Requests : q # r => Kept(q)
  PROVE  [Promise!Next]_(Promise!turnVars)
<1> USE DEF Kept, KeepsCall, KeepsText, KeepsHeard, KeepsEnd, KeepsWord
<1> DEFINE asked == {q \in Requests : call[q] # None}
           end   == [q \in Requests |-> HowEnded(q)]
           word  == [q \in Requests |-> Word(q)]
           E(q)  == HowEnded(q)
           W(q)  == Word(q)
<1>1. KeepsText(r) => said' = said
  BY DEF Views
<1>2. KeepsHeard(r) => heard' = heard
  BY DEF Views
<1>3. KeepsCall(r) => asked' = asked
  OBVIOUS
<1>4. KeepsEnd(r) => end' = end
  OBVIOUS
<1>5. KeepsWord(r) => word' = word
  OBVIOUS
<1>6. CASE Kept(r)
  BY <1>1, <1>2, <1>3, <1>4, <1>5, <1>6 DEF Promise!turnVars
<1>7. CASE Arrives(r)
  <2>1. r \notin asked /\ asked' = asked \cup {r}
    BY <1>7 DEF Arrives
  <2>2. UNCHANGED <<said, end, heard, word>>
    BY <1>1, <1>2, <1>4, <1>5, <1>7 DEF Arrives
  <2>3. Promise!Ask(r)
    BY <2>1, <2>2 DEF Promise!Ask
  <2> QED BY <2>3 DEF Promise!Next
<1>8. CASE Refused(r)
  <2>1. r \in asked /\ end[r] = "open" /\ said[r] = <<>> /\ word[r] = "none"
    BY <1>8 DEF Refused
  <2>2. UNCHANGED <<asked, said, end, heard>>
    BY <1>1, <1>2, <1>3, <1>4, <1>8 DEF Refused
  <2>3. word' = [word EXCEPT ![r] = "refused"]
    BY <1>8 DEF Refused
  <2>4. Promise!Refuse(r)
    BY <2>1, <2>2, <2>3 DEF Promise!Refuse
  <2> QED BY <2>4 DEF Promise!Next
<1>9. CASE Says(r)
  <2>1. r \in asked /\ end[r] = "open" /\ word[r] = "none"
    BY <1>9 DEF Says, UnderWay
  <2>2. UNCHANGED <<asked, end, heard, word>>
    BY <1>2, <1>3, <1>4, <1>5, <1>9 DEF Says
  <2>3. PICK p \in 1 .. MaxPieces : said'[r] = Append(said[r], p)
    BY <1>9 DEF Says
  <2>4. said' = [said EXCEPT ![r] = Append(said[r], p)]
    BY <2>3 DEF Views
  <2>5. Promise!Say(r, p)
    BY <2>1, <2>2, <2>4 DEF Promise!Say, Promise!Running
  <2> QED BY <2>5 DEF Promise!Next
<1>10. CASE Ends(r)
  <2>1. r \in asked /\ end[r] = "open" /\ word[r] = "none"
    BY <1>10 DEF Ends, UnderWay
  <2>2. UNCHANGED <<asked, said, heard, word>>
    BY <1>1, <1>2, <1>3, <1>5, <1>10 DEF Ends
  <2>3. PICK how \in {"done", "failed"} : E(r)' = how
    BY <1>10 DEF Ends
  <2>4. end' = [end EXCEPT ![r] = how]
    BY <2>3
  <2>5. Promise!End(r, how)
    BY <2>1, <2>2, <2>4 DEF Promise!End, Promise!Running
  <2> QED BY <2>5 DEF Promise!Next
<1>11. CASE Hears(r)
  <2>1. word[r] = "none" /\ Len(heard[r]) < Len(said[r])
    BY <1>11 DEF Hears
  <2>2. UNCHANGED <<asked, said, end, word>>
    BY <1>1, <1>3, <1>4, <1>5, <1>11 DEF Hears
  <2>3. heard' = [heard EXCEPT ![r] = Append(heard[r], said[r][Len(heard[r]) + 1])]
    BY <1>11 DEF Hears, Views
  <2>4. Promise!Hear(r)
    BY <2>1, <2>2, <2>3 DEF Promise!Hear
  <2> QED BY <2>4 DEF Promise!Next
<1>12. CASE Tells(r)
  <2>1. end[r] # "open" /\ word[r] = "none" /\ heard[r] = said[r]
    BY <1>12 DEF Tells
  <2>2. UNCHANGED <<asked, said, end, heard>>
    BY <1>1, <1>2, <1>3, <1>4, <1>12 DEF Tells
  <2>3. word' = [word EXCEPT ![r] = IF end[r] = "failed" THEN "failed" ELSE "answer"]
    BY <1>12 DEF Tells
  <2>4. Promise!Tell(r)
    BY <2>1, <2>2, <2>3 DEF Promise!Tell
  <2> QED BY <2>4 DEF Promise!Next
<1>13. CASE Terminates(r)
  <2>1. word[r] = "failed" /\ heard[r] # <<>>
    BY <1>13 DEF Terminates
  <2>2. UNCHANGED <<asked, said, end, heard>>
    BY <1>1, <1>2, <1>3, <1>4, <1>13 DEF Terminates
  <2>3. word' = [word EXCEPT ![r] = "failed, terminated"]
    BY <1>13 DEF Terminates
  <2>4. Promise!Terminate(r)
    BY <2>1, <2>2, <2>3 DEF Promise!Terminate
  <2> QED BY <2>4 DEF Promise!Next
<1> QED BY <1>6, <1>7, <1>8, <1>9, <1>10, <1>11, <1>12, <1>13 DEF Move

-----------------------------------------------------------------------------
(* The runtime keeps its promise.                                          *)

LEMMA PromiseInit == Init => Promise!Init
  <1> SUFFICES ASSUME Init PROVE Promise!Init
    OBVIOUS
  <1>1. \A q \in Requests : call[q] = None /\ HowEnded(q) = "open" /\ Word(q) = "none"
    BY DEF Init, StreamInit, HowEnded, Word
  <1>2. said = [q \in Requests |-> <<>>] /\ heard = [q \in Requests |-> <<>>]
    BY DEF Init, StreamInit
  <1> QED BY <1>1, <1>2 DEF Promise!Init

LEMMA PromiseStep ==
  ASSUME RuntimeInv, RuntimeInv', [Next]_vars
  PROVE  [Promise!Next]_(Promise!turnVars)
<1> USE DEF RuntimeInv, TypeOK
<1>1. Views /\ Views'
  <2>1. /\ said \in [Requests -> Seq(1 .. MaxPieces)]
        /\ heard \in [Requests -> Seq(1 .. MaxPieces)]
        /\ said' \in [Requests -> Seq(1 .. MaxPieces)]
        /\ heard' \in [Requests -> Seq(1 .. MaxPieces)]
    BY DEF StreamTypeOK
  <2> HIDE DEF RuntimeInv, TypeOK
  <2> QED BY <2>1 DEF Views
<1>2. ASSUME NEW r \in Requests, RequestStep(r) PROVE [Promise!Next]_(Promise!turnVars)
  <2>1. Move(r)
    BY <1>2, StepMoves
  <2>2. \A q \in Requests : q # r => Kept(q)
    BY <1>2, OthersSame, SameKept
  <2> QED BY <1>1, <2>1, <2>2, MoveKeepsPromise
<1>3. ASSUME UNCHANGED streamVars PROVE [Promise!Next]_(Promise!turnVars)
  BY <1>3 DEF streamVars, Promise!turnVars, HowEnded, Word
<1>4. (\E r \in Requests : RequestStep(r)) \/ UNCHANGED streamVars
  BY DEF Next, ServeRequest, StreamStep, RequestStep, ServerStep, Signal, ServeFails,
         Drained, DrainExpires, FlushAndExit, vars
<1> QED BY <1>2, <1>3, <1>4

\* TurnKept: however goroutines, callers and a shutdown interleave, all text a
\* caller hears comes before the outcome is told, which is true and followed at
\* most by the [DONE] of a stream that failed, and what was refused starts no
\* turn (handlers.go 121-188).
THEOREM RuntimeKeepsPromise == Spec => TurnKept
<1>1. RuntimeInv /\ RuntimeInv' /\ [Next]_vars => [Promise!Next]_(Promise!turnVars)
  BY PromiseStep
<1> QED BY <1>1, PromiseInit, RuntimeInductive, PTL DEF Spec, TurnKept, Promise!Spec

-----------------------------------------------------------------------------
(* HistoryKept.                                                            *)

\* A request that does not move keeps what is saved of it and what it remembers.
Remains(q) ==
  /\ Same(q)
  /\ remembers'[q] = remembers[q]
  /\ \A k \in Conversations : q \in histories'[k] <=> q \in histories[k]

LEMMA RemainsRecorded ==
  ASSUME StreamTypeOK, NEW q \in Requests, RequestInv(q), Remains(q), Recorded(q)
  PROVE  Recorded(q)'
<1>1. turn[q] # "none" => conversationKey(call[q]) \in Conversations
  BY TurnHasCall, KeyType
<1> QED BY <1>1 DEF Remains, Same, Recorded, Attached, conversationKey

\* Only a turn that opens reads the histories, and only one that ends adds to
\* them.
LEMMA OthersRemain ==
  ASSUME StreamTypeOK, NEW r \in Requests, RequestInv(r), RequestStep(r),
         NEW q \in Requests, q # r
  PROVE  Remains(q)
<1>1. Same(q)
  BY OthersSame
<1>2. CASE OpenConversation(r)
  BY <1>1, <1>2 DEF OpenConversation, StreamTypeOK, Remains
<1>3. CASE ModelEnds(r)
  <2>1. conversationKey(call[r]) \in Conversations
    BY <1>3, TurnHasCall, KeyType DEF ModelEnds
  <2>2. \A k \in Conversations : q \in histories'[k] <=> q \in histories[k]
    BY <1>3, <2>1 DEF ModelEnds, StreamTypeOK
  <2> QED BY <1>1, <1>3, <2>2 DEF ModelEnds, Remains
<1>4. CASE UNCHANGED <<remembers, histories>>
  BY <1>1, <1>4 DEF Remains
<1>5. OpenConversation(r) \/ ModelEnds(r) \/ UNCHANGED <<remembers, histories>>
  BY DEF RequestStep, HandlerStep, TurnStep, ModelStep, Accept, Refuse, Start, AnswerTurn,
         ReceivePiece, WritePiece, WriteToNobody, EndStream, ReportFailure, SendDone, OpenFails, AbandonSend,
         CloseConversation, ReportTurn, ModelSays, ModelFails, CallerTurns, NoticeGone
<1> QED BY <1>2, <1>3, <1>4, <1>5

\* The request that moves.
LEMMA MoverRecorded ==
  ASSUME StreamTypeOK, NEW r \in Requests, RequestInv(r), RequestInv(r)', Recorded(r),
         RequestStep(r)
  PROVE  Recorded(r)'
<1>1. ASSUME NEW c \in Calls, Accept(r, c) PROVE Recorded(r)'
  <2>1. /\ call[r] = None /\ turn[r] = "none"
        /\ UNCHANGED <<turn, failure, reply, remembers, histories>>
    BY <1>1 DEF Accept, RequestInv, HandlerInv
  <2> QED BY <2>1 DEF Recorded
<1>2. CASE OpenConversation(r)
  <2>1. /\ turn[r] = "opening" /\ turn'[r] = "running"
        /\ UNCHANGED <<call, failure, reply, histories>>
    BY <1>2 DEF OpenConversation, StreamTypeOK
  <2> QED BY <2>1 DEF Recorded, Attached, conversationKey
<1>3. CASE ModelEnds(r)
  <2>1. /\ turn[r] = "running" /\ turn'[r] = "closing"
        /\ UNCHANGED <<call, failure, reply>>
    BY <1>3 DEF ModelEnds, StreamTypeOK
  <2>2. conversationKey(call[r]) \in Conversations /\ call[r] # None
    BY <2>1, AbsentAssumption, TurnHasCall, KeyType
  <2>3. CASE Attached(r)
    <3>1. histories' = [histories EXCEPT ![conversationKey(call[r])] = @ \cup {r}]
      BY <1>3, <2>3 DEF ModelEnds
    <3>2. /\ r \in histories'[conversationKey(call[r])]
          /\ \A k \in Conversations : k # conversationKey(call[r]) => histories'[k] = histories[k]
      BY <2>2, <3>1 DEF StreamTypeOK
    <3> QED BY <2>1, <2>2, <2>3, <3>2 DEF Recorded, Attached, conversationKey
  <2>4. CASE ~Attached(r)
    <3>1. histories' = histories
      BY <1>3, <2>4 DEF ModelEnds
    <3> QED BY <2>1, <2>4, <3>1 DEF Recorded, Attached, conversationKey
  <2> QED BY <2>3, <2>4
<1>4. ASSUME UNCHANGED <<call, remembers, histories>>,
             turn'[r] \in {"none", "opening"} => turn[r] \in {"none", "opening"},
             turn[r] \in {"closing", "reporting", "over"} =>
               turn'[r] \in {"closing", "reporting", "over"},
             turn'[r] \in {"closing", "reporting", "over"} /\ ~failure'[r] =>
               turn[r] \in {"closing", "reporting", "over"} /\ ~failure[r],
             reply'[r] \in {"answer", "[DONE]"} => turn'[r] = "over" /\ ~failure'[r]
      PROVE  Recorded(r)'
  BY <1>4 DEF Recorded, Attached, conversationKey
<1>5. CASE HandlerStep(r)
  <2>1. /\ UNCHANGED <<call, failure, remembers, histories>>
        /\ turn'[r] = turn[r] \/ turn'[r] \in {"opening", "running"}
        /\ turn'[r] = "opening" => turn[r] \in {"none", "opening"}
        /\ turn[r] \in {"closing", "reporting", "over"} => turn'[r] = turn[r]
    <3>1. CASE Start(r)
      BY <3>1 DEF Start, StreamTypeOK, RequestInv, HandlerInv
    <3>2. CASE ReceivePiece(r)
      BY <3>2 DEF ReceivePiece, StreamTypeOK
    <3>3. UNCHANGED <<call, failure, remembers, histories>>
      BY <1>5 DEF HandlerStep, Refuse, Start, AnswerTurn, ReceivePiece, WritePiece,
                  WriteToNobody, EndStream, ReportFailure, SendDone
    <3>4. Start(r) \/ ReceivePiece(r) \/ turn' = turn
      BY <1>5 DEF HandlerStep, Refuse, AnswerTurn, WritePiece, WriteToNobody, EndStream, ReportFailure, SendDone
    <3> QED BY <3>1, <3>2, <3>3, <3>4
  <2>2. reply'[r] \in {"answer", "[DONE]"} => turn'[r] = "over" /\ ~failure'[r]
    <3>1. CASE reply'[r] = reply[r]
      <4>1. turn[r] = "over" => turn'[r] = "over"
        BY <1>5 DEF HandlerStep, Refuse, Start, AnswerTurn, ReceivePiece, WritePiece,
                    WriteToNobody, EndStream, ReportFailure,
                    SendDone, RequestInv, HandlerInv
      <4> QED BY <2>1, <3>1, <4>1 DEF Recorded
    <3>2. CASE AnswerTurn(r)
      BY <3>2 DEF AnswerTurn, Finish, Reach, StreamTypeOK, RequestInv, ReplyInv
    <3>3. CASE EndStream(r)
      BY <3>3 DEF EndStream, PiecesOver, InBand, Failed, Finish, Reach, StreamTypeOK, RequestInv, TurnInv, ReplyInv
    <3>4. CASE Refuse(r)
      BY <3>4 DEF Refuse, Finish, Reach, StreamTypeOK, RequestInv, ReplyInv
    <3>6. CASE ReportFailure(r) \/ SendDone(r)
      <4>1. reply'[r] \in {"answer", "[DONE]"} => reply'[r] = reply[r]
        <5>1. PICK word \in {"error event", "error event, [DONE]"} : Reach(r, word)
          BY <3>6 DEF ReportFailure, SendDone, Finish
        <5>2. reply'[r] = reply[r] \/ reply'[r] = word
          BY <5>1 DEF Reach, StreamTypeOK
        <5> QED BY <5>2
      <4>2. UNCHANGED <<turn, failure>>
        BY <3>6 DEF ReportFailure, SendDone
      <4> QED BY <4>1, <4>2 DEF Recorded
    <3>5. \/ AnswerTurn(r) \/ EndStream(r) \/ Refuse(r) \/ ReportFailure(r) \/ SendDone(r)
          \/ reply'[r] = reply[r]
      BY <1>5 DEF HandlerStep, Start, ReceivePiece, WritePiece, WriteToNobody
    <3> QED BY <3>1, <3>2, <3>3, <3>4, <3>5, <3>6
  <2> QED BY <1>4, <2>1, <2>2
<1>6. CASE OpenFails(r) \/ AbandonSend(r) \/ CloseConversation(r) \/ ReportTurn(r)
           \/ ModelSays(r) \/ ModelFails(r)
  <2>1. /\ UNCHANGED <<call, remembers, histories, reply>>
        /\ turn[r] # "over"
        /\ turn'[r] \notin {"none", "opening"}
        /\ turn[r] \in {"closing", "reporting"} => turn'[r] \in {"reporting", "over"}
        /\ turn'[r] \in {"closing", "reporting", "over"} /\ ~failure'[r] =>
               turn[r] \in {"closing", "reporting", "over"} /\ ~failure[r]
    <3>1. CASE OpenFails(r)
      BY <3>1 DEF OpenFails, StreamTypeOK
    <3>2. CASE AbandonSend(r)
      BY <3>2 DEF AbandonSend, StreamTypeOK
    <3>3. CASE CloseConversation(r)
      BY <3>3 DEF CloseConversation, StreamTypeOK
    <3>4. CASE ReportTurn(r)
      BY <3>4 DEF ReportTurn, StreamTypeOK
    <3>5. CASE ModelSays(r)
      BY <3>5 DEF ModelSays, StreamTypeOK
    <3>6. CASE ModelFails(r)
      BY <3>6 DEF ModelFails, StreamTypeOK
    <3> QED BY <1>6, <3>1, <3>2, <3>3, <3>4, <3>5, <3>6
  <2>2. reply[r] \notin {"answer", "[DONE]"}
    BY <2>1 DEF Recorded
  <2> QED BY <1>4, <2>1, <2>2
<1>7. CASE CallerTurns(r) \/ NoticeGone(r)
  <2>1. UNCHANGED <<call, turn, failure, reply, remembers, histories>>
    BY <1>7 DEF CallerTurns, NoticeGone
  <2> QED BY <1>4, <2>1 DEF Recorded
<1> QED BY <1>1, <1>2, <1>3, <1>5, <1>6, <1>7 DEF RequestStep, TurnStep, ModelStep

LEMMA HistoryInit == Init => HistoryInv
  BY DEF Init, StreamInit, HistoryInv, Recorded

\* A step of the runtime is a step of one request, or leaves all of them alone.
LEMMA OneRequest ==
  ASSUME [Next]_vars
  PROVE  (\E r \in Requests : RequestStep(r)) \/ UNCHANGED streamVars
  BY DEF Next, ServeRequest, StreamStep, RequestStep, ServerStep, Signal, ServeFails,
         Drained, DrainExpires, FlushAndExit, vars

LEMMA HistoryStep == RuntimeInv /\ RuntimeInv' /\ HistoryInv /\ [Next]_vars => HistoryInv'
<1> SUFFICES ASSUME RuntimeInv, RuntimeInv', HistoryInv, [Next]_vars PROVE HistoryInv'
  OBVIOUS
<1>0. /\ StreamTypeOK
      /\ \A q \in Requests : RequestInv(q) /\ RequestInv(q)' /\ Recorded(q)
  BY DEF RuntimeInv, TypeOK, HistoryInv
<1>1. ASSUME NEW r \in Requests, RequestStep(r) PROVE HistoryInv'
  <2>1. ASSUME NEW q \in Requests, q # r PROVE Recorded(q)'
    BY <1>0, <1>1, <2>1, OthersRemain, RemainsRecorded
  <2>2. Recorded(r)'
    BY <1>0, <1>1, MoverRecorded
  <2> QED BY <2>1, <2>2 DEF HistoryInv
<1>2. CASE UNCHANGED streamVars
  <2>1. \A q \in Requests : Remains(q)
    BY <1>2 DEF streamVars, Same, Remains
  <2> QED BY <1>0, <2>1, RemainsRecorded DEF HistoryInv
<1> QED BY <1>1, <1>2, OneRequest

\* Two turns belong together when their histories have one key.
LEMMA TogetherKey ==
  ASSUME NEW c, NEW d
  PROVE  Together(c, d) <=> conversationKey(c) = conversationKey(d) /\ conversationKey(c) # None
  BY DEF Together, conversationKey

\* A conversation that opens finds its own turns and no others.
LEMMA HistoryFound ==
  ASSUME RuntimeInv, HistoryInv, NEW r \in Requests, OpenConversation(r)
  PROVE  LET mine == {q \in Requests : q # r /\ call[q] # None /\ Together(call[q], call[r])}
             told == {q \in mine : reply[q] \in {"answer", "[DONE]"}}
         IN /\ remembers'[r] \subseteq mine
            /\ HasStore => told \subseteq remembers'[r]
<1> DEFINE key(q) == conversationKey(call[q])
           mine == {q \in Requests : q # r /\ call[q] # None /\ Together(call[q], call[r])}
           told == {q \in mine : reply[q] \in {"answer", "[DONE]"}}
<1>1. StreamTypeOK /\ turn[r] = "opening" /\ remembers[r] = {} /\ RequestInv(r) /\ Recorded(r)
  BY DEF RuntimeInv, TypeOK, OpenConversation, HistoryInv, Recorded
<1>2. key(r) \in Conversations /\ call[r] # None
  BY <1>1, AbsentAssumption, TurnHasCall, KeyType
<1>3. remembers'[r] = IF Attached(r) THEN histories[key(r)] ELSE {}
  BY <1>1 DEF OpenConversation, StreamTypeOK
<1>4. remembers'[r] \subseteq mine
  <2>1. ASSUME NEW q \in remembers'[r] PROVE q \in mine
    <3>1. Attached(r) /\ q \in histories[key(r)]
      BY <1>3
    <3>2. q \in Requests
      BY <1>1, <1>2, <3>1 DEF StreamTypeOK
    <3>3. call[q] # None /\ key(q) = key(r) /\ key(q) # None
      BY <1>2, <3>1, <3>2 DEF HistoryInv, Recorded, Attached
    <3>4. q # r
      <4>1. SUFFICES ASSUME q = r PROVE FALSE
        OBVIOUS
      <4> QED BY <1>1, <1>2, <3>1, <4>1 DEF Recorded
    <3> QED BY <3>2, <3>3, <3>4, TogetherKey
  <2> QED BY <2>1
<1>5. HasStore => told \subseteq remembers'[r]
  <2>1. ASSUME HasStore, NEW q \in told PROVE q \in remembers'[r]
    <3>1. q \in Requests /\ key(q) = key(r) /\ key(q) # None
      BY TogetherKey
    <3>2. Attached(q) /\ Attached(r)
      BY <2>1, <3>1 DEF Attached
    <3>3. turn[q] = "over" /\ ~failure[q]
      BY <3>1 DEF HistoryInv, Recorded
    <3>4. q \in histories[key(q)]
      BY <3>1, <3>2, <3>3 DEF HistoryInv, Recorded
    <3> QED BY <1>3, <3>1, <3>2, <3>4
  <2> QED BY <2>1
<1> QED BY <1>4, <1>5

LEMMA HistoryMove ==
  ASSUME RuntimeInv, HistoryInv, [Next]_vars, NEW r \in Requests,
         conv[r] = "none", conv'[r] = "open"
  PROVE  OpenConversation(r)
<1>0. StreamTypeOK /\ RequestInv(r)
  BY DEF RuntimeInv, TypeOK
<1>1. PICK q \in Requests : RequestStep(q)
  BY OneRequest DEF streamVars
<1>2. q = r
  BY <1>0, <1>1, OthersSame DEF Same
<1>3. conv' = conv \/ OpenConversation(r) \/ CloseConversation(r)
  <2>1. CASE HandlerStep(r)
    BY <2>1 DEF HandlerStep, Refuse, Start, AnswerTurn, ReceivePiece, WritePiece,
                WriteToNobody, EndStream, ReportFailure, SendDone
  <2>2. CASE TurnStep(r)
    BY <2>2 DEF TurnStep, OpenFails, AbandonSend, ReportTurn
  <2>3. CASE ModelStep(r)
    BY <2>3 DEF ModelStep, ModelSays, ModelEnds, ModelFails
  <2>4. CASE CallerTurns(r) \/ NoticeGone(r) \/ \E c \in Calls : Accept(r, c)
    BY <2>4 DEF CallerTurns, NoticeGone, Accept
  <2> QED BY <1>1, <1>2, <2>1, <2>2, <2>3, <2>4 DEF RequestStep
<1>4. ~CloseConversation(r)
  BY <1>0 DEF CloseConversation, StreamTypeOK
<1> QED BY <1>3, <1>4

(***************************************************************************)
(* HistoryKept: a turn starts from the turns of its own conversation that  *)
(* were answered before, and from no one else's, for any number of         *)
(* requests and conversations, with a sandbox session or without           *)
(* (turn.go 57-74).                                                        *)
(***************************************************************************)
THEOREM HistoryAlwaysKept == Spec => HistoryKept
<1>1. HistoryInv /\ RuntimeInv /\ [Next]_vars =>
        [\A r \in Requests :
           conv[r] = "none" /\ conv'[r] = "open" =>
             LET mine == {q \in Requests : q # r /\ call[q] # None /\ Together(call[q], call[r])}
                 told == {q \in mine : reply[q] \in {"answer", "[DONE]"}}
             IN /\ remembers'[r] \subseteq mine
                /\ HasStore => told \subseteq remembers'[r]]_vars
  BY HistoryMove, HistoryFound
<1> QED BY <1>1, HistoryInit, HistoryStep, RuntimeInductive, PTL DEF Spec, HistoryKept
=============================================================================
