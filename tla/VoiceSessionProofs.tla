------------------------- MODULE VoiceSessionProofs -------------------------
(***************************************************************************)
(* Proofs about VoiceSession: for every kind and number of chunks, every   *)
(* backlog, every interleaving of the two goroutines and every way the     *)
(* caller, the connection and the conversation may fail them.              *)
(***************************************************************************)
EXTENDS VoiceProperties, FiniteSetTheorems, SequenceTheorems, TLAPS

-----------------------------------------------------------------------------
(* What is written where.                                                  *)

LEMMA InboundFrames ==
  /\ inbound = "greeting" => InboundFrame = <<"ready", 0>> /\ AfterInbound = "reading"
  /\ inbound = "failing" => InboundFrame = <<"error", 0>> /\ AfterInbound = "closing"
  /\ inbound = "closing" => InboundFrame = <<"close", 0>> /\ AfterInbound = "leaving"
  /\ inbound \notin {"greeting", "failing", "closing"} => InboundFrame = None
BY Zenon DEF InboundFrame, AfterInbound

LEMMA FrameTypes ==
  /\ \A k \in Kinds : \A n \in 1 .. MaxChunks : <<k, n>> \in Frames
  /\ {<<"ready", 0>>, <<"error", 0>>, <<"close", 0>>, <<"done", 0>>} \subseteq Frames
BY DEF Frames

\* One chunk's frames: its number on each, its audio first and its transcript
\* last.
LEMMA ChunkFrames ==
  ASSUME NEW chunk, NEW n \in 1 .. MaxChunks
  PROVE  /\ FramesOf(chunk, n) \in Seq(Frames)
         /\ \A k \in DOMAIN FramesOf(chunk, n) :
              FramesOf(chunk, n)[k][1] \in Kinds /\ FramesOf(chunk, n)[k][2] = n
         /\ \A j, k \in DOMAIN FramesOf(chunk, n) :
              j < k => Before(FramesOf(chunk, n)[j], FramesOf(chunk, n)[k])
<1> DEFINE a == Carried("audio", chunk, n)
           t == Carried("text", chunk, n)
           r == Carried("transcript", chunk, n)
<1>1. /\ <<"audio", n>> \in Frames /\ <<"text", n>> \in Frames /\ <<"transcript", n>> \in Frames
  BY FrameTypes DEF Kinds
<1>2. /\ a \in Seq(Frames) /\ Len(a) \in {0, 1} /\ \A k \in 1 .. Len(a) : a[k] = <<"audio", n>>
      /\ t \in Seq(Frames) /\ Len(t) \in {0, 1} /\ \A k \in 1 .. Len(t) : t[k] = <<"text", n>>
      /\ r \in Seq(Frames) /\ Len(r) \in {0, 1} /\ \A k \in 1 .. Len(r) : r[k] = <<"transcript", n>>
  BY <1>1 DEF Carried
<1> HIDE DEF a, t, r
<1>3. /\ a \o t \in Seq(Frames) /\ Len(a \o t) = Len(a) + Len(t)
      /\ \A k \in 1 .. Len(a) + Len(t) :
           (a \o t)[k] = IF k <= Len(a) THEN a[k] ELSE t[k - Len(a)]
  BY <1>2, ConcatProperties
<1> DEFINE at == a \o t
<1> HIDE DEF at
<1>4. /\ at \o r \in Seq(Frames) /\ Len(at \o r) = Len(a) + Len(t) + Len(r)
      /\ \A k \in 1 .. Len(a) + Len(t) + Len(r) :
           (at \o r)[k] = IF k <= Len(a) + Len(t) THEN at[k] ELSE r[k - Len(a) - Len(t)]
  BY <1>2, <1>3, ConcatProperties DEF at
<1> DEFINE f == at \o r
<1>5. f = FramesOf(chunk, n)
  BY DEF FramesOf, a, t, r, at
<1> HIDE DEF f
<1>6. f \in Seq(Frames) /\ DOMAIN f = 1 .. Len(a) + Len(t) + Len(r)
  BY <1>4, LenProperties DEF f
<1>n. /\ Len(a) \in Nat /\ Len(t) \in Nat /\ Len(r) \in Nat
      /\ Len(a) <= 1 /\ Len(t) <= 1 /\ Len(r) <= 1
  BY <1>2
<1>7. ASSUME NEW k \in DOMAIN f
      PROVE  /\ k <= Len(a) => k = 1 /\ f[k] = <<"audio", n>>
             /\ k > Len(a) /\ k <= Len(a) + Len(t) => k = Len(a) + 1 /\ f[k] = <<"text", n>>
             /\ k > Len(a) + Len(t) => k = Len(a) + Len(t) + 1 /\ f[k] = <<"transcript", n>>
  <2>1. k \in 1 .. Len(a) + Len(t) + Len(r)
    BY <1>6
  <2>2. ASSUME k <= Len(a) PROVE k = 1 /\ f[k] = <<"audio", n>>
    <3>1. k \in 1 .. Len(a) /\ k \in 1 .. Len(a) + Len(t) /\ k <= Len(a) + Len(t) /\ k = 1
      BY <1>n, <2>1, <2>2
    <3>2. f[k] = at[k] /\ at[k] = a[k]
      BY <1>3, <1>4, <2>1, <2>2, <3>1 DEF f, at
    <3> QED BY <1>2, <3>1, <3>2
  <2>3. ASSUME k > Len(a), k <= Len(a) + Len(t)
        PROVE  k = Len(a) + 1 /\ f[k] = <<"text", n>>
    <3>1. /\ k - Len(a) \in 1 .. Len(t) /\ k \in 1 .. Len(a) + Len(t) /\ ~(k <= Len(a))
          /\ k = Len(a) + 1
      BY <1>n, <2>1, <2>3
    <3>2. f[k] = at[k] /\ at[k] = t[k - Len(a)]
      BY <1>3, <1>4, <2>1, <2>3, <3>1 DEF f, at
    <3> QED BY <1>2, <3>1, <3>2
  <2>4. ASSUME k > Len(a) + Len(t)
        PROVE  k = Len(a) + Len(t) + 1 /\ f[k] = <<"transcript", n>>
    <3>1. /\ k - Len(a) - Len(t) \in 1 .. Len(r) /\ ~(k <= Len(a) + Len(t))
          /\ k = Len(a) + Len(t) + 1
      BY <1>n, <2>1, <2>4
    <3>2. f[k] = r[k - Len(a) - Len(t)]
      BY <1>4, <2>1, <3>1 DEF f
    <3> QED BY <1>2, <3>1, <3>2
  <2> QED BY <2>2, <2>3, <2>4
<1>w. DOMAIN f \subseteq Nat
  BY <1>6, <1>n
<1>8. \A k \in DOMAIN f : f[k][1] \in Kinds /\ f[k][2] = n
  <2> TAKE k \in DOMAIN f
  <2>1. f[k] \in {<<"audio", n>>, <<"text", n>>, <<"transcript", n>>}
    BY <1>7, <1>n, <1>w
  <2> QED BY <2>1 DEF Kinds
<1>9. \A j, k \in DOMAIN f : j < k => Before(f[j], f[k])
  <2> SUFFICES ASSUME NEW j \in DOMAIN f, NEW k \in DOMAIN f, j < k
               PROVE  Before(f[j], f[k])
    OBVIOUS
  <2>0. j \in Nat /\ k \in Nat /\ j >= 1
    BY <1>6, <1>n, <1>w
  <2>1. k > Len(a)
    BY <1>7, <1>n, <2>0
  <2>2. CASE k <= Len(a) + Len(t)
    <3>1. k = Len(a) + 1 /\ f[k] = <<"text", n>>
      BY <1>7, <2>1, <2>2
    <3>2. j <= Len(a)
      BY <1>n, <2>0, <3>1
    <3>3. f[j] = <<"audio", n>>
      BY <1>7, <3>2
    <3> QED BY <3>1, <3>3 DEF Before, WithinChunk
  <2>3. CASE k > Len(a) + Len(t)
    <3>1. k = Len(a) + Len(t) + 1 /\ f[k] = <<"transcript", n>>
      BY <1>7, <2>3
    <3>2. j <= Len(a) + Len(t)
      BY <1>n, <2>0, <3>1
    <3>3. CASE j <= Len(a)
      <4>1. f[j] = <<"audio", n>>
        BY <1>7, <3>3
      <4> QED BY <3>1, <4>1 DEF Before, WithinChunk
    <3>4. CASE j > Len(a)
      <4>1. f[j] = <<"text", n>>
        BY <1>7, <3>2, <3>4
      <4> QED BY <3>1, <4>1 DEF Before, WithinChunk
    <3> QED BY <1>n, <2>0, <3>3, <3>4
  <2> QED BY <1>n, <2>0, <2>2, <2>3
<1> QED BY <1>5, <1>6, <1>8, <1>9

-----------------------------------------------------------------------------
(* Type correctness.                                                       *)

\* Every writer has a frame of its own in hand.
LEMMA FrameInHand ==
  ASSUME TypeOK, Writing, NEW g \in {"inbound", "pump"}, g \in holder
  PROVE  /\ FrameOf(g) \in Frames
         /\ g = "inbound" => /\ inbound \in {"greeting", "failing", "closing"}
                             /\ FrameOf(g) = InboundFrame
                             /\ FrameOf(g)[1] \in {"ready", "error", "close"}
         /\ g = "pump" => todo # <<>> /\ FrameOf(g) = todo[1]
<1>1. CASE g = "inbound"
  <2>1. inbound \in {"greeting", "failing", "closing"}
    BY <1>1 DEF Writing
  <2>2. InboundFrame \in {<<"ready", 0>>, <<"error", 0>>, <<"close", 0>>}
    BY <2>1, InboundFrames
  <2>3. FrameOf(g) = InboundFrame
    BY <1>1 DEF FrameOf
  <2> QED BY <1>1, <2>1, <2>2, <2>3, FrameTypes
<1>2. CASE g = "pump"
  <2>1. todo # <<>> /\ todo \in Seq(Frames)
    BY <1>2 DEF Writing, TypeOK
  <2>2. Head(todo) = todo[1] /\ Head(todo) \in Frames
    BY <2>1
  <2>3. FrameOf(g) = Head(todo)
    BY <1>2, <2>1 DEF FrameOf
  <2> QED BY <1>2, <2>1, <2>2, <2>3
<1> QED BY <1>1, <1>2

\* The steps that leave the pump's work and the wire alone.
Quiet == UNCHANGED <<todo, spoken, wire, waiting, output>>

LEMMA Aside ==
  ASSUME [Next]_vars
  PROVE  \/ Quiet
         \/ \E g \in {"inbound", "pump"} : FrameLands(g) \/ FrameLost(g)
         \/ TakeChunk \/ EndPump
         \/ \E chunk \in Chunks : PutOut(chunk)
BY DEF Next, vars, Quiet, WriteStep, BeginWrite, InboundStep, Upgrade, OpenConversation,
   StartPump, ResponseFails, ReadFails, Accepted, Leave, Rejected, ReadFrame, InboundTo,
   PumpStep, EndResponses, CallerTurns

\* The number of the next chunk.
LEMMA NextChunk ==
  ASSUME TypeOK, InOrder, waiting # <<>>
  PROVE  /\ output - Len(waiting) + 1 \in 1 .. MaxChunks
         /\ output - Len(waiting) + 1 = Taken + 1
         /\ Head(waiting) \in Chunks /\ Tail(waiting) \in Seq(Chunks)
         /\ Len(Tail(waiting)) = Len(waiting) - 1
<1>1. waiting \in Seq(Chunks) /\ Len(waiting) \in Nat /\ Len(waiting) # 0
  BY EmptySeq, LenProperties DEF TypeOK
<1> QED BY <1>1, HeadTailProperties, SizeAssumption DEF TypeOK, InOrder, Taken

LEMMA TypeStep == TypeOK /\ Writing /\ InOrder /\ [Next]_vars => TypeOK'
<1> SUFFICES ASSUME TypeOK, Writing, InOrder, [Next]_vars PROVE TypeOK'
  OBVIOUS
<1>1. CASE UNCHANGED vars
  BY <1>1 DEF vars, TypeOK
<1>2. ASSUME NEW g \in {"inbound", "pump"}, BeginWrite(g) PROVE TypeOK'
  BY <1>2 DEF BeginWrite, TypeOK
<1>3. ASSUME NEW g \in {"inbound", "pump"}, g \in holder, GoOn(g)
      PROVE  /\ inbound' \in {"upgrading", "opening", "responding", "greeting", "reading",
                  "relaying", "interrupting", "failing", "closing", "leaving", "ended"}
             /\ pump' \in {"none", "relaying", "finishing", "ended"}
             /\ todo' \in Seq(Frames)
             /\ holder' \subseteq {"inbound", "pump"}
  <2>1. CASE g = "inbound"
    BY <1>3, <2>1, FrameInHand, InboundFrames DEF GoOn, TypeOK
  <2>2. CASE g = "pump"
    <3>1. todo \in Seq(Frames) /\ todo # <<>>
      BY <1>3, <2>2, FrameInHand DEF TypeOK
    <3>2. Tail(todo) \in Seq(Frames)
      BY <3>1, HeadTailProperties
    <3> QED BY <1>3, <2>2, <3>2 DEF GoOn, TypeOK
  <2> QED BY <2>1, <2>2
<1>4. ASSUME NEW g \in {"inbound", "pump"}, FrameLands(g) PROVE TypeOK'
  <2>1. wire' \in Seq(Frames)
    BY <1>4, FrameInHand, AppendProperties DEF FrameLands, TypeOK
  <2> QED BY <1>3, <1>4, <2>1 DEF FrameLands, TypeOK
<1>5. ASSUME NEW g \in {"inbound", "pump"}, FrameLost(g) PROVE TypeOK'
  BY <1>3, <1>5 DEF FrameLost, TypeOK
<1>6. CASE InboundStep \/ Rejected \/ ReadFrame
  BY <1>6 DEF InboundStep, Upgrade, OpenConversation, StartPump, ResponseFails, ReadFails,
     Accepted, Leave, CloseIfOpen, Rejected, ReadFrame, InboundTo, TypeOK
<1>7. CASE TakeChunk
  <2> DEFINE n == output - Len(waiting) + 1
             frames == FramesOf(Head(waiting), n)
  <2>1. n \in 1 .. MaxChunks /\ Tail(waiting) \in Seq(Chunks) /\ Len(Tail(waiting)) <= Backlog
    BY <1>7, NextChunk, SizeAssumption DEF TakeChunk, TypeOK
  <2>2. frames \in Seq(Frames) /\ spoken \in Seq(Frames)
    BY <2>1, ChunkFrames DEF TypeOK
  <2>3. spoken \o frames \in Seq(Frames)
    BY <2>2, ConcatProperties
  <2>4. todo' = frames /\ spoken' = spoken \o frames /\ waiting' = Tail(waiting)
    BY <1>7 DEF TakeChunk
  <2> HIDE DEF frames, n
  <2> QED BY <1>7, <2>1, <2>2, <2>3, <2>4 DEF TakeChunk, TypeOK
<1>8. CASE EndPump
  <2>1. <<"done", 0>> \in Frames
    BY FrameTypes
  <2>2. <<<<"done", 0>>>> \in Seq(Frames) /\ Append(spoken, <<"done", 0>>) \in Seq(Frames)
    BY <2>1, AppendProperties DEF TypeOK
  <2> QED BY <1>8, <2>2 DEF EndPump, TypeOK
<1>9. ASSUME NEW chunk \in Chunks, PutOut(chunk) PROVE TypeOK'
  <2>1. /\ Append(waiting, chunk) \in Seq(Chunks)
        /\ Len(Append(waiting, chunk)) = Len(waiting) + 1 /\ Len(waiting) \in Nat
    BY AppendProperties, LenProperties DEF TypeOK
  <2>2. output + 1 \in 0 .. MaxChunks /\ Len(waiting) + 1 <= Backlog
    BY <1>9, <2>1, SizeAssumption DEF PutOut, TypeOK
  <2> QED BY <1>9, <2>1, <2>2 DEF PutOut, TypeOK
<1>10. CASE EndResponses \/ CallerTurns
  BY <1>10 DEF EndResponses, CallerTurns, TypeOK
<1> QED BY <1>1, <1>2, <1>4, <1>5, <1>6, <1>7, <1>8, <1>9, <1>10
        DEF Next, WriteStep, PumpStep

-----------------------------------------------------------------------------
(* One writer.                                                             *)

LEMMA WritingStep == TypeOK /\ Writing /\ [Next]_vars => Writing'
<1> SUFFICES ASSUME TypeOK, Writing, [Next]_vars PROVE Writing'
  OBVIOUS
<1>1. CASE UNCHANGED vars \/ EndResponses \/ CallerTurns
           \/ \E chunk \in Chunks : PutOut(chunk)
  BY <1>1 DEF vars, EndResponses, CallerTurns, PutOut, Writing
<1>2. ASSUME NEW g \in {"inbound", "pump"}, BeginWrite(g) PROVE Writing'
  <2>1. /\ holder = {} /\ holder' = {g} /\ UNCHANGED <<inbound, todo>> /\ FrameOf(g) # None
    BY <1>2 DEF BeginWrite, LockFree
  <2>2. g = "inbound" => inbound \in {"greeting", "failing", "closing"}
    BY <2>1, InboundFrames DEF FrameOf
  <2>3. g = "pump" => todo # <<>>
    BY <2>1 DEF FrameOf
  <2> QED BY <2>1, <2>2, <2>3 DEF Writing
<1>3. ASSUME NEW g \in {"inbound", "pump"}, g \in holder, GoOn(g) PROVE Writing'
  <2>1. holder' = {}
    BY <1>3 DEF GoOn, Writing
  <2> QED BY <2>1 DEF Writing
<1>4. ASSUME NEW g \in {"inbound", "pump"}, FrameLands(g) \/ FrameLost(g) PROVE Writing'
  BY <1>3, <1>4 DEF FrameLands, FrameLost
<1>5. CASE InboundStep \/ Rejected \/ ReadFrame
  <2>1. inbound \notin {"greeting", "failing", "closing"} /\ UNCHANGED <<holder, todo>>
    BY <1>5 DEF InboundStep, Upgrade, OpenConversation, StartPump, ResponseFails, ReadFails,
       Accepted, Leave, Rejected, ReadFrame, InboundTo
  <2> QED BY <2>1 DEF Writing
<1>6. CASE TakeChunk \/ EndPump
  <2>1. "pump" \notin holder /\ UNCHANGED <<holder, inbound>>
    BY <1>6 DEF TakeChunk, EndPump, Writing
  <2> QED BY <2>1 DEF Writing
<1> QED BY <1>1, <1>2, <1>4, <1>5, <1>6 DEF Next, WriteStep, PumpStep

LEMMA StartedStep == TypeOK /\ Writing /\ Started /\ [Next]_vars => Started'
<1> SUFFICES ASSUME TypeOK, Writing, Started, [Next]_vars PROVE Started'
  OBVIOUS
<1>1. CASE UNCHANGED vars \/ EndResponses \/ CallerTurns
           \/ (\E chunk \in Chunks : PutOut(chunk))
           \/ \E g \in {"inbound", "pump"} : BeginWrite(g)
  BY <1>1 DEF vars, EndResponses, CallerTurns, PutOut, BeginWrite, Started
<1>2. ASSUME NEW g \in {"inbound", "pump"}, g \in holder, GoOn(g) PROVE Started'
  <2>1. CASE g = "inbound"
    BY <1>2, <2>1, FrameInHand, InboundFrames DEF GoOn, Started
  <2>2. CASE g = "pump"
    BY <1>2, <2>2 DEF GoOn, Started
  <2> QED BY <2>1, <2>2
<1>3. ASSUME NEW g \in {"inbound", "pump"}, FrameLands(g) \/ FrameLost(g) PROVE Started'
  BY <1>2, <1>3 DEF FrameLands, FrameLost
<1>4. CASE InboundStep \/ Rejected \/ ReadFrame
  BY <1>4 DEF InboundStep, Upgrade, OpenConversation, StartPump, ResponseFails, ReadFails,
     Accepted, Leave, Rejected, ReadFrame, InboundTo, Started
<1>5. CASE TakeChunk \/ EndPump
  BY <1>5 DEF TakeChunk, EndPump, Started
<1> QED BY <1>1, <1>3, <1>4, <1>5 DEF Next, WriteStep, PumpStep

-----------------------------------------------------------------------------
(* What the pump is given.                                                 *)

LEMMA SpokenTypes ==
  ASSUME TypeOK
  PROVE  /\ spoken \in Seq(Frames) /\ Len(spoken) \in Nat /\ DOMAIN spoken = 1 .. Len(spoken)
         /\ todo \in Seq(Frames) /\ Len(todo) \in Nat
         /\ wire \in Seq(Frames) /\ Len(wire) \in Nat /\ DOMAIN wire = 1 .. Len(wire)
         /\ waiting \in Seq(Chunks) /\ Len(waiting) \in Nat /\ output \in Nat
BY LenProperties, SizeAssumption DEF TypeOK

\* The pump's write is behind it, landed or lost.
LEMMA PumpWrote ==
  ASSUME TypeOK, InOrder, todo # <<>>, todo' = Tail(todo), UNCHANGED spoken
  PROVE  /\ Done' = Done + 1 /\ Done + 1 \in DOMAIN spoken /\ spoken[Done + 1] = todo[1]
         /\ \A k \in 1 .. Len(todo') : todo'[k] = spoken[Done' + k]
<1>1. /\ Len(todo) > 0 /\ Len(todo') = Len(todo) - 1
      /\ \A k \in 1 .. Len(todo) - 1 : Tail(todo)[k] = todo[k + 1]
  BY SpokenTypes, EmptySeq, HeadTailProperties
<1>2. Done' = Done + 1
  BY <1>1, SpokenTypes DEF Done
<1>3. Done + 1 \in DOMAIN spoken /\ spoken[Done + 1] = todo[1]
  BY <1>1, SpokenTypes DEF Done, InOrder
<1>4. ASSUME NEW k \in 1 .. Len(todo') PROVE todo'[k] = spoken[Done' + k]
  <2>1. todo'[k] = todo[k + 1] /\ k + 1 \in 1 .. Len(todo)
    BY <1>1, SpokenTypes
  <2>2. todo[k + 1] = spoken[Done + (k + 1)]
    BY <2>1 DEF InOrder
  <2> QED BY <1>2, <2>1, <2>2, SpokenTypes DEF Done
<1> QED BY <1>2, <1>3, <1>4

\* A chunk more is in hand: it comes after everything before it.
LEMMA PumpTook ==
  ASSUME TypeOK, InOrder, TakeChunk
  PROVE  InOrder' /\ Done' = Len(spoken) /\ Len(spoken') >= Len(spoken)
         /\ \A k \in DOMAIN spoken : spoken'[k] = spoken[k]
<1> DEFINE n == output - Len(waiting) + 1
           f == FramesOf(Head(waiting), n)
<1>1. /\ n \in 1 .. MaxChunks /\ n = Taken + 1 /\ Len(waiting') = Len(waiting) - 1
      /\ UNCHANGED output
  BY NextChunk DEF TakeChunk
<1>2. /\ f \in Seq(Frames)
      /\ \A k \in DOMAIN f : f[k][1] \in Kinds /\ f[k][2] = n
      /\ \A j, k \in DOMAIN f : j < k => Before(f[j], f[k])
  BY <1>1, ChunkFrames
<1>3. todo = <<>> /\ todo' = f /\ spoken' = spoken \o f /\ pump = "relaying"
  BY DEF TakeChunk
<1>t. pump' = "relaying"
  BY DEF TakeChunk
<1> HIDE DEF f, n
<1>4. Len(f) \in Nat /\ DOMAIN f = 1 .. Len(f)
  BY <1>2, LenProperties
<1>5. /\ Len(spoken') = Len(spoken) + Len(f)
      /\ DOMAIN spoken' = 1 .. Len(spoken) + Len(f)
      /\ \A k \in 1 .. Len(spoken) + Len(f) :
           spoken'[k] = IF k <= Len(spoken) THEN spoken[k] ELSE f[k - Len(spoken)]
  <2>1. spoken' \in Seq(Frames) /\ Len(spoken') = Len(spoken) + Len(f)
    BY <1>2, <1>3, SpokenTypes, ConcatProperties
  <2>2. \A k \in 1 .. Len(spoken) + Len(f) :
           spoken'[k] = IF k <= Len(spoken) THEN spoken[k] ELSE f[k - Len(spoken)]
    BY <1>2, <1>3, SpokenTypes, ConcatProperties
  <2> QED BY <2>1, <2>2, LenProperties
<1>6. Taken' = Taken + 1 /\ Taken \in Nat
  BY <1>1, SpokenTypes DEF Taken, InOrder
<1>7. Done' = Len(spoken)
  BY <1>3, <1>4, <1>5, SpokenTypes DEF Done
<1>8. \A k \in 1 .. Len(todo') : todo'[k] = spoken'[Done' + k]
  BY <1>3, <1>4, <1>5, <1>7, SpokenTypes
\* An earlier frame of the spoken ones carries a smaller number.
<1>9. \A k \in DOMAIN spoken' :
        \/ /\ k \in DOMAIN spoken /\ spoken'[k] = spoken[k]
           /\ spoken[k][1] \in FromPump /\ spoken[k][1] # "done" /\ spoken[k][2] <= Taken
        \/ /\ k - Len(spoken) \in DOMAIN f /\ spoken'[k] = f[k - Len(spoken)]
           /\ spoken'[k][1] \in Kinds /\ spoken'[k][2] = Taken + 1
  <2> TAKE k \in DOMAIN spoken'
  <2>1. CASE k <= Len(spoken)
    BY <1>3, <1>5, <2>1, SpokenTypes DEF InOrder
  <2>2. CASE k > Len(spoken)
    <3>1. k - Len(spoken) \in DOMAIN f /\ spoken'[k] = f[k - Len(spoken)]
      BY <1>4, <1>5, <2>2, SpokenTypes
    <3> QED BY <1>1, <1>2, <3>1
  <2> QED BY <1>5, <2>1, <2>2, SpokenTypes
<1>10. ASSUME NEW j \in DOMAIN spoken', NEW k \in DOMAIN spoken', j < k
       PROVE  Before(spoken'[j], spoken'[k])
  <2>1. CASE k \in DOMAIN spoken
    <3>1. j \in DOMAIN spoken /\ spoken'[j] = spoken[j] /\ spoken'[k] = spoken[k]
      BY <1>5, <1>10, <2>1, SpokenTypes
    <3> QED BY <1>10, <2>1, <3>1 DEF InOrder
  <2>2. CASE k \notin DOMAIN spoken /\ j \in DOMAIN spoken
    <3>1. spoken'[j][1] # "done" /\ spoken'[j][2] <= Taken
      <4>1. spoken'[j] = spoken[j]
        BY <1>5, <2>2, SpokenTypes
      <4> QED BY <1>3, <2>2, <4>1 DEF InOrder
    <3>2. spoken'[k][2] = Taken + 1
      BY <1>9, <2>2, Zenon
    <3>3. spoken'[j][2] \in Int
      <4>1. spoken'[j] = spoken[j] /\ spoken[j] \in Frames
        BY <1>5, <2>2, SpokenTypes, ElementOfSeq
      <4> QED BY <4>1 DEF Frames
    <3> QED BY <1>6, <3>1, <3>2, <3>3 DEF Before
  <2>3. CASE k \notin DOMAIN spoken /\ j \notin DOMAIN spoken
    <3>1. /\ j - Len(spoken) \in DOMAIN f /\ spoken'[j] = f[j - Len(spoken)]
          /\ k - Len(spoken) \in DOMAIN f /\ spoken'[k] = f[k - Len(spoken)]
          /\ j - Len(spoken) < k - Len(spoken)
      BY <1>5, <1>9, <1>10, <2>3, SpokenTypes
    <3> QED BY <1>2, <3>1
  <2> QED BY <2>1, <2>2, <2>3
<1>11. \A k \in DOMAIN spoken' : spoken'[k][1] \in FromPump /\ spoken'[k][2] <= Taken'
  <2> TAKE k \in DOMAIN spoken'
  <2>1. CASE k \in DOMAIN spoken
    <3>1. spoken'[k] = spoken[k] /\ spoken[k] \in Frames
      BY <1>5, <2>1, SpokenTypes, ElementOfSeq
    <3>2. spoken[k][2] \in Int /\ spoken[k][2] <= Taken /\ spoken[k][1] \in FromPump
      BY <2>1, <3>1 DEF Frames, InOrder
    <3> QED BY <1>6, <3>1, <3>2
  <2>2. CASE k \notin DOMAIN spoken
    BY <1>6, <1>9, <2>2 DEF FromPump
  <2> QED BY <2>1, <2>2
<1>12. \A k \in DOMAIN spoken' : spoken'[k][1] # "done"
  BY <1>9 DEF Kinds
<1>13. InOrder'
  BY <1>6, <1>7, <1>8, <1>10, <1>11, <1>12, SpokenTypes DEF InOrder
<1> QED BY <1>4, <1>5, <1>7, <1>13, SpokenTypes

\* The end of the stream comes after everything.
LEMMA PumpEnds ==
  ASSUME TypeOK, InOrder, EndPump
  PROVE  InOrder' /\ Done' = Len(spoken) /\ Len(spoken') >= Len(spoken)
         /\ \A k \in DOMAIN spoken : spoken'[k] = spoken[k]
<1>1. /\ todo = <<>> /\ todo' = <<<<"done", 0>>>> /\ spoken' = Append(spoken, <<"done", 0>>)
      /\ pump = "relaying" /\ pump' = "finishing" /\ UNCHANGED <<waiting, output>>
  BY DEF EndPump
<1>2. /\ Len(spoken') = Len(spoken) + 1 /\ DOMAIN spoken' = 1 .. Len(spoken) + 1
      /\ \A k \in 1 .. Len(spoken) : spoken'[k] = spoken[k]
      /\ spoken'[Len(spoken) + 1] = <<"done", 0>>
  <2>1. <<"done", 0>> \in Frames
    BY FrameTypes
  <2> QED BY <1>1, <2>1, SpokenTypes, AppendProperties
<1>3. Done' = Len(spoken) /\ Len(todo') = 1 /\ todo'[1] = <<"done", 0>>
  BY <1>1, <1>2, SpokenTypes DEF Done
<1>4. Taken' = Taken /\ Taken \in Nat
  BY <1>1, SpokenTypes DEF Taken, InOrder
<1>5. \A k \in 1 .. Len(todo') : todo'[k] = spoken'[Done' + k]
  BY <1>2, <1>3, SpokenTypes
<1>6. ASSUME NEW j \in DOMAIN spoken', NEW k \in DOMAIN spoken', j < k
      PROVE  Before(spoken'[j], spoken'[k])
  <2>1. j \in DOMAIN spoken /\ spoken'[j] = spoken[j] /\ spoken[j][1] # "done"
    BY <1>1, <1>2, <1>6, SpokenTypes DEF InOrder
  <2>2. CASE k \in DOMAIN spoken
    <3>1. spoken'[k] = spoken[k]
      BY <1>2, <2>2, SpokenTypes
    <3> QED BY <1>6, <2>1, <2>2, <3>1 DEF InOrder
  <2>3. CASE k \notin DOMAIN spoken
    <3>1. spoken'[k] = <<"done", 0>>
      BY <1>2, <2>3, SpokenTypes
    <3> QED BY <2>1, <3>1 DEF Before
  <2> QED BY <2>2, <2>3
<1>7. \A k \in DOMAIN spoken' : spoken'[k][1] \in FromPump /\ spoken'[k][2] <= Taken'
  <2> TAKE k \in DOMAIN spoken'
  <2>1. CASE k \in DOMAIN spoken
    <3>1. spoken'[k] = spoken[k]
      BY <1>2, <2>1, SpokenTypes
    <3> QED BY <1>4, <2>1, <3>1 DEF InOrder
  <2>2. CASE k \notin DOMAIN spoken
    <3>1. spoken'[k] = <<"done", 0>>
      BY <1>2, <2>2, SpokenTypes
    <3> QED BY <1>4, <3>1 DEF FromPump
  <2> QED BY <2>1, <2>2
<1>8. InOrder'
  BY <1>1, <1>3, <1>4, <1>5, <1>6, <1>7, SpokenTypes DEF InOrder
<1> QED BY <1>2, <1>3, <1>8, SpokenTypes

\* A chunk more waits, and none less was taken.
LEMMA PutOutKeeps ==
  ASSUME TypeOK, NEW chunk \in Chunks, PutOut(chunk)
  PROVE  Taken' = Taken /\ UNCHANGED <<todo, spoken, wire, pump, socket, inbound>>
<1>1. Len(waiting') = Len(waiting) + 1 /\ output' = output + 1
  BY SpokenTypes, AppendProperties DEF PutOut
<1> QED BY <1>1, SpokenTypes DEF Taken, PutOut

LEMMA InOrderStep ==
  ASSUME TypeOK, Writing, Started, InOrder, [Next]_vars
  PROVE  InOrder'
<1>1. ASSUME UNCHANGED <<todo, spoken>>, Taken' = Taken,
             \/ pump' = pump
             \/ pump' \notin {"none", "relaying"}
             \/ pump = "none"
      PROVE  InOrder'
  BY <1>1 DEF InOrder, Done
<1>2. CASE Quiet /\ (pump' = pump \/ pump = "none")
  BY <1>1, <1>2 DEF Quiet, Taken
<1>3. CASE InboundStep
  BY <1>2, <1>3 DEF InboundStep, Upgrade, OpenConversation, StartPump, ResponseFails,
     ReadFails, Accepted, Leave, InboundTo, Started, Quiet
<1>4. CASE UNCHANGED vars \/ Rejected \/ ReadFrame \/ EndResponses \/ CallerTurns
           \/ \E g \in {"inbound", "pump"} : BeginWrite(g)
  BY <1>2, <1>4 DEF vars, Rejected, ReadFrame, InboundTo, EndResponses, CallerTurns,
     BeginWrite, Quiet
<1>5. ASSUME NEW chunk \in Chunks, PutOut(chunk) PROVE InOrder'
  BY <1>1, <1>5, PutOutKeeps
<1>6. ASSUME NEW g \in {"inbound", "pump"}, FrameLands(g) \/ FrameLost(g) PROVE InOrder'
  <2>1. g \in holder /\ GoOn(g) /\ UNCHANGED <<spoken, waiting, output>>
    BY <1>6 DEF FrameLands, FrameLost
  <2>2. CASE g = "inbound"
    BY <1>1, <2>1, <2>2 DEF GoOn, Taken
  <2>3. CASE g = "pump"
    <3>1. todo # <<>> /\ todo' = Tail(todo)
      BY <2>1, <2>3, FrameInHand DEF GoOn
    <3>2. /\ Done' = Done + 1
          /\ \A k \in 1 .. Len(todo') : todo'[k] = spoken[Done' + k]
      BY <2>1, <3>1, PumpWrote
    <3>3. Done' >= 0 /\ Taken' = Taken
      BY <2>1, <3>2, SpokenTypes DEF InOrder, Done, Taken
    <3>4. pump' \in {"none", "relaying"} => pump \in {"none", "relaying"}
      BY <2>1, <2>3 DEF GoOn
    <3> QED BY <2>1, <3>2, <3>3, <3>4 DEF InOrder
  <2> QED BY <2>2, <2>3
<1> QED BY <1>3, <1>4, <1>5, <1>6, PumpTook, PumpEnds DEF Next, WriteStep, PumpStep

-----------------------------------------------------------------------------
(* What is heard.                                                          *)

\* One frame more on the wire.
LEMMA WireGrows ==
  ASSUME TypeOK, NEW f \in Frames, wire' = Append(wire, f)
  PROVE  /\ DOMAIN wire' = 1 .. Len(wire) + 1 /\ Len(wire') = Len(wire) + 1
         /\ wire'[Len(wire) + 1] = f
         /\ \A i \in DOMAIN wire : wire'[i] = wire[i]
<1>1. wire' \in Seq(Frames) /\ Len(wire') = Len(wire) + 1
  BY SpokenTypes, AppendProperties
<1> QED BY <1>1, SpokenTypes, AppendProperties, LenProperties

LEMMA HeardStep ==
  ASSUME TypeOK, Writing, InOrder, HeardSoFar, [Next]_vars
  PROVE  HeardSoFar'
<1>1. PICK n \in 0 .. Done : Heard = Spoken(n) /\ (socket = "open" => n = Done)
  BY DEF HeardSoFar
<1>2. Done \in Nat /\ Done <= Len(spoken)
  BY SpokenTypes DEF Done, InOrder
\* The wire as it was, the spoken frames as they were up to Done.
<1>3. ASSUME UNCHANGED wire, \A k \in DOMAIN spoken : spoken'[k] = spoken[k],
             Done' \in Nat, Done' >= Done, socket' = "open" => socket = "open" /\ Done' = Done
      PROVE  HeardSoFar'
  <2>1. HeardAt' = HeardAt /\ Heard' = Heard
    BY <1>3 DEF HeardAt, Heard
  <2>2. Spoken(n)' = Spoken(n)
    <3>1. \A k \in 1 .. n : k \in DOMAIN spoken
      BY <1>1, <1>2, SpokenTypes
    <3>2. \A k \in 1 .. n : spoken'[k] = spoken[k]
      BY <1>3, <3>1
    <3> QED BY <3>2 DEF Spoken
  <2>3. n \in 0 .. Done' /\ (socket' = "open" => n = Done')
    BY <1>1, <1>2, <1>3
  <2> QED BY <1>1, <1>3, <2>1, <2>2, <2>3 DEF HeardSoFar, HeardAt
<1>4. CASE Quiet /\ (socket' = "open" => socket = "open")
  BY <1>2, <1>3, <1>4 DEF Quiet, Done
<1>5. CASE UNCHANGED vars \/ InboundStep \/ Rejected \/ ReadFrame \/ EndResponses \/ CallerTurns
           \/ \E g \in {"inbound", "pump"} : BeginWrite(g)
  BY <1>4, <1>5 DEF vars, InboundStep, Upgrade, OpenConversation, StartPump, ResponseFails,
     ReadFails, Accepted, Leave, Rejected, ReadFrame, InboundTo, EndResponses, CallerTurns,
     BeginWrite, Quiet
<1>6. ASSUME NEW chunk \in Chunks, PutOut(chunk) PROVE HeardSoFar'
  BY <1>2, <1>3, <1>6, PutOutKeeps DEF Done
<1>7. CASE TakeChunk \/ EndPump
  <2>0. todo = <<>> /\ UNCHANGED <<wire, socket>>
    BY <1>7 DEF TakeChunk, EndPump
  <2>1. Done = Len(spoken)
    BY <2>0, SpokenTypes, EmptySeq DEF Done
  <2>2. /\ Done' = Len(spoken)
        /\ \A k \in DOMAIN spoken : spoken'[k] = spoken[k]
    BY <1>7, PumpTook, PumpEnds
  <2> QED BY <1>2, <1>3, <2>0, <2>1, <2>2
<1>8. ASSUME NEW g \in {"inbound", "pump"}, FrameLost(g) PROVE HeardSoFar'
  <2>1. socket' = "dead" /\ UNCHANGED <<wire, spoken>> /\ g \in holder /\ GoOn(g)
    BY <1>8 DEF FrameLost
  <2>2. Done' \in {Done, Done + 1}
    <3>1. CASE g = "inbound"
      BY <2>1, <3>1 DEF GoOn, Done
    <3>2. CASE g = "pump"
      BY <2>1, <3>2, FrameInHand, PumpWrote DEF GoOn
    <3> QED BY <3>1, <3>2
  <2> QED BY <1>2, <1>3, <2>1, <2>2
<1>9. ASSUME FrameLands("inbound") PROVE HeardSoFar'
  <2> DEFINE f == FrameOf("inbound")
  <2>1. f \in Frames /\ f[1] \in {"ready", "error", "close"} /\ wire' = Append(wire, f)
    BY <1>9, FrameInHand DEF FrameLands
  <2>2. UNCHANGED <<spoken, todo>> /\ socket = "open"
    BY <1>9 DEF FrameLands, GoOn
  <2> HIDE DEF f
  <2>3. HeardAt' = HeardAt
    BY <2>1, WireGrows, SpokenTypes DEF HeardAt, FromPump, Kinds
  <2>4. \A i \in HeardAt : wire'[i] = wire[i]
    BY <2>1, WireGrows DEF HeardAt
  <2>5. Heard' = Heard
    BY <2>3, <2>4 DEF Heard
  <2>6. Done' = Done /\ Spoken(n)' = Spoken(n)
    BY <2>2 DEF Done, Spoken
  <2> QED BY <1>1, <2>2, <2>3, <2>4, <2>5, <2>6 DEF HeardSoFar
<1>10. ASSUME FrameLands("pump") PROVE HeardSoFar'
  <2> DEFINE f == FrameOf("pump")
             m == Len(wire) + 1
  <2>1. f \in Frames /\ f = todo[1] /\ todo # <<>> /\ wire' = Append(wire, f)
    BY <1>10, FrameInHand DEF FrameLands
  <2>2. todo' = Tail(todo) /\ UNCHANGED spoken /\ socket = "open"
    BY <1>10 DEF FrameLands, GoOn
  <2> HIDE DEF f
  <2>3. Done' = Done + 1 /\ Done + 1 \in DOMAIN spoken /\ f = spoken[Done + 1]
    BY <2>1, <2>2, PumpWrote
  <2>4. f[1] \in FromPump
    BY <2>3 DEF InOrder
  <2>5. /\ HeardAt' = HeardAt \union {m} /\ wire'[m] = f
        /\ \A i \in HeardAt : wire'[i] = wire[i] /\ i < m /\ i \in 1 .. Len(wire)
    BY <2>1, <2>4, WireGrows, SpokenTypes DEF HeardAt
  <2>6. Heard = Spoken(Done)
    BY <1>1, <2>2
  <2>7. Heard' = Spoken(Done + 1)
    <3>1. Heard' = Heard \union {f}
      BY <2>5 DEF Heard
    <3>2. Spoken(Done + 1) = Spoken(Done) \union {spoken[Done + 1]}
      BY <1>2 DEF Spoken
    <3> QED BY <2>3, <2>6, <3>1, <3>2
  <2>8. ASSUME NEW i \in HeardAt', NEW j \in HeardAt', i < j
        PROVE  Before(wire'[i], wire'[j])
    <3>1. i \in HeardAt /\ i < m
      BY <2>5, <2>8, SpokenTypes DEF m
    <3>2. CASE j \in HeardAt
      BY <2>5, <2>8, <3>1, <3>2 DEF HeardSoFar
    <3>3. CASE j = m
      <4>1. PICK k \in 1 .. Done : wire[i] = spoken[k]
        BY <2>6, <3>1 DEF Heard, Spoken
      <4>2. Before(spoken[k], spoken[Done + 1])
        <5>1. k \in DOMAIN spoken /\ k < Done + 1
          BY <1>2, <4>1, SpokenTypes
        <5> QED BY <2>3, <5>1 DEF InOrder
      <4> QED BY <2>3, <2>5, <3>1, <3>3, <4>1, <4>2
    <3> QED BY <2>5, <3>2, <3>3
  <2>9. Done' \in 0 .. Done'
    BY <1>2, <2>3
  <2>10. Heard' = {spoken'[k] : k \in 1 .. Done'}
    BY <2>2, <2>3, <2>7 DEF Spoken
  <2> QED BY <2>8, <2>9, <2>10 DEF HeardSoFar, Spoken
<1> QED BY <1>5, <1>6, <1>7, <1>8, <1>9, <1>10 DEF Next, WriteStep, PumpStep

-----------------------------------------------------------------------------
(* What a failing session says.                                            *)

\* The pump writes neither errors nor close frames.
LEMMA PumpFrame ==
  ASSUME TypeOK, InOrder, todo # <<>>
  PROVE  todo[1][1] \in FromPump
<1>1. Len(todo) > 0 /\ todo[1] = spoken[Done + 1]
  BY SpokenTypes, EmptySeq DEF InOrder
<1>2. Done + 1 \in DOMAIN spoken
  BY <1>1, SpokenTypes DEF Done, InOrder
<1> QED BY <1>1, <1>2 DEF InOrder

LEMMA ExplainedStep ==
  ASSUME TypeOK, Writing, InOrder, Explained, [Next]_vars
  PROVE  Explained'
<1>1. ASSUME UNCHANGED wire, inbound' = "closing" /\ socket' = "open" => OnWire("error"),
             socket = "dead" => socket' = "dead"
      PROVE  Explained'
  BY <1>1 DEF Explained, FailureExplained, OnWire
<1>2. CASE UNCHANGED vars \/ EndResponses \/ CallerTurns \/ TakeChunk \/ EndPump
           \/ (\E chunk \in Chunks : PutOut(chunk))
           \/ \E g \in {"inbound", "pump"} : BeginWrite(g)
  <2>1. UNCHANGED <<wire, inbound, socket>>
    BY <1>2 DEF vars, EndResponses, CallerTurns, TakeChunk, EndPump, PutOut, BeginWrite
  <2> QED BY <1>1, <2>1 DEF Explained
<1>3. CASE InboundStep \/ Rejected \/ ReadFrame
  <2>1. UNCHANGED wire /\ inbound' # "closing" /\ (socket = "dead" => socket' = "dead")
    BY <1>3 DEF InboundStep, Upgrade, OpenConversation, StartPump, ResponseFails, ReadFails,
       Accepted, Leave, Rejected, ReadFrame, InboundTo
  <2> QED BY <1>1, <2>1
<1>4. ASSUME NEW g \in {"inbound", "pump"}, FrameLost(g) PROVE Explained'
  BY <1>1, <1>4 DEF FrameLost
<1>5. ASSUME NEW g \in {"inbound", "pump"}, FrameLands(g) PROVE Explained'
  <2> DEFINE f == FrameOf(g)
             m == Len(wire) + 1
  <2>1. /\ f \in Frames /\ wire' = Append(wire, f) /\ socket = "open"
        /\ socket' = IF f[1] = "close" THEN "dead" ELSE "open"
        /\ g \in holder /\ GoOn(g)
    BY <1>5, FrameInHand DEF FrameLands
  <2>2. /\ DOMAIN wire' = 1 .. m /\ Len(wire') = m /\ wire'[m] = f
        /\ \A i \in DOMAIN wire : wire'[i] = wire[i] /\ i \in DOMAIN wire'
        /\ \A i \in DOMAIN wire' : i = m \/ i \in DOMAIN wire
    BY <2>1, WireGrows, SpokenTypes
  <2>3. ~OnWire("close")
    BY <2>1 DEF Explained
  <2> HIDE DEF f, m
  <2>4. m \in DOMAIN wire'
    BY <2>2, SpokenTypes DEF m
  <2>5. OnWire("error") => OnWire("error")'
    BY <2>2 DEF OnWire
  <2>6. CASE f[1] = "close"
    <3>1. g = "inbound" /\ inbound = "closing"
      <4>1. g = "pump" => f[1] \in FromPump
        BY <2>1, FrameInHand, PumpFrame DEF f
      <4>2. g = "inbound"
        BY <2>6, <4>1 DEF FromPump, Kinds
      <4>3. inbound \in {"greeting", "failing", "closing"} /\ f = InboundFrame
        BY <2>1, <4>2, FrameInHand DEF f
      <4> QED BY <2>6, <4>2, <4>3, InboundFrames
    <3>2. OnWire("error")'
      BY <2>1, <2>5, <3>1 DEF Explained
    <3> QED BY <2>1, <2>2, <2>6, <3>2 DEF Explained, FailureExplained
  <2>7. CASE f[1] # "close"
    <3>1. ~OnWire("close")'
      BY <2>2, <2>3, <2>7 DEF OnWire
    <3>2. inbound' = "closing" => OnWire("error")'
      <4> SUFFICES ASSUME inbound' = "closing" PROVE OnWire("error")'
        OBVIOUS
      <4>1. CASE g = "pump"
        <5>1. inbound = "closing"
          BY <2>1, <4>1 DEF GoOn
        <5> QED BY <2>1, <2>5, <5>1 DEF Explained
      <4>2. CASE g = "inbound"
        <5>1. inbound \in {"greeting", "failing", "closing"} /\ f = InboundFrame
          BY <2>1, <4>2, FrameInHand DEF f
        <5>2. inbound' = AfterInbound
          BY <2>1, <4>2 DEF GoOn
        <5>3. f = <<"error", 0>>
          BY <5>1, <5>2, InboundFrames
        <5>4. f[1] = "error"
          BY <5>3
        <5> QED BY <2>2, <2>4, <5>4 DEF OnWire
      <4> QED BY <4>1, <4>2
    <3> QED BY <3>1, <3>2 DEF Explained, FailureExplained
  <2> QED BY <2>6, <2>7
<1> QED BY <1>2, <1>3, <1>4, <1>5 DEF Next, WriteStep, PumpStep

-----------------------------------------------------------------------------
(* The invariant and what follows from it.                                 *)

LEMMA VoiceInvInit == Init => VoiceInv
<1> SUFFICES ASSUME Init PROVE VoiceInv
  OBVIOUS
<1>1. Len(<<>>) = 0 /\ DOMAIN <<>> = {}
  OBVIOUS
<1>2. TypeOK
  BY <1>1, EmptySeq, SizeAssumption DEF Init, TypeOK
<1>3. Taken = 0 /\ Done = 0
  <2>1. output = 0 /\ Len(waiting) = 0 /\ Len(spoken) = 0 /\ Len(todo) = 0
    BY <1>1 DEF Init
  <2> QED BY <2>1 DEF Taken, Done
<1>4. InOrder
  BY <1>1, <1>3 DEF Init, InOrder
<1>5. HeardAt = {} /\ Heard = {} /\ Spoken(0) = {}
  BY <1>1 DEF Init, HeardAt, Heard, Spoken
<1>6. HeardSoFar
  BY <1>3, <1>5 DEF HeardSoFar
<1>7. Explained
  BY <1>1 DEF Init, Explained, FailureExplained, OnWire
<1> QED BY <1>2, <1>4, <1>6, <1>7 DEF VoiceInv, Init, Writing, Started

LEMMA VoiceInvariant == Spec => []VoiceInv
<1>1. VoiceInv /\ [Next]_vars => VoiceInv'
  BY TypeStep, WritingStep, StartedStep, InOrderStep, HeardStep, ExplainedStep DEF VoiceInv
<1> QED BY <1>1, VoiceInvInit, PTL DEF Spec

(* Type correctness of a voice session.                                    *)
THEOREM VoiceTypeCorrect == Spec => []TypeOK
<1>1. VoiceInv => TypeOK
  BY DEF VoiceInv
<1> QED BY <1>1, VoiceInvariant, PTL

(* The pump and the inbound goroutine are never inside a write of the      *)
(* connection together.                                                    *)
THEOREM AlwaysOneWriter == Spec => []OneWriter
<1>1. VoiceInv => OneWriter
  <2>1. Cardinality({"inbound"}) = 1 /\ Cardinality({"pump"}) = 1
    BY FS_Singleton
  <2>2. Cardinality({}) = 0
    BY FS_EmptySet
  <2>3. VoiceInv => holder = {} \/ holder = {"inbound"} \/ holder = {"pump"}
    BY DEF VoiceInv, Writing
  <2>4. holder = {} \/ holder = {"inbound"} \/ holder = {"pump"}
          => Cardinality(holder) = 0 \/ Cardinality(holder) = 1
    BY <2>1, <2>2, Zenon
  <2> QED BY <2>3, <2>4 DEF OneWriter
<1> QED BY <1>1, VoiceInvariant, PTL

(* What the caller hears of the conversation is a beginning of what it put *)
(* out, in order and without a gap, and done comes after all of it,        *)
(* whichever writes fail.                                                  *)
THEOREM AlwaysHeardInOrder == Spec => []HeardInOrder
<1>1. VoiceInv => HeardInOrder
  <2> SUFFICES ASSUME VoiceInv PROVE HeardInOrder
    OBVIOUS
  <2>1. 0 .. Done \subseteq 0 .. Len(spoken)
    BY SpokenTypes DEF VoiceInv, Done
  <2> QED BY <2>1 DEF VoiceInv, HeardSoFar, HeardInOrder
<1> QED BY <1>1, VoiceInvariant, PTL

(* A caller whose session fails is told why before the connection is closed*)
(* on it, and nothing comes after the close frame.                         *)
THEOREM FailureAlwaysExplained == Spec => []FailureExplained
<1>1. VoiceInv => FailureExplained
  BY DEF VoiceInv, Explained
<1> QED BY <1>1, VoiceInvariant, PTL
=============================================================================
