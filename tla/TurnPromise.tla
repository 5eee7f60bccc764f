----------------------------- MODULE TurnPromise -----------------------------
(***************************************************************************)
(* What the runtime promises about a turn, as its caller and the model see *)
(* it, with no goroutine, channel or connection in between: the caller     *)
(* hears the model's text as it was said, then how the turn ended, which   *)
(* is true and is not taken back; all that may follow is the terminator of *)
(* a stream that broke off.  A turn that was refused never reached the     *)
(* model.                                                                  *)
(***************************************************************************)
EXTENDS Naturals, Sequences

CONSTANTS Turns, Pieces   \* Pieces: what a model may say

VARIABLES
  asked,   \* the turns a caller asked for
  text,    \* turn -> what the model said
  end,     \* turn -> "open", then "done" or "failed"
  got,     \* turn -> what the caller heard of it
  word     \* turn -> how the caller was told it ended, "none" before that

turnVars == <<asked, text, end, got, word>>

Init ==
  /\ asked = {}
  /\ text = [t \in Turns |-> <<>>]
  /\ end = [t \in Turns |-> "open"]
  /\ got = [t \in Turns |-> <<>>]
  /\ word = [t \in Turns |-> "none"]

Ask(t) ==
  /\ t \notin asked
  /\ asked' = asked \cup {t}
  /\ UNCHANGED <<text, end, got, word>>

\* A refusal comes before anything was said, and instead of it.
Refuse(t) ==
  /\ t \in asked
  /\ end[t] = "open" /\ text[t] = <<>> /\ word[t] = "none"
  /\ word' = [word EXCEPT ![t] = "refused"]
  /\ UNCHANGED <<asked, text, end, got>>

Running(t) == t \in asked /\ end[t] = "open" /\ word[t] = "none"

Say(t, p) ==
  /\ Running(t)
  /\ text' = [text EXCEPT ![t] = Append(@, p)]
  /\ UNCHANGED <<asked, end, got, word>>

End(t, how) ==
  /\ Running(t)
  /\ end' = [end EXCEPT ![t] = how]
  /\ UNCHANGED <<asked, text, got, word>>

\* The caller hears the next piece.
Hear(t) ==
  /\ word[t] = "none"
  /\ Len(got[t]) < Len(text[t])
  /\ got' = [got EXCEPT ![t] = Append(@, text[t][Len(@) + 1])]
  /\ UNCHANGED <<asked, text, end, word>>

\* The outcome is told after all of the text.
Tell(t) ==
  /\ end[t] # "open"
  /\ word[t] = "none"
  /\ got[t] = text[t]
  /\ word' = [word EXCEPT ![t] = IF end[t] = "failed" THEN "failed" ELSE "answer"]
  /\ UNCHANGED <<asked, text, end, got>>

\* A stream that had begun is terminated after its failure was told.
Terminate(t) ==
  /\ word[t] = "failed"
  /\ got[t] # <<>>
  /\ word' = [word EXCEPT ![t] = "failed, terminated"]
  /\ UNCHANGED <<asked, text, end, got>>

Next ==
  \E t \in Turns :
    \/ Ask(t) \/ Refuse(t) \/ Hear(t) \/ Tell(t) \/ Terminate(t)
    \/ \E p \in Pieces : Say(t, p)
    \/ \E how \in {"done", "failed"} : End(t, how)

Spec == Init /\ [][Next]_turnVars
=============================================================================
