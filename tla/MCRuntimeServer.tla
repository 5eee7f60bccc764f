--------------------------- MODULE MCRuntimeServer ---------------------------
(***************************************************************************)
(* Small instances of the runtime's server for TLC.                        *)
(***************************************************************************)
EXTENDS RuntimeProperties

Unary    == [valid |-> TRUE, stream |-> FALSE, conversation |-> "c"]
NoKey    == [Unary EXCEPT !.conversation = None]
Stream   == [Unary EXCEPT !.stream = TRUE]
Unusable == [Unary EXCEPT !.valid = FALSE]

AllCalls == {Unary, NoKey, Stream, Unusable}

\* The first request streams, or is a turn of no conversation, or is unusable;
\* the second is a unary turn, of the first one's conversation or of none.
TwoCallers == <<{Stream, NoKey, Unusable}, {Unary, NoKey}>>
=============================================================================
