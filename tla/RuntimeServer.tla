---------------------------- MODULE RuntimeServer ----------------------------
(***************************************************************************)
(* The container's HTTP server around the requests of InvocationStream:    *)
(* runServer (server.go) serves until a signal or a failing listener,      *)
(* drains for shutdownTimeout, and run (main.go) then flushes the tracing  *)
(* exporter, again for shutdownTimeout, before the process exits with      *)
(* whatever still runs in it.                                              *)
(***************************************************************************)
EXTENDS InvocationStream

VARIABLES
  server,    \* "serving", "draining", "flushing" or "exited"
  status,    \* what runServer returned
  exported   \* the requests whose spans reached the collector, None if the
             \* flush failed

serverVars == <<server, status, exported>>
vars == <<streamVars, serverVars>>

TypeOK ==
  /\ StreamTypeOK
  /\ server \in {"serving", "draining", "flushing", "exited"}
  /\ status \in {"none", "complete", "drain expired", "serve failed"}
  /\ exported \in (SUBSET Requests) \cup {None}

Init ==
  /\ StreamInit
  /\ server = "serving"
  /\ status = "none"
  /\ exported = {}

-----------------------------------------------------------------------------
\* The listener takes a request.
ServeRequest(r, c) ==
  /\ server = "serving"
  /\ Accept(r, c)
  /\ UNCHANGED serverVars

\* SIGTERM or SIGINT.  In-flight requests keep their contexts.
Signal ==
  /\ server = "serving"
  /\ server' = "draining"
  /\ UNCHANGED <<streamVars, status, exported>>

\* The listener fails: runServer returns at once, without draining.
ServeFails ==
  /\ server = "serving"
  /\ server' = "flushing"
  /\ status' = "serve failed"
  /\ UNCHANGED <<streamVars, exported>>

\* Shutdown waits for every handler to return.  (The mutated form is Close.)
AnyTime == TRUE
AllReturned == \A r \in Requests : ~Served(r)

Drained ==
  /\ server = "draining"
  /\ AllReturned
  /\ server' = "flushing"
  /\ status' = "complete"
  /\ UNCHANGED <<streamVars, exported>>

\* shutdownTimeout passes first.  (The mutated form has no deadline.)
NoDeadline == FALSE
DrainExpires ==
  /\ server = "draining"
  /\ ~AllReturned
  /\ server' = "flushing"
  /\ status' = "drain expired"
  /\ UNCHANGED <<streamVars, exported>>

\* The deferred tracing shutdown exports the spans of the turns that are over,
\* or fails or times out, and the process exits.  (The mutated form exits
\* without running what was deferred.)
ExitAtOnce ==
  /\ server = "flushing"
  /\ server' = "exited"
  /\ UNCHANGED <<streamVars, status, exported>>

FlushAndExit ==
  /\ server = "flushing"
  /\ server' = "exited"
  /\ exported' \in {{r \in Requests : turn[r] \in {"reporting", "over"}}, None}
  /\ UNCHANGED <<streamVars, status>>

ServerStep == Signal \/ ServeFails \/ Drained \/ DrainExpires \/ FlushAndExit

Next ==
  \/ \E r \in Requests, c \in Calls : ServeRequest(r, c)
  \/ server # "exited" /\ StreamStep /\ UNCHANGED serverVars
  \/ ServerStep

Spec == Init /\ [][Next]_vars

\* A goroutine of the runtime that can move does; so does the SDK once the
\* turn's context is canceled.  Nothing is assumed of callers, of a model at
\* work or of signals, but a dropped connection is noticed and the two
\* timeouts pass.
Goroutine(r) == server # "exited" /\ HandlerStep(r) /\ UNCHANGED serverVars
Producer(r)  == server # "exited" /\ TurnStep(r) /\ UNCHANGED serverVars
Cancel(r)    == server # "exited" /\ NoticeGone(r) /\ UNCHANGED serverVars
SDKObeys(r)  == /\ server # "exited" /\ canceled[r]
                /\ ModelEnds(r) \/ ModelFails(r)
                /\ UNCHANGED serverVars

Fairness ==
  /\ \A r \in Requests : WF_vars(Goroutine(r)) /\ WF_vars(Producer(r))
                         /\ WF_vars(Cancel(r)) /\ WF_vars(SDKObeys(r))
  /\ WF_vars(Drained \/ DrainExpires)
  /\ WF_vars(FlushAndExit)

FairSpec == Spec /\ Fairness
=============================================================================
