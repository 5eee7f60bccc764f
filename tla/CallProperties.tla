--------------------------- MODULE CallProperties ---------------------------
(***************************************************************************)
(* What the operations of the adapter may conclude from a call, whatever   *)
(* was lost, repeated or refused on the way and whoever else was at work.  *)
(***************************************************************************)
EXTENDS AgentCalls

Returned(op, is) == request = None /\ result # None /\ result.of = op /\ result.is = is

(***************************************************************************)
(* AnswersTrue: a call that returns without an error has done what it was  *)
(* asked to, itself, also when an earlier request of it was carried out    *)
(* and its answer lost; CreateVersion names the newest of the versions it  *)
(* made.  "Not found" is never said of an agent that is there, nor of a    *)
(* missing project or a refusal (client_real.go 493-520, errors.go 34-36), *)
(* and a missing project is never made out of a missing agent.  A delete   *)
(* fails only when it was refused or got no answer.                        *)
(***************************************************************************)
AnswersTrue ==
  /\ Returned("CreateAgent", "ok") => "created" \in did
  /\ Returned("CreateVersion", "ok") =>
       result.got \in did /\ \A n \in did : n <= result.got
  /\ Returned("SetEndpoint", "ok") => "served" \in did
  /\ Returned("DeleteAgent", "ok") => ~seen.project \/ ~seen.agent.exists
  /\ Returned("DeleteAgent", "error") => result.status \in {"none", "denied", "throttled"}
  /\ Returned("GetAgent", "absent") => seen.project /\ ~seen.agent.exists
  /\ Returned("GetVersion", "absent") =>
       seen.project /\ result.on \notin seen.agent.versions
  /\ \A op \in DataPlane : Returned(op, "no project") => ~project

(***************************************************************************)
(* GrantTold: the operator of a voice agent that was created learns what   *)
(* came of its access to the models, unless the client that assigns roles  *)
(* could not be built: then nothing is said at all (apply.go 204-206),     *)
(* although provider.go 31-32 has that reported.  "Granted" means that the identity    *)
(* the agent was created with holds the role on an account of the          *)
(* configured name; "not found" that no such account is in a subscription  *)
(* of the first page that can be read, unless a request was refused or     *)
(* lost; a failure, that the assignment was not answered (identity.go      *)
(* 84-115, 205-217; apply.go 204-225).                                     *)
(***************************************************************************)
GrantTold ==
  /\ Returned("CreateAgent", "ok") /\ speech => (told = None <=> ~granter)
  /\ told = "granted" => \E x \in assigned : x.principal = result.got
  /\ told = "not found" /\ trouble = 0 =>
       \A x \in Accounts :
         x.subscription \notin Readable \intersect {Subscriptions[i] : i \in DOMAIN Subscriptions}
  /\ told \in {"not listed", "denied", "failed"} => trouble > 0

-----------------------------------------------------------------------------
(* Why AnswersTrue holds: the inductive invariant AgentCallsProofs proves  *)
(* it from.                                                                *)

Asks(op) == request # None /\ request.op = op

\* What an answer means for the call it is handed to.
AnswerMeans ==
  request # None /\ request.op \in DataPlane /\ answer # None =>
    /\ answer.status = "missing" =>
         /\ answer.body \in IF project THEN AgentBodies ELSE ProjectBodies
         /\ project => \/ request.op # "CreateAgent" /\ ~seen.agent.exists
                       \/ request.op = "GetVersion" /\ request.on \notin seen.agent.versions
    /\ answer.status = "ok" =>
         /\ request.op = "CreateAgent" => "created" \in did
         /\ request.op = "CreateVersion" => answer.body \in did /\ answer.body = issued
         /\ request.op = "SetEndpoint" => "served" \in did
         /\ request.op = "DeleteAgent" => ~seen.agent.exists
    /\ request.op = "DeleteAgent" =>
         answer.status \in {"ok", "missing", "none", "denied", "throttled"}

\* AnswersTrue of a result, also while a creation goes on to the grant.
Gives(op, is) == result # None /\ result.of = op /\ result.is = is

ResultMeans ==
  /\ Gives("CreateAgent", "ok") => "created" \in did
  /\ Gives("CreateVersion", "ok") => result.got \in did /\ \A n \in did : n <= result.got
  /\ Gives("SetEndpoint", "ok") => "served" \in did
  /\ Gives("DeleteAgent", "ok") => ~seen.project \/ ~seen.agent.exists
  /\ Gives("DeleteAgent", "error") => result.status \in {"none", "denied", "throttled"}
  /\ Gives("GetAgent", "absent") => seen.project /\ ~seen.agent.exists
  /\ Gives("GetVersion", "absent") => seen.project /\ result.on \notin seen.agent.versions
  /\ \A op \in DataPlane : Gives(op, "no project") => ~project

\* A result stays while a request is under way only from a creation to its grant.
Between ==
  request # None /\ result # None =>
    /\ result.of = "CreateAgent" /\ result.is = "ok"
    /\ request.op \in {"ListSubscriptions", "FindAccount", "PutAssignment"}

CallInv ==
  /\ issued \in Nat
  /\ seen.project = project
  /\ DOMAIN agent = DOMAIN NoAgent
  /\ agent.exists \/ agent.versions = {}
  /\ seen.agent.exists \/ seen.agent.versions = {}
  /\ Asks("CreateVersion") => did \subseteq 1 .. issued
  /\ Asks("DeleteAgent") => request.on = "force"
  /\ Between /\ AnswerMeans /\ ResultMeans

(***************************************************************************)
(* Why TypeOK and GrantTold hold: the inductive invariant, TypeOK and      *)
(* GrantInv together.                                                      *)
(***************************************************************************)

\* No account of the configured name can be found in a subscription.
Barren(s) == \A x \in Accounts : x.subscription = s => s \notin Readable

Listed == {Subscriptions[i] : i \in DOMAIN Subscriptions}

\* A grant is under way: it follows the creation of a voice agent that reported
\* an identity.
Granting ==
  request # None /\ request.op \in {"ListSubscriptions", "FindAccount", "PutAssignment"}

GrantFollows ==
  Granting =>
    /\ speech /\ granter
    /\ result.of = "CreateAgent" /\ result.is = "ok" /\ result.got \in 1 .. minted

\* What was listed is still to be searched, or held no account, or was refused.
Searched ==
  Asks("FindAccount") =>
    \A s \in Listed : \/ s \in {request.on} \union {left[j] : j \in DOMAIN left}
                      \/ trouble = 0 => Barren(s)

\* What an answer means for the grant.
GrantAnswer ==
  request # None /\ answer # None =>
    /\ request.op = "CreateAgent" /\ answer.status = "ok" => answer.body.identity \in 0 .. minted
    /\ request.op = "ListSubscriptions" =>
         IF answer.status = "ok" THEN answer.body = Subscriptions ELSE trouble > 0
    /\ request.op = "FindAccount" =>
         IF answer.status = "ok" /\ answer.body # None THEN answer.body \in Accounts
         ELSE trouble = 0 => Barren(request.on)
    /\ request.op = "PutAssignment" =>
         IF Assigned(answer) THEN \E x \in assigned : x.principal = result.got
         ELSE trouble > 0

GrantInv ==
  /\ trouble \in Nat
  /\ agent.exists => agent.identity \in 1 .. minted
  /\ left \in Seq(Listed)
  /\ told # None => request = None
  /\ Asks("PutAssignment") => request.on.principal = result.got
  /\ GrantFollows /\ Searched /\ GrantAnswer /\ GrantTold
=============================================================================
