------------------------------- MODULE ToolLoop -------------------------------
(***************************************************************************)
(* The agent loop of an API provider (app/providers/model_executor.py): a  *)
(* bounded number of requests to the model, the tool calls it proposes in  *)
(* each, a budget, and a last request that forbids tools and asks for the  *)
(* answer.  A call that needs an operator can park the run: the            *)
(* conversation is stored (app/checkpoint.py), the loop ends, and a new    *)
(* one takes the conversation up when the operator has decided.            *)
(*                                                                         *)
(* There are four loops, one per request shape.  They differ in when the   *)
(* results of a request's calls join the conversation: one by one, or all  *)
(* together after the last.                                                *)
(*                                                                         *)
(* A call is <<the request that proposed it, its place in it>>.  Money is  *)
(* counted in requests: each costs one.                                    *)
(***************************************************************************)
EXTENDS Integers, Sequences

CONSTANTS
  Paths,         \* the loops to check, of AllPaths
  MaxRounds,     \* requests of one loop
  Budget,        \* budget_usd
  PerRound,      \* bound: calls proposed in one request
  MaxRedirects   \* bound: changes of OPENAI_BASE_URL while a run is parked

AllPaths  == {"openai_compat", "openai_responses", "anthropic", "gemini"}
Appending == {"openai_compat", "openai_responses"}   \* one by one

ASSUME ConstantsAssumption ==
  /\ Paths \subseteq AllPaths
  /\ MaxRounds \in Nat \ {0} /\ Budget \in Nat /\ PerRound \in Nat /\ MaxRedirects \in Nat

Overshoot   == 2   \* the request that goes over the budget, and the synthesis
MaxRequests == (MaxRedirects + 1) * (Budget + Overshoot) + 1   \* never reached
Requests    == 1..MaxRequests
Calls       == Requests \X (1..PerRound)
NoCall      == <<0, 0>>

VARIABLES
  pc, path,
  \* --- the loop's locals ---
  round, pending, answer, cost, aux, todo, collected, consent,
  \* --- the conversation: calls the model made, calls with a result ---
  proposed, answered,
  \* --- approvals.checkpoint, and the operator's verdict on it ---
  stored, verdict,
  \* --- history, read by properties only ---
  performed, acted, approved, parked, requests, redirects, restarts

locals       == <<round, pending, answer, cost, aux, todo, collected, consent>>
conversation == <<proposed, answered>>
durable      == <<path, stored, verdict>>
history      == <<performed, acted, approved, parked, requests, redirects, restarts>>
vars == <<pc, locals, conversation, durable, history>>

Pcs == {"start", "round", "calls", "parked", "queued", "resolve", "done", "failed"}

TypeOK ==
  /\ pc \in Pcs /\ path \in AllPaths
  /\ round \in 0..MaxRounds - 1
  /\ pending \in BOOLEAN /\ answer \in BOOLEAN /\ consent \in BOOLEAN
  /\ cost \in Nat /\ aux \in Nat
  /\ todo \in Seq(Calls) /\ collected \subseteq Calls
  /\ proposed \subseteq Calls /\ answered \subseteq proposed
  /\ stored.path \in AllPaths \cup {"none"} /\ stored.call \in Calls \cup {NoCall}
  /\ stored.answered \subseteq stored.proposed /\ stored.cost \in Nat
  /\ verdict \in BOOLEAN
  /\ performed \subseteq Calls /\ acted \subseteq performed /\ approved \subseteq Calls /\ parked \subseteq Calls
  /\ requests \in 0..MaxRequests
  /\ redirects \in 0..MaxRedirects /\ restarts \in Nat
  /\ (pc = "calls") <=> (todo # <<>>)

Init ==
  /\ pc = "start" /\ path \in Paths
  /\ round = 0 /\ pending = FALSE /\ answer = FALSE /\ cost = 0 /\ aux = 0
  /\ todo = <<>> /\ collected = {} /\ consent = FALSE
  /\ proposed = {} /\ answered = {}
  /\ stored = [path |-> "none", proposed |-> {}, answered |-> {}, cost |-> 0, call |-> NoCall]
  /\ verdict = FALSE
  /\ performed = {} /\ acted = {} /\ approved = {} /\ parked = {}
  /\ requests = 0 /\ redirects = 0 /\ restarts = 0

-----------------------------------------------------------------------------
(* Starting.                                                                *)

Start ==
  /\ pc = "start"
  /\ pc' = "round"
  /\ UNCHANGED <<locals, conversation, durable, history>>

NoCredentials ==
  /\ pc \in {"start", "queued"}
  /\ pc' = "failed"
  /\ UNCHANGED <<locals, conversation, durable, history>>

-----------------------------------------------------------------------------
(* One request.                                                             *)

OverBudget == cost + aux > Budget

\* No tools, and the model is told to answer.
ForceAnswer == OverBudget \/ round = MaxRounds - 1 \/ pending

\* What the model says, and what it costs; some turns have text.
Turn(text) ==
  /\ pc = "round"
  /\ requests < MaxRequests
  /\ requests' = requests + 1
  /\ cost' = cost + 1
  /\ answer' = (answer \/ text)

\* The text at hand is the result.
Concludes(text) ==
  /\ Turn(text)
  /\ ForceAnswer \/ answer'
  /\ pc' = "done"
  /\ UNCHANGED <<round, pending, aux, todo, collected, consent, conversation, durable,
                 performed, acted, approved, parked, redirects, restarts>>

\* Neither text nor calls: ask once more, for a synthesis.
ComesEmpty ==
  /\ Turn(FALSE)
  /\ ~ForceAnswer /\ ~answer'
  /\ pending' = TRUE
  /\ round' = round + 1
  /\ UNCHANGED <<pc, aux, todo, collected, consent, conversation, durable,
                 performed, acted, approved, parked, redirects, restarts>>

Proposes(text, n) ==
  /\ Turn(text)
  /\ ~ForceAnswer
  /\ todo' = [i \in 1..n |-> <<requests', i>>]
  /\ proposed' = proposed \cup {<<requests', i>> : i \in 1..n}
  /\ pc' = "calls"
  /\ UNCHANGED <<round, pending, aux, collected, consent, answered, durable,
                 performed, acted, approved, parked, redirects, restarts>>

\* The request raises or is refused; a rate limit is an error event as well.
RequestFails ==
  /\ pc = "round"
  /\ pc' = "failed"
  /\ UNCHANGED <<locals, conversation, durable, history>>

-----------------------------------------------------------------------------
(* One call: _call_tool and what the loop does with its result, whether the *)
(* call is the next of the request or the one the run was parked on.        *)

Current == IF pc = "resolve" THEN stored.call ELSE Head(todo)

\* What joins the conversation when a call returns.  Mutant: the last result of
\* a request stays out.
JoinsButLast ==
  CASE pc = "resolve" \/ path \in Appending -> {Current}
    [] OTHER -> IF Len(todo) = 1 THEN collected ELSE {}
Joins ==
  CASE pc = "resolve" \/ path \in Appending -> {Current}
    [] OTHER -> IF Len(todo) = 1 THEN collected \cup {Current} ELSE {}

\* _pre_approved is taken back whatever the call did.  Mutant: it stays.
ConsentKept  == consent
ConsentAfter == FALSE

\* The call returned a text, of whatever it did.
Answers ==
  /\ answered' = answered \cup Joins
  /\ collected' = IF Len(todo) > 1 /\ path \notin Appending THEN collected \cup {Current} ELSE {}
  /\ todo' = IF pc = "calls" THEN Tail(todo) ELSE <<>>
  /\ round' = IF pc = "calls" /\ Len(todo) = 1 THEN round + 1 ELSE round
  /\ pc' = IF Len(todo) > 1 THEN "calls" ELSE "round"
  /\ consent' = ConsentAfter
  /\ UNCHANGED <<pending, answer, cost, proposed, durable, parked, requests, redirects, restarts>>

Performs == performed' = performed \cup {Current}

\* A tool that asks nobody; some cost money of their own.
Runs ==
  /\ pc = "calls"
  /\ Performs
  /\ aux' \in {aux, aux + 1}
  /\ Answers
  /\ UNCHANGED <<acted, approved>>

\* Unknown, disabled, blocked by its policy, denied by the operator (silence is a
\* denial), or it raised: the text says so.
Refuses ==
  /\ pc \in {"calls", "resolve"}
  /\ Answers
  /\ UNCHANGED <<performed, acted, approved, aux>>

\* A tool that asks, and the operator approves while the process waits.
RunsApproved ==
  /\ pc = "calls" /\ ~consent
  /\ approved' = approved \cup {Current}
  /\ Performs
  /\ acted' = acted \cup {Current}
  /\ Answers
  /\ UNCHANGED aux

\* A tool that asks, told not to.
RunsPreApproved ==
  /\ pc \in {"calls", "resolve"} /\ consent
  /\ Performs
  /\ acted' = acted \cup {Current}
  /\ Answers
  /\ UNCHANGED <<approved, aux>>

-----------------------------------------------------------------------------
(* Parking and resuming.                                                    *)

\* checkpoint.build, called while the call waits: the conversation by
\* reference.
Snapshot ==
  [path |-> path, proposed |-> proposed, answered |-> answered, cost |-> cost, call |-> Current]

\* ParkRequested ends the loop, and with it everything the snapshot has not.
Parks ==
  /\ pc = "calls" /\ ~consent
  /\ stored' = Snapshot
  /\ parked' = parked \cup {Current}
  /\ pc' = "parked"
  /\ round' = 0 /\ pending' = FALSE /\ answer' = FALSE /\ cost' = 0 /\ aux' = 0
  /\ todo' = <<>> /\ collected' = {} /\ consent' = FALSE
  /\ proposed' = {} /\ answered' = {}
  /\ UNCHANGED <<path, verdict, performed, acted, approved, requests, redirects, restarts>>

\* The operator decides, and the run is re-queued, unless the fence refuses it:
\* another provider, model or SDK than the snapshot's.
Decide ==
  /\ pc = "parked"
  /\ verdict' \in BOOLEAN
  /\ approved' = IF verdict' THEN approved \cup {stored.call} ELSE approved
  /\ pc' \in {"queued", "failed"}
  /\ UNCHANGED <<locals, conversation, path, stored, performed, acted, parked, requests, redirects, restarts>>

\* What was spent before the park.  Mutant: forgotten.
ForgottenCost == 0
RestoredCost == stored.cost

\* Mutant: a denial ends here.
HasCheckpointIfApproved == verdict /\ stored.path = path
HasCheckpoint == stored.path = path

Resume ==
  /\ pc = "queued" /\ HasCheckpoint
  /\ proposed' = stored.proposed /\ answered' = stored.answered
  /\ cost' = RestoredCost
  /\ consent' = verdict
  /\ pc' = "resolve"
  /\ UNCHANGED <<round, pending, answer, aux, todo, collected, durable, history>>

\* The provider has another request shape by now: _resume_state finds nothing
\* to resume, and the run starts from its prompt.
StartOver ==
  /\ pc = "queued" /\ stored.path # path
  /\ pc' = "round"
  /\ restarts' = restarts + 1
  /\ performed' = {} /\ acted' = {} /\ approved' = {} /\ parked' = {}
  /\ UNCHANGED <<locals, conversation, durable, requests, redirects>>

\* A restart with another OPENAI_BASE_URL.  The fence compares provider, model
\* and SDK, which are the same.
Redirect ==
  /\ redirects < MaxRedirects
  /\ pc \in {"parked", "queued"} /\ path \in Appending
  /\ path' \in Appending \ {path}
  /\ redirects' = redirects + 1
  /\ UNCHANGED <<pc, locals, conversation, stored, verdict, performed, acted, approved, parked,
                 requests, restarts>>

-----------------------------------------------------------------------------

Call == Runs \/ Refuses \/ RunsApproved \/ RunsPreApproved \/ Parks

Step ==
  \/ Start \/ Resume \/ StartOver
  \/ \E text \in BOOLEAN : Concludes(text)
  \/ ComesEmpty
  \/ \E text \in BOOLEAN, n \in 1..PerRound : Proposes(text, n)
  \/ Call

Next == Step \/ NoCredentials \/ RequestFails \/ Decide \/ Redirect

Spec == Init /\ [][Next]_vars

\* The loop goes on while it can: a request and a call return.  The operator need
\* not decide.
FairSpec == Spec /\ WF_vars(Step)

-----------------------------------------------------------------------------
(* Properties.                                                              *)

\* Whenever the model is asked, every call it has made has a result in the
\* conversation, except the others of a request that was cut short by a park:
\* those before the parked call on the paths that collect, those after it on all.
UnansweredWereCut ==
  pc \in {"round", "done"} =>
    \A c \in proposed \ answered :
      /\ c \notin parked
      /\ \E d \in parked : d[1] = c[1] /\ (path \in Appending => d[2] < c[2])

\* The budget is one budget across parks: a run is not given it anew when it
\* resumes.  A run that starts over has it anew.
BudgetIsCumulative == requests <= (restarts + 1) * (Budget + Overshoot)

\* An operator's consent is for the one call it was asked for: of the tools that
\* must ask, none runs in a resumed loop but for a call that was approved.
ConsentIsForOneCall == acted \subseteq approved

\* The loop ends, or the run stays parked on an operator: it is not resumed and
\* parked again for ever, because what a request costs is never forgotten.
RunSettles == <>[](pc \in {"done", "failed", "parked"})
=============================================================================
