---------------------------- MODULE CandidateLoop -----------------------------
(***************************************************************************)
(* One run between its claim and its last status write: the candidate      *)
(* chain with failover, retries and overflow of app/orchestrator.py        *)
(* (_do_execute from the routing on), seen through the row it leaves       *)
(* behind, the quota tracker it feeds and the conversation a parked run    *)
(* stores and is resumed on.                                               *)
(*                                                                         *)
(* The gap between the checkpoint and the `parked` commit, the claim and   *)
(* the requests of operators are module RunLifecycle; here a park and a    *)
(* decision are one step each, and the restart includes the boot's         *)
(* reconciliation.                                                         *)
(***************************************************************************)
EXTENDS Naturals, Sequences, FiniteSets, Functions

CONSTANTS
  Providers,    \* provider instances the router may plan
  Path,         \* the executor loop of each: its message format, or "cli"
  Overflows,    \* what a task's overflow_to may be
  NoProvider,   \* NULL
  MaxRetries,   \* max_run_retries
  MaxAsks,      \* bound: approvals the run asks for
  MaxRestarts   \* bound: restarts of the process

ASSUME ConstantsAssumption ==
  /\ NoProvider \notin Providers
  /\ DOMAIN Path = Providers
  /\ Overflows \subseteq Providers \cup {NoProvider}
  /\ MaxRetries \in Nat /\ MaxAsks \in Nat /\ MaxRestarts \in Nat

VARIABLES
  failover, overflow,  \* the task's routing policy
  \* --- the row of the run and its approvals ---
  status, provider, wake, retries, log,
  asks, wroteBy,       \* approvals so far, and whose conversation each stores
  \* --- process memory ---
  cooling,             \* quota_tracker: providers with a cooldown_until
  ctx,                 \* _RESUME_CONTEXT
  pc, plan, pos, attempts, limited, tried, extra,
  \* --- history, read by properties only ---
  restarts, resumes, passes, invoked, approved, performed, overflowed

policy   == <<failover, overflow>>
row      == <<status, provider, wake, retries, log>>
parks    == <<asks, wroteBy>>
loop     == <<pc, plan, pos, attempts, limited, tried, extra>>
history  == <<restarts, resumes, passes, invoked, approved, performed, overflowed>>
vars == <<policy, row, parks, cooling, ctx, loop, history>>

Over == {"succeeded", "failed", "deferred"}
Outcomes == {"pending", "unavailable", "success", "rate_limited", "error", "parked"}
LoopPcs == {"trying", "streaming", "overflow", "exhausted", "backoff"}
NoCtx == [ask |-> 0, ok |-> FALSE]
Asks == 1..MaxAsks

\* What the router plans: distinct instances, one if failover is off.
Plans == {s \in UNION {[1..n -> Providers] : n \in 1..Cardinality(Providers)} :
            IsInjective(s)}

MaxAttempts == (1 + MaxRetries) * Cardinality(Providers)
Logs == UNION {[1..n -> [provider : Providers, outcome : Outcomes]] : n \in 0..MaxAttempts}

TypeOK ==
  /\ failover \in BOOLEAN /\ overflow \in Overflows
  /\ status \in {"queued", "planning", "running", "parked"} \cup Over
  /\ provider \in Providers \cup {NoProvider}
  /\ wake \in BOOLEAN
  /\ retries \in 0..MaxRetries
  /\ log \in Logs /\ attempts \in Logs
  /\ asks \in 0..MaxAsks
  /\ wroteBy \in [Asks -> Providers \cup {NoProvider}]
  /\ cooling \subseteq Providers
  /\ ctx \in [ask : 0..MaxAsks, ok : BOOLEAN]
  /\ extra \in [ask : 0..MaxAsks, ok : BOOLEAN]
  /\ pc \in LoopPcs \cup {"off", "post"}
  /\ plan \in Plans \cup {<<>>}
  /\ pos \in 0..Cardinality(Providers) + 1
  /\ limited \in BOOLEAN /\ tried \in BOOLEAN
  /\ restarts \in 0..MaxRestarts
  /\ resumes \in Nat /\ passes \in Nat
  /\ invoked \in BOOLEAN /\ overflowed \in BOOLEAN
  /\ approved \subseteq Asks
  /\ performed \in [Asks -> SUBSET Providers]

Init ==
  /\ failover \in BOOLEAN /\ overflow \in Overflows
  /\ status = "queued" /\ provider = NoProvider /\ wake = FALSE /\ retries = 0
  /\ log = <<>>
  /\ asks = 0 /\ wroteBy = [a \in Asks |-> NoProvider]
  /\ cooling = {}
  /\ ctx = NoCtx
  /\ pc = "off" /\ plan = <<>> /\ pos = 0 /\ attempts = <<>>
  /\ limited = FALSE /\ tried = FALSE /\ extra = NoCtx
  /\ restarts = 0 /\ resumes = 0 /\ passes = 0
  /\ invoked = FALSE /\ overflowed = FALSE
  /\ approved = {} /\ performed = [a \in Asks |-> {}]

-----------------------------------------------------------------------------
(* Leaving the loop.                                                        *)

\* The coroutine is gone, and its locals with it.
Leave ==
  /\ pc' = "off" /\ plan' = <<>> /\ pos' = 0 /\ attempts' = <<>>
  /\ limited' = FALSE /\ tried' = FALSE /\ extra' = NoCtx

\* _fail; record_attempts comes first wherever the loop has something to say.
Fail(entries) ==
  /\ status' = "failed"
  /\ log' = entries
  /\ UNCHANGED <<provider, wake, retries>>
  /\ Leave

\* _mark_deferred.
Defer(entries) ==
  /\ status' = "deferred"
  /\ wake' = TRUE
  /\ log' = entries
  /\ UNCHANGED <<provider, retries>>
  /\ Leave

-----------------------------------------------------------------------------
(* Routing.                                                                 *)

\* A pass over the chain: _run_candidates with fresh locals.
StartPass ==
  /\ pc' = "trying" /\ pos' = 1
  /\ limited' = FALSE /\ tried' = FALSE
  /\ passes' = passes + 1
  /\ UNCHANGED <<restarts, resumes, invoked, approved, performed, overflowed>>

\* A plan holds healthy instances, or the one a `fixed` policy names.  The
\* resume context is popped once the plan is known.
Route ==
  /\ status = "queued" /\ pc = "off"
  /\ status' = "planning"
  /\ \E p \in Plans :
       /\ Len(p) = 1 \/ (failover /\ Range(p) \cap cooling = {})
       /\ plan' = p
  /\ extra' = ctx /\ ctx' = NoCtx
  /\ attempts' = <<>>
  /\ StartPass
  /\ UNCHANGED <<policy, provider, wake, retries, log, parks, cooling>>

RouteUnroutable ==
  /\ status = "queued" /\ pc = "off"
  /\ Fail(log)
  /\ UNCHANGED <<policy, parks, cooling, ctx, history>>

\* All cooling, or the daily budget spent: both come with a time.
RouteDefers ==
  /\ status = "queued" /\ pc = "off"
  /\ Defer(log)
  /\ UNCHANGED <<policy, parks, cooling, ctx, history>>

-----------------------------------------------------------------------------
(* The candidate chain.                                                     *)

\* The attempt in progress, or the last one made: skipped instances are not one.
Dispatched == {i \in DOMAIN attempts : attempts[i].outcome # "unavailable"}
Final(outcome) ==
  [i \in DOMAIN attempts |->
     IF i \in Dispatched /\ \A j \in Dispatched : j <= i
     THEN [attempts[i] EXCEPT !.outcome = outcome] ELSE attempts[i]]

Unavailable ==
  /\ pc = "trying" /\ pos <= Len(plan)
  /\ attempts' = Append(attempts, [provider |-> plan[pos], outcome |-> "unavailable"])
  /\ pos' = pos + 1
  /\ UNCHANGED <<policy, row, parks, cooling, ctx, pc, plan, limited, tried, extra, history>>

\* The executor starts: on the stored conversation if its loop speaks that
\* format, performing the call if it was approved, and on the prompt otherwise.
Invoke(p) ==
  /\ invoked' = TRUE
  /\ performed' = IF extra.ok /\ Path[p] = Path[wroteBy[extra.ask]]
                  THEN [performed EXCEPT ![extra.ask] = @ \cup {p}] ELSE performed
  /\ UNCHANGED <<restarts, resumes, passes, approved, overflowed>>

\* Mutant: the executor is invoked before the row is committed.
DispatchUncommitted ==
  /\ pc = "trying" /\ pos <= Len(plan)
  /\ attempts' = Append(attempts, [provider |-> plan[pos], outcome |-> "pending"])
  /\ Invoke(plan[pos])
  /\ pc' = "streaming" /\ tried' = TRUE
  /\ UNCHANGED <<policy, row, parks, cooling, ctx, plan, pos, limited, extra>>

\* `running` and the provider are committed before the executor is invoked.
Dispatch ==
  /\ pc = "trying" /\ pos <= Len(plan)
  /\ status' = "running"
  /\ provider' = plan[pos]
  /\ attempts' = Append(attempts, [provider |-> plan[pos], outcome |-> "pending"])
  /\ log' = attempts'
  /\ Invoke(plan[pos])
  /\ pc' = "streaming" /\ tried' = TRUE
  /\ UNCHANGED <<policy, wake, retries, parks, cooling, ctx, plan, pos, limited, extra>>

\* The `parked` event ends the loop; nothing fails over.
Park(writer) ==
  /\ asks < MaxAsks /\ Path[writer] # "cli"
  /\ asks' = asks + 1
  /\ wroteBy' = [wroteBy EXCEPT ![asks + 1] = writer]
  /\ status' = "parked"
  /\ log' = Final("parked")
  /\ UNCHANGED <<policy, provider, wake, retries, cooling, ctx, history>>
  /\ Leave

StreamParks == pc = "streaming" /\ Park(plan[pos])

\* Mutant: the finished attempt is not written back to the row.
ResultUnrecorded ==
  /\ pc = "streaming"
  /\ pc' = "post"
  /\ UNCHANGED <<policy, row, parks, cooling, ctx, plan, pos, attempts, limited, tried, extra, history>>

StreamResult ==
  /\ pc = "streaming"
  /\ attempts' = Final("success")
  /\ log' = attempts'
  /\ pc' = "post"
  /\ UNCHANGED <<policy, status, provider, wake, retries, parks, cooling, ctx, plan, pos,
                 limited, tried, extra, history>>

\* A rate limit starts a cooldown and goes on to the next candidate.
StreamRateLimited ==
  /\ pc = "streaming"
  /\ cooling' = cooling \cup {plan[pos]}
  /\ attempts' = Final("rate_limited")
  /\ log' = attempts'
  /\ limited' = TRUE
  /\ pc' = "trying" /\ pos' = pos + 1
  /\ UNCHANGED <<policy, status, provider, wake, retries, parks, ctx, plan, tried, extra, history>>

\* An error event, an exception, or a stream that ended with nothing to show.
StreamErrors ==
  /\ pc = "streaming" /\ failover
  /\ attempts' = Final("error")
  /\ log' = attempts'
  /\ pc' = "trying" /\ pos' = pos + 1
  /\ UNCHANGED <<policy, status, provider, wake, retries, parks, cooling, ctx, plan, limited,
                 tried, extra, history>>

HardFail ==
  /\ pc = "streaming" /\ ~failover
  /\ Fail(Final("error"))
  /\ UNCHANGED <<policy, parks, cooling, ctx, history>>

-----------------------------------------------------------------------------
(* Overflow: outside the chain, and outside what the row records.           *)

ChainIsOver == pc = "trying" /\ pos > Len(plan)

StartOverflow ==
  /\ ChainIsOver /\ overflow # NoProvider
  /\ Invoke(overflow)
  /\ pc' = "overflow"
  /\ UNCHANGED <<policy, row, parks, cooling, ctx, plan, pos, attempts, limited, tried, extra>>

NoOverflow ==
  /\ ChainIsOver
  /\ pc' = "exhausted"
  /\ UNCHANGED <<policy, row, parks, cooling, ctx, plan, pos, attempts, limited, tried, extra,
                 history>>

\* The last attempt of the chain is what gets marked parked.
OverflowParks == pc = "overflow" /\ tried /\ Park(overflow)

OverflowResult ==
  /\ pc = "overflow"
  /\ overflowed' = TRUE
  /\ pc' = "post"
  /\ UNCHANGED <<policy, row, parks, cooling, ctx, plan, pos, attempts, limited, tried, extra,
                 restarts, resumes, passes, invoked, approved, performed>>

\* Error events are not looked at: the stream just ends.
OverflowEnds ==
  /\ pc = "overflow"
  /\ pc' = "exhausted"
  /\ UNCHANGED <<policy, row, parks, cooling, ctx, plan, pos, attempts, limited, tried, extra,
                 history>>

\* An exception of the executor, or of marking an attempt that does not exist,
\* ends the coroutine; execute_run fails the run.
OverflowRaises ==
  /\ pc = "overflow"
  /\ Fail(log)
  /\ UNCHANGED <<policy, parks, cooling, ctx, history>>

-----------------------------------------------------------------------------
(* The retry wrapper.                                                       *)

\* Rate limits are not retried: wait for the earliest reset, if one is known
\* still, and fail otherwise.
Cool ==
  /\ pc = "exhausted" /\ limited
  /\ \/ Range(plan) \cap cooling # {} /\ Defer(attempts)
     \/ Range(plan) \cap cooling = {} /\ Fail(attempts)
  /\ UNCHANGED <<policy, parks, cooling, ctx, history>>

\* Mutant: the retry is counted in the coroutine, not on the row.
RetryUncounted ==
  /\ pc = "exhausted" /\ ~limited /\ retries < MaxRetries
  /\ log' = attempts
  /\ pc' = "backoff"
  /\ UNCHANGED <<policy, status, provider, wake, retries, parks, cooling, ctx, plan, pos,
                 attempts, limited, tried, extra, history>>

Retry ==
  /\ pc = "exhausted" /\ ~limited /\ retries < MaxRetries
  /\ retries' = retries + 1
  /\ log' = attempts
  /\ pc' = "backoff"
  /\ UNCHANGED <<policy, status, provider, wake, parks, cooling, ctx, plan, pos, attempts,
                 limited, tried, extra, history>>

\* The backoff is over: the same plan, the same attempts log, the same context.
RunAgain ==
  /\ pc = "backoff"
  /\ StartPass
  /\ UNCHANGED <<policy, row, parks, cooling, ctx, plan, attempts, extra>>

RetriesExhausted ==
  /\ pc = "exhausted" /\ ~limited /\ retries = MaxRetries
  /\ Fail(attempts)
  /\ UNCHANGED <<policy, parks, cooling, ctx, history>>

\* Where asyncio.timeout can expire.  Mutant: overflow is left out.
ClockSparesOverflow == {"trying", "streaming", "exhausted", "backoff"}
ClockedPcs == LoopPcs

WallClock ==
  /\ pc \in ClockedPcs
  /\ Fail(attempts)
  /\ UNCHANGED <<policy, parks, cooling, ctx, history>>

\* Post-processing: outputs, then `succeeded`; or it raises.
Finish ==
  /\ pc = "post"
  /\ status' = "succeeded"
  /\ log' = attempts
  /\ UNCHANGED <<provider, wake, retries>>
  /\ Leave
  /\ UNCHANGED <<policy, parks, cooling, ctx, history>>

FinishRaises ==
  /\ pc = "post"
  /\ Fail(log)
  /\ UNCHANGED <<policy, parks, cooling, ctx, history>>

-----------------------------------------------------------------------------
(* What happens around the loop.                                            *)

\* verify_fence compares the conversation with the provider on the row.
FencePasses == wroteBy[asks] = provider

\* The operator decides and resume_parked_run accepts the checkpoint.
Decide ==
  /\ status = "parked" /\ FencePasses
  /\ status' = "queued"
  /\ \E ok \in BOOLEAN :
       /\ ctx' = [ask |-> asks, ok |-> ok]
       /\ approved' = IF ok THEN approved \cup {asks} ELSE approved
  /\ resumes' = resumes + 1
  /\ UNCHANGED <<policy, provider, wake, retries, log, parks, cooling, loop, restarts, passes,
                 invoked, performed, overflowed>>

\* It refuses: another provider's conversation, or another build's.
FenceRefuses ==
  /\ status = "parked"
  /\ status' = "failed"
  /\ UNCHANGED <<policy, provider, wake, retries, log, parks, cooling, ctx, loop, history>>

\* A cooldown runs out, noticed by any other run's health check.
CooldownExpires ==
  /\ \E p \in cooling : cooling' = cooling \ {p}
  /\ UNCHANGED <<policy, row, parks, ctx, loop, history>>

\* The process restarts; classify_orphan judges the row by status and provider.
Restart ==
  /\ restarts < MaxRestarts
  /\ status \notin Over
  /\ restarts' = restarts + 1
  /\ status' = CASE status = "running"                              -> "failed"
                 [] status = "planning" /\ provider # NoProvider     -> "failed"
                 [] status = "planning" /\ provider = NoProvider     -> "queued"
                 [] OTHER                                           -> status
  /\ cooling' = {} /\ ctx' = NoCtx
  /\ Leave
  /\ UNCHANGED <<policy, provider, wake, retries, log, parks, resumes, passes, invoked,
                 approved, performed, overflowed>>

-----------------------------------------------------------------------------

ChainStep ==
  \/ Unavailable \/ Dispatch
  \/ StreamParks \/ StreamResult \/ StreamRateLimited \/ StreamErrors \/ HardFail
OverflowStep ==
  \/ StartOverflow \/ NoOverflow
  \/ OverflowParks \/ OverflowResult \/ OverflowEnds \/ OverflowRaises
RetryStep == Cool \/ Retry \/ RunAgain \/ RetriesExhausted \/ WallClock

Next ==
  \/ Route \/ RouteUnroutable \/ RouteDefers
  \/ ChainStep \/ OverflowStep \/ RetryStep
  \/ Finish \/ FinishRaises
  \/ Decide \/ FenceRefuses \/ CooldownExpires \/ Restart

Spec == Init /\ [][Next]_vars

\* A coroutine that can go on does; the wall clock runs out on a provider that
\* does not answer.  Neither an answer nor a decision is promised.
FairSpec ==
  /\ Spec
  /\ WF_vars(Route \/ RouteUnroutable \/ RouteDefers)
  /\ WF_vars(WallClock)
  /\ WF_vars(Finish \/ FinishRaises)

-----------------------------------------------------------------------------
(* Properties.                                                              *)

\* The chain is driven again only for a counted retry, a resume or a restart:
\* however often a run parks, it gets max_run_retries retries in all.
PassesAreCounted ==
  /\ retries <= MaxRetries
  /\ passes <= 1 + retries + resumes + restarts

\* A run that ended its own way has no attempt left open on its row, and one
\* that succeeded within the chain says which attempt did it.
AttemptsAreClosed ==
  /\ status \in {"succeeded", "parked", "deferred"} =>
       \A i \in DOMAIN log : log[i].outcome # "pending"
  /\ status = "succeeded" /\ ~overflowed =>
       log # <<>> /\ log[Len(log)] = [provider |-> provider, outcome |-> "success"]

\* No executor acts behind the row's back.  Through failovers, retries and
\* overflow the call of a parked run is performed only if that request was
\* approved; and without an overflow provider, whose executor the row never
\* mentions, a row that reconciliation takes for never dispatched, and would
\* start again, has met no executor.
NothingBehindTheRow ==
  /\ \A a \in Asks : performed[a] # {} => a \in approved
  /\ overflow = NoProvider /\ status \in {"queued", "planning"} /\ provider = NoProvider
       => ~invoked

\* Once enqueued or resumed, the run is over, deferred or parked in bounded
\* time whatever its providers do; and one that is deferred has a time to wake
\* at, cooldowns expiring under the loop included, so that the sweep cannot
\* overlook it.
LoopEnds ==
  status = "queued" ~> /\ status \in Over \cup {"parked"}
                       /\ status = "deferred" => wake
=============================================================================
