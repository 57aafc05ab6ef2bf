------------------------------ MODULE Routing ------------------------------
(***************************************************************************)
(* How work reaches a provider: the router and the policy layers in front  *)
(* of it, the quota tracker it reads, the daily budget, and the errands    *)
(* that choose a provider without the router (session turns, planning      *)
(* turns, the ledger summary).  Time is relative: a cooldown and a         *)
(* deferral are ticks still to go, so runs recur without a bound.          *)
(***************************************************************************)
EXTENDS Integers, SequencesExt, FiniteSetsExt, Lists

CONSTANTS
  Listing,      \* every instance, in the order list_instances gives them
  Local,        \* instances on the operator's own machine
  PlanCli,      \* instances of a subscription command line
  Cost,         \* price of an instance per token
  Tags,         \* its capability tags
  Volatile,     \* instances the operator suspends or removes
  Wanted,       \* instances asked for by name
  Tasks, Policy,\* the tasks and the routing policy of each
  RunSlots,     \* a slot takes one run after the other
  DailyCap,     \* spend of a day at which the owner is over budget
  DayLength,    \* ticks of a day
  MaxCool,      \* longest cooldown
  NoProvider

Providers == ToSet(Listing)
Free == Local \cup PlanCli
Up == -1        \* healthy, no cooldown_until; 0 is a cooldown nobody has cleared yet

ASSUME RoutingAssumption ==
  /\ Listing \in Seq(Providers)
  /\ \A t \in Tasks : Policy[t].candidates \in Seq(Providers)
                      /\ Policy[t].overflow \in Providers \cup {NoProvider} /\ Policy[t].attempts \in Nat
  /\ Local \cup PlanCli \cup Volatile \cup Wanted \subseteq Providers
  /\ NoProvider \notin Providers
  /\ Cost \in [Providers -> Nat]
  /\ DailyCap \in Nat \ {0} /\ DayLength \in Nat \ {0} /\ MaxCool \in Nat \ {0}

VARIABLES
  cool,         \* QuotaTracker: what is left of each cooldown
  registry,     \* instances: on, off (suspended) or gone (removed)
  rotation,     \* _rr_counters, by the tuple of available candidates
  spent,        \* today's spend, counted up to DailyCap
  midnight,     \* ticks until the daily cap resets
  runs, errand,
  led           \* history: the candidate the last rotation put first

health == <<cool, rotation>>
budget == <<spent, midnight>>
routingVars == <<health, budget, registry, runs, errand, led>>

Keys == {Only(c, S) : c \in {Policy[t].candidates : t \in Tasks} \cup {Listing}, S \in SUBSET Providers}

Vacant == [pc |-> "idle", task |-> "", secret |-> FALSE, degraded |-> FALSE, plan |-> <<>>,
         over |-> NoProvider, next |-> 1, limited |-> FALSE, at |-> NoProvider, wait |-> 0]
NoErrand == [at |-> NoProvider, fenced |-> FALSE]

RunPcs == {"idle", "queued", "loaded", "gated", "trying", "streaming", "overflowing", "deferred"}
Run == [pc : RunPcs, task : Tasks \cup {""}, secret : BOOLEAN, degraded : BOOLEAN, plan : Seq(Providers),
        over : Providers \cup {NoProvider}, next : Nat \ {0}, limited : BOOLEAN,
        at : Providers \cup {NoProvider}, wait : 0..MaxCool + DayLength]
\* The types of the rows, the tracker and the counters.
RoutingTypeOK ==
  /\ cool \in [Providers -> Up..MaxCool]
  /\ registry \in [Providers -> {"on", "off", "gone"}]
  /\ rotation \in [Keys -> Nat]
  /\ spent \in 0..DailyCap /\ midnight \in 1..DayLength
  /\ runs \in [RunSlots -> Run] /\ \A r \in RunSlots : runs[r].next <= Len(runs[r].plan) + 1
  /\ errand \in [at : Providers \cup {NoProvider}, fenced : BOOLEAN]
  /\ led \in Providers \cup {NoProvider}

RoutingInit ==
  /\ cool = [p \in Providers |-> Up]
  /\ registry = [p \in Providers |-> "on"]
  /\ rotation = [k \in Keys |-> 0]
  /\ spent = 0 /\ midnight = DayLength
  /\ runs = [r \in RunSlots |-> Vacant] /\ errand = NoErrand /\ led = NoProvider

-----------------------------------------------------------------------------
(* The quota tracker. *)

Present == {p \in Providers : registry[p] # "gone"}
IsHealthy(p) == cool[p] <= 0
\* A health check clears the cooldowns it finds expired.
Checked(ps) == [p \in Providers |-> IF p \in ps /\ cool[p] = 0 THEN Up ELSE cool[p]]
Resets(ps) == {cool[p] : p \in {q \in ps : cool[q] # Up}}
Capped(n) == Min({n, DailyCap})
Spends(p) == spent' = Capped(spent + IF p \in Free THEN 0 ELSE Cost[p])

ListProviders ==
  /\ cool' = Checked(Present)
  /\ UNCHANGED <<registry, rotation, spent, midnight, runs, errand, led>>
ResetCooldown(p) ==
  /\ cool' = [cool EXCEPT ![p] = Up]
  /\ UNCHANGED <<registry, rotation, spent, midnight, runs, errand, led>>
\* The operator suspends or reactivates an instance; one that is gone is unknown to the endpoint.
Suspend(p) ==
  /\ p \in Present
  /\ \E s \in {"on", "off"} : registry' = [registry EXCEPT ![p] = s]
  /\ UNCHANGED <<health, budget, runs, errand, led>>
\* A custom provider is removed or disabled, or comes back with the suspension it left behind.
Redefine(p) ==
  /\ \E s \in IF p \in Present THEN {"gone"} ELSE {"on", "off"} : registry' = [registry EXCEPT ![p] = s]
  /\ UNCHANGED <<health, budget, runs, errand, led>>

Later(n) == IF n > 0 THEN n - 1 ELSE n
\* Time passes: cooldowns and deferrals run down, and at midnight the day's spend is another day's.
Tick ==
  /\ cool' = [p \in Providers |-> Later(cool[p])]
  /\ runs' = [r \in RunSlots |-> [runs[r] EXCEPT !.wait = Later(@)]]
  /\ midnight' = IF midnight = 1 THEN DayLength ELSE midnight - 1
  /\ spent' = IF midnight = 1 THEN 0 ELSE spent
  /\ UNCHANGED <<registry, rotation, errand, led>>

-----------------------------------------------------------------------------
(* resolve(): the sovereignty layer, the budget layer, the filter, the strategy. *)

LocalIds == Only(Listing, Local \cap Present)
Raw(run) == IF run.secret THEN LocalIds ELSE Policy[run.task].candidates
Kept(run) == IF run.degraded THEN Only(Raw(run), Free \cap Present) ELSE Raw(run)
Available(run) == Only(Kept(run), {p \in Providers : registry[p] = "on"})

Matches(pol, p) == pol.strategy = "capability" /\ pol.tags # {} => pol.tags \cap Tags[p] # {}
Matched(run) == Only(Available(run), {p \in Providers : Matches(Policy[run.task], p)})
HealthyOf(run) == Only(Matched(run), {p \in Providers : IsHealthy(p)})
\* A stable sort, by insertion.
Inserted(seq, p) ==
  Only(seq, {q \in Providers : Cost[q] <= Cost[p]}) \o <<p>>
    \o Only(seq, {q \in Providers : Cost[q] > Cost[p]})
Cheapest(seq) == FoldLeft(Inserted, <<>>, seq)
Upto(seq, n) == SubSeq(seq, 1, Min({n, Len(seq)}))
Rotated(seq, key) == LET i == rotation[key] % Len(seq) IN SubSeq(seq, i + 1, Len(seq)) \o SubSeq(seq, 1, i)
\* Mutant: the counter does not move.
RotationStuck(key, n) == [rotation EXCEPT ![key] = @ % n]
Rotation(key, n) == [rotation EXCEPT ![key] = (@ % n) + 1]

Ordered(run) ==
  LET ps == HealthyOf(run) IN
  CASE Policy[run.task].strategy = "fixed" -> Upto(Available(run), 1)
    [] Policy[run.task].strategy = "round_robin" -> IF ps = <<>> THEN ps ELSE Rotated(ps, Available(run))
    [] Policy[run.task].strategy = "cost_optimized" -> Cheapest(ps)
    [] OTHER -> ps
Capacity(pol) == IF pol.failover THEN pol.attempts ELSE 1
\* Mutant: the budget layer leaves the overflow provider in place.
OverflowUnfenced(run) == IF run.secret THEN NoProvider ELSE Policy[run.task].overflow
Overflow(run) == IF run.secret \/ run.degraded THEN NoProvider ELSE Policy[run.task].overflow

OverBudget(run) == run.degraded /\ Kept(run) = <<>> /\ (run.secret => LocalIds # <<>>)
\* Mutant: only the capability strategy tells cooling from absent.
CoolingUntagged(run) ==
  ~OverBudget(run) /\ Ordered(run) = <<>> /\ Matched(run) # <<>> /\ Policy[run.task].strategy = "capability"
CoolingOnly(run) == ~OverBudget(run) /\ Ordered(run) = <<>> /\ Matched(run) # <<>>

Defer(r, ticks) ==
  runs' = [runs EXCEPT ![r] = [Vacant EXCEPT !.pc = "deferred", !.task = runs[r].task, !.wait = ticks]]
End(r) == runs' = [runs EXCEPT ![r] = Vacant]

Plan(r) ==
  LET run == runs[r]  order == Ordered(run) IN
  /\ run.pc = "gated" /\ order # <<>>
  /\ runs' = [runs EXCEPT ![r].pc = "trying", ![r].over = Overflow(run),
                ![r].plan = Upto(order, Capacity(Policy[run.task]))]
  /\ IF Policy[run.task].strategy = "round_robin"
     THEN rotation' = Rotation(Available(run), Len(order)) /\ led' = order[1]
     ELSE UNCHANGED <<rotation, led>>
  /\ cool' = Checked(ToSet(Available(run)) \ IF Policy[run.task].strategy = "fixed" THEN {order[1]} ELSE {})
  /\ UNCHANGED <<registry, spent, midnight, errand>>

DeferForCooling(r) ==
  /\ runs[r].pc = "gated" /\ CoolingOnly(runs[r])
  /\ Defer(r, Min(Resets(ToSet(Matched(runs[r])))))
  /\ cool' = Checked(ToSet(Available(runs[r])))
  /\ UNCHANGED <<registry, rotation, spent, midnight, errand, led>>
DeferForBudget(r) ==
  /\ runs[r].pc = "gated" /\ OverBudget(runs[r])
  /\ Defer(r, midnight)
  /\ UNCHANGED <<health, budget, registry, errand, led>>
FailUnroutable(r) ==
  /\ runs[r].pc = "gated" /\ ~OverBudget(runs[r]) /\ ~CoolingOnly(runs[r]) /\ Ordered(runs[r]) = <<>>
  /\ End(r)
  /\ cool' = Checked(ToSet(Available(runs[r])))
  /\ UNCHANGED <<registry, rotation, spent, midnight, errand, led>>

-----------------------------------------------------------------------------
(* A run, from its enqueue to its end: the candidate loop keeps the plan it was given. *)

Others == <<health, budget, registry, errand, led>>
Submit(r) ==
  /\ runs[r].pc = "idle"
  /\ \E t \in Tasks : runs' = [runs EXCEPT ![r] = [Vacant EXCEPT !.pc = "queued", !.task = t]]
  /\ UNCHANGED Others
\* Claim and load: the task's sensitivity is whatever the operator has set by now.
LoadRun(r) ==
  /\ runs[r].pc = "queued"
  /\ \E secret \in BOOLEAN : runs' = [runs EXCEPT ![r].pc = "loaded", ![r].secret = secret]
  /\ UNCHANGED Others
CheckBudget(r) ==
  /\ runs[r].pc = "loaded"
  /\ runs' = [runs EXCEPT ![r].pc = "gated", ![r].degraded = (spent >= DailyCap)]
  /\ UNCHANGED Others

Try(r) ==
  LET run == runs[r] IN
  /\ run.pc = "trying" /\ run.next <= Len(run.plan)
  /\ runs' = [runs EXCEPT ![r] = IF run.plan[run.next] \in Present
                THEN [run EXCEPT !.pc = "streaming", !.at = run.plan[run.next]]
                ELSE [run EXCEPT !.next = @ + 1]]
  /\ UNCHANGED Others
Advances(r) == [runs EXCEPT ![r].pc = "trying", ![r].at = NoProvider, ![r].next = @ + 1]
Succeed(r) ==
  /\ runs[r].pc \in {"streaming", "overflowing"}
  /\ End(r) /\ Spends(runs[r].at)
  /\ UNCHANGED <<cool, registry, rotation, midnight, errand, led>>
\* The reset time is the provider's: it may lie in the past, and it replaces a later one.
RateLimit(r) ==
  /\ runs[r].pc = "streaming"
  /\ \E n \in 0..MaxCool : cool' = [cool EXCEPT ![runs[r].at] = n]
  /\ runs' = [Advances(r) EXCEPT ![r].limited = TRUE]
  /\ UNCHANGED <<registry, rotation, spent, midnight, errand, led>>
Err(r) ==
  /\ runs[r].pc = "streaming"
  /\ IF Policy[runs[r].task].failover THEN runs' = Advances(r) ELSE End(r)
  /\ UNCHANGED Others

Exhausted(r) == runs[r].pc = "trying" /\ runs[r].next > Len(runs[r].plan)
StartOverflow(r) ==
  /\ Exhausted(r) /\ runs[r].over \in Present
  /\ runs' = [runs EXCEPT ![r].pc = "overflowing", ![r].at = runs[r].over]
  /\ UNCHANGED Others
\* Without overflow, or after it failed: a rate limit defers, anything else is final here.
Settle(r) ==
  /\ \/ Exhausted(r) /\ runs[r].over \notin Present
     \/ runs[r].pc = "overflowing"
  /\ IF runs[r].limited /\ Resets(ToSet(runs[r].plan)) # {}
     THEN Defer(r, Min(Resets(ToSet(runs[r].plan)))) ELSE End(r)
  /\ UNCHANGED Others
\* Mutant: the sweep looks for times strictly before now.
IsDueBefore(run) == run.wait < 0
IsDue(run) == run.wait = 0
\* The sweep enqueues a replacement for a deferred run that is due.
TakeUp(r) ==
  /\ runs[r].pc = "deferred" /\ IsDue(runs[r])
  /\ runs' = [runs EXCEPT ![r] = [Vacant EXCEPT !.pc = "queued", !.task = runs[r].task]]
  /\ UNCHANGED Others

-----------------------------------------------------------------------------
(* Errands: one at a time is enough, they share nothing but the registry and the budget. *)

Rest == <<health, budget, registry, runs, led>>
IsLocal(p) == p \in Local \cap Present
Pinned(want, secret) == IF ~secret \/ IsLocal(want) THEN want ELSE LocalIds[1]
Refused(want, secret) == secret /\ ~IsLocal(want) /\ LocalIds = <<>>
Start(p, fenced) ==
  /\ errand = NoErrand
  /\ errand' = [at |-> p, fenced |-> fenced]
  /\ UNCHANGED Rest

CreateTurn(want, secret) ==
  /\ ~Refused(want, secret) /\ Pinned(want, secret) \in Present
  /\ Start(Pinned(want, secret), secret)
\* A planning turn is told the project's sources; a confidential one only if the planner is local.
CreatePlanning(want, secret, source) ==
  /\ ~Refused(want, secret)
  /\ LET p == Pinned(want, secret) IN Start(p, secret \/ (source /\ IsLocal(p)))
Summarize(current, secret) ==
  /\ IF secret THEN LocalIds # <<>> /\ Start(LocalIds[1], TRUE)
     ELSE current \in Present /\ Start(current, FALSE)
\* The executor is looked up when the errand runs; one that is gone by then ends it.
Return ==
  /\ errand # NoErrand /\ errand' = NoErrand
  /\ IF errand.at \in Present THEN Spends(errand.at) ELSE UNCHANGED spent
  /\ UNCHANGED <<cool, registry, rotation, midnight, runs, led>>

-----------------------------------------------------------------------------
Step(r) ==
  \/ LoadRun(r) \/ CheckBudget(r)
  \/ Plan(r) \/ DeferForCooling(r) \/ DeferForBudget(r) \/ FailUnroutable(r)
  \/ Try(r) \/ Succeed(r) \/ RateLimit(r) \/ Err(r) \/ StartOverflow(r) \/ Settle(r)
RoutingNext ==
  \/ ListProviders \/ Tick
  \/ \E p \in Providers : ResetCooldown(p)
  \/ \E p \in Volatile : Suspend(p) \/ Redefine(p)
  \/ \E r \in RunSlots : Submit(r) \/ Step(r) \/ TakeUp(r)
  \/ \E p \in Wanted, secret \in BOOLEAN :
       CreateTurn(p, secret) \/ Summarize(p, secret) \/ \E s \in BOOLEAN : CreatePlanning(p, secret, s)
  \/ Return

RoutingSpec == RoutingInit /\ [][RoutingNext]_routingVars
\* Time passes and the scheduler sweeps; the operator, the providers and new work owe nothing.
RoutingFairSpec == RoutingSpec /\ WF_routingVars(Tick) /\ \A r \in RunSlots : WF_routingVars(TakeUp(r))

-----------------------------------------------------------------------------
(* Properties *)

\* What is confidential goes to an instance of the operator's own and what started over budget
\* goes to a free one, whatever the failover, the overflow or the registry did since the plan.
FencesHold ==
  /\ \A r \in RunSlots : runs[r].pc \in {"streaming", "overflowing"} =>
       (runs[r].secret => runs[r].at \in Local) /\ (runs[r].degraded => runs[r].at \in Free)
  /\ errand.fenced => errand.at \in Local

Serves(run, p) ==
  registry[p] = "on" /\ Matches(Policy[run.task], p)
    /\ IF run.secret THEN p \in Local ELSE p \in ToSet(Policy[run.task].candidates)
\* A run under its budget is failed as unroutable only if no instance could serve it, now or
\* after any cooldown: what time can mend is deferred.
UnroutableIsConfiguration ==
  [][\A r \in RunSlots : runs[r].pc = "gated" /\ runs'[r].pc = "idle" /\ ~runs[r].degraded =>
       \A p \in Providers : ~Serves(runs[r], p)]_routingVars

\* A deferral ends: whatever happens to the cooldown it was taken from, the run is queued again.
DeferredReturns == \A r \in RunSlots : runs[r].pc = "deferred" ~> runs[r].pc = "queued"

Rotates == \E r \in RunSlots : runs[r].pc = "trying" /\ ~runs[r].secret /\ ~runs[r].degraded
                           /\ Policy[runs[r].task].strategy = "round_robin"
Calm == spent < DailyCap /\ \A p \in Providers : IsHealthy(p) /\ registry[p] = "on"
Spread == UNION {ToSet(Policy[t].candidates) : t \in {u \in Tasks : Policy[u].strategy = "round_robin"}}
\* Once nothing cools down, is suspended or over budget, the rotation puts every candidate first
\* again and again, however the runs that share the counter interleave.
RotationIsFair == <>[]Calm /\ []<>Rotates /\ []<>~Rotates => \A p \in Spread : []<>(led = p)
=============================================================================
