----------------------------- MODULE RunLifecycle -----------------------------
(***************************************************************************)
(* The life of a run in the backend process: enqueue, the atomic claim,    *)
(* dispatch to a provider, the approval that parks a run, the operator's   *)
(* decide and cancel requests, the wall clock, a crash and the boot-time   *)
(* reconciliation.  It models app/orchestrator.py, app/approvals.py and    *)
(* the decide / cancel handlers of app/main.py.                            *)
(*                                                                         *)
(* An action is one stretch of code between two awaits whose effect others *)
(* can see: a committed row, or a synchronous change of process memory.    *)
(* An ORM object is read in one step and written in a later one, and the   *)
(* write does not look at the row again; so do the handlers here.          *)
(*                                                                         *)
(* Drivers are the execute_run coroutines, Ops the HTTP requests of        *)
(* operators.  What a provider's stream answers is left open (the          *)
(* candidate loop itself is module CandidateLoop); the rows of one         *)
(* process's database and its memory are kept apart, because a crash       *)
(* erases the second and not the first.                                    *)
(***************************************************************************)
EXTENDS Naturals, FiniteSets

CONSTANTS
  Runs,        \* rows of the runs table
  Drivers,     \* execute_run coroutines of the process
  Ops,         \* operator requests in flight at the same time
  SkipRuns,    \* scheduled runs whose task says recovery_policy=next_occurrence
  NoRun,       \* the job of an idle driver
  MaxAsks,     \* bound: approval requests made by all runs
  MaxCrashes   \* bound: process restarts

ASSUME ConstantsAssumption ==
  /\ SkipRuns \subseteq Runs
  /\ NoRun \notin Runs
  /\ MaxAsks \in Nat
  /\ MaxCrashes \in Nat

Asks == 1..MaxAsks

VARIABLES
  \* --- the database: survives a crash ---
  status,      \* Run.status
  startedAt,   \* Run.started_at is set
  epochOf,     \* Run.runtime_epoch, 0 for NULL
  provider,    \* Run.provider is set
  asks,        \* approval ids given out so far
  askRun,      \* Approval.run_id
  askStatus,   \* Approval.status
  checkpoint,  \* Approval.checkpoint is set
  \* --- process memory: lost in a crash ---
  up,          \* is the process down, in its lifespan boot, or serving
  epoch,       \* RUNTIME_EPOCH of the current process
  pc,          \* where each execute_run coroutine stands
  job,         \* the run it was spawned for
  ask,         \* the approval its approver opened, 0 for none
  registered,  \* coroutines held in _cancel_handles
  future,      \* approvals._PENDING and the state of its Futures
  resumeCtx,   \* _RESUME_CONTEXT
  opPc, opRun, opAsk, opOk,   \* operator requests: step, run, approval, verdict
  \* --- history, read by properties only ---
  acted,       \* <<approval, verdict>> pairs a stream has acted on
  consented,   \* approvals an operator said yes to
  fresh        \* how often a run was dispatched from its prompt

runRows  == <<status, startedAt, epochOf, provider>>
askRows  == <<asks, askRun, askStatus, checkpoint>>
drivers  == <<pc, job, ask, registered>>
requests == <<opPc, opRun, opAsk, opOk>>
process  == <<up, epoch>>
history  == <<acted, consented, fresh>>
vars == <<runRows, askRows, drivers, future, resumeCtx, requests, process, history>>

Finished == {"succeeded", "failed", "cancelled"}

\* _TERMINAL_RUN_STATUSES: `deferred` belongs to the scheduler's sweep, and
\* `parked` is not in it.
Terminal == Finished \cup {"deferred"}

Statuses == {"absent", "queued", "planning", "running", "parked"} \cup Terminal

\* A coroutine that owns the run: past the claim, before its last status write.
DrivingPcs == {"planning", "streaming", "asked", "waiting", "parking", "finishing"}
DriverPcs  == DrivingPcs \cup {"idle", "ready", "parkTail", "tail"}
OpPcs == {"idle", "read", "settle", "settleLive", "resume", "resumeWrite",
          "cancelWrite"}

NoCtx    == [ask |-> 0, ok |-> FALSE]

\* Mutant: the reason of a denial is stored as its status.
VerdictNamesReason(ok) == IF ok THEN "approved" ELSE "timeout"
Verdict(ok) == IF ok THEN "approved" ELSE "denied"

Driving(d, r) == job[d] = r /\ pc[d] \in DrivingPcs

AsksOf(r) == {a \in Asks : a <= asks /\ askRun[a] = r}

\* The tool-lane approval a resume looks at: the newest row of the run, 0 when
\* there is none.
IsLatest(a, r) == a \in AsksOf(r) \cup {0} /\ \A b \in AsksOf(r) : b <= a

Types ==
  /\ status \in [Runs -> Statuses]
  /\ startedAt \in [Runs -> BOOLEAN]
  /\ epochOf \in [Runs -> Nat]
  /\ provider \in [Runs -> BOOLEAN]
  /\ asks \in 0..MaxAsks
  /\ askRun \in [Asks -> Runs \cup {NoRun}]
  /\ askStatus \in [Asks -> {"none", "pending", "approved", "denied", "expired"}]
  /\ checkpoint \in [Asks -> BOOLEAN]
  /\ up \in {"down", "booting", "up"}
  /\ epoch \in Nat
  /\ pc \in [Drivers -> DriverPcs]
  /\ job \in [Drivers -> Runs \cup {NoRun}]
  /\ ask \in [Drivers -> 0..MaxAsks]
  /\ registered \in SUBSET Drivers
  /\ future \in [Asks -> {"none", "open", "yes", "no"}]
  /\ resumeCtx \in [Runs -> [ask : 0..MaxAsks, ok : BOOLEAN]]
  /\ opPc \in [Ops -> OpPcs]
  /\ opRun \in [Ops -> Runs \cup {NoRun}]
  /\ opAsk \in [Ops -> 0..MaxAsks]
  /\ opOk \in [Ops -> BOOLEAN]
  /\ acted \in SUBSET ((0..MaxAsks) \X BOOLEAN)
  /\ consented \in SUBSET (0..MaxAsks)
  /\ fresh \in [Runs -> Nat]

\* A coroutine, a request and an approval row stand for a run from the moment
\* they exist.
Assigned ==
  /\ \A d \in Drivers : pc[d] = "idle" <=> job[d] = NoRun
  /\ \A o \in Ops : opPc[o] = "idle" <=> opRun[o] = NoRun
  /\ \A a \in Asks : /\ a <= asks <=> askRun[a] # NoRun
                     /\ a <= asks <=> askStatus[a] # "none"
  /\ \A o \in Ops : opAsk[o] <= asks

TypeOK == Types /\ Assigned

Init ==
  /\ status = [r \in Runs |-> "absent"]
  /\ startedAt = [r \in Runs |-> FALSE]
  /\ epochOf = [r \in Runs |-> 0]
  /\ provider = [r \in Runs |-> FALSE]
  /\ asks = 0
  /\ askRun = [a \in Asks |-> NoRun]
  /\ askStatus = [a \in Asks |-> "none"]
  /\ checkpoint = [a \in Asks |-> FALSE]
  /\ up = "up"
  /\ epoch = 1
  /\ pc = [d \in Drivers |-> "idle"]
  /\ job = [d \in Drivers |-> NoRun]
  /\ ask = [d \in Drivers |-> 0]
  /\ registered = {}
  /\ future = [a \in Asks |-> "none"]
  /\ resumeCtx = [r \in Runs |-> NoCtx]
  /\ opPc = [o \in Ops |-> "idle"]
  /\ opRun = [o \in Ops |-> NoRun]
  /\ opAsk = [o \in Ops |-> 0]
  /\ opOk = [o \in Ops |-> FALSE]
  /\ acted = {}
  /\ consented = {}
  /\ fresh = [r \in Runs |-> 0]

-----------------------------------------------------------------------------
(* The driver: one execute_run coroutine.                                  *)

Goto(d, next) ==
  /\ pc' = [pc EXCEPT ![d] = next]
  /\ UNCHANGED <<job, ask, registered>>

\* The coroutine is over; its done-callback drops the cancel handle.
Retire(d) ==
  /\ pc' = [pc EXCEPT ![d] = "idle"]
  /\ job' = [job EXCEPT ![d] = NoRun]
  /\ ask' = [ask EXCEPT ![d] = 0]
  /\ registered' = registered \ {d}

SetStatus(r, s) ==
  /\ status' = [status EXCEPT ![r] = s]
  /\ UNCHANGED <<startedAt, epochOf, provider>>

\* enqueue_run: a queued row, a coroutine for it and its cancel handle.  A
\* crash between the commit and create_task leaves what a crash right after
\* leaves, so the two are one step.
Enqueue(r, d) ==
  /\ up = "up"
  /\ status[r] = "absent"
  /\ pc[d] = "idle"
  /\ SetStatus(r, "queued")
  /\ pc' = [pc EXCEPT ![d] = "ready"]
  /\ job' = [job EXCEPT ![d] = r]
  /\ registered' = registered \cup {d}
  /\ UNCHANGED <<askRows, ask, future, resumeCtx, requests, process, history>>

\* _do_execute: UPDATE ... WHERE status = 'queued', stamping the owner.
Claim(d) ==
  /\ pc[d] = "ready"
  /\ status[job[d]] = "queued"
  /\ status' = [status EXCEPT ![job[d]] = "planning"]
  /\ startedAt' = [startedAt EXCEPT ![job[d]] = TRUE]
  /\ epochOf' = [epochOf EXCEPT ![job[d]] = epoch]
  /\ UNCHANGED provider
  /\ Goto(d, "planning")
  /\ UNCHANGED <<askRows, future, resumeCtx, requests, process, history>>

\* The UPDATE matched no row: somebody else has it, or it is over.
ClaimRefused(d) ==
  /\ pc[d] = "ready"
  /\ status[job[d]] # "queued"
  /\ Retire(d)
  /\ UNCHANGED <<runRows, askRows, future, resumeCtx, requests, process, history>>

\* Unroutable fails the run, a cooling fleet or a spent budget defers it.
RouteEnds(d) ==
  /\ pc[d] = "planning"
  /\ \E s \in {"failed", "deferred"} : SetStatus(job[d], s)
  /\ Goto(d, "tail")
  /\ UNCHANGED <<askRows, future, resumeCtx, requests, process, history>>

\* The resume context is popped, the row says `running`, and the executor
\* starts: on the stored conversation, performing the decided call first, or
\* on the prompt.
Dispatch(d) ==
  LET r == job[d] IN
  /\ pc[d] = "planning"
  /\ status' = [status EXCEPT ![r] = "running"]
  /\ provider' = [provider EXCEPT ![r] = TRUE]
  /\ UNCHANGED <<startedAt, epochOf>>
  /\ resumeCtx' = [resumeCtx EXCEPT ![r] = NoCtx]
  /\ \/ /\ resumeCtx[r] = NoCtx
        /\ fresh' = [fresh EXCEPT ![r] = @ + 1]
        /\ UNCHANGED acted
     \/ /\ resumeCtx[r] # NoCtx
        /\ acted' = acted \cup {<<resumeCtx[r].ask, resumeCtx[r].ok>>}
        /\ UNCHANGED fresh
  /\ Goto(d, "streaming")
  /\ UNCHANGED <<consented, askRows, future, requests, process>>

\* The approver registers a Future and commits a pending row.
AskApproval(d) ==
  LET a == asks + 1 IN
  /\ pc[d] = "streaming"
  /\ asks < MaxAsks
  /\ asks' = a
  /\ askRun' = [askRun EXCEPT ![a] = job[d]]
  /\ askStatus' = [askStatus EXCEPT ![a] = "pending"]
  /\ UNCHANGED checkpoint
  /\ future' = [future EXCEPT ![a] = "open"]
  /\ pc' = [pc EXCEPT ![d] = "asked"]
  /\ ask' = [ask EXCEPT ![d] = a]
  /\ UNCHANGED <<job, registered, runRows, resumeCtx, requests, process, history>>

\* The conversation is stored on the row, whatever became of the row since,
\* and ParkRequested unwinds the executor.  The Future stays registered.
StoreCheckpoint(d) ==
  /\ pc[d] = "asked"
  /\ checkpoint' = [checkpoint EXCEPT ![ask[d]] = TRUE]
  /\ Goto(d, "parking")
  /\ UNCHANGED <<asks, askRun, askStatus, runRows, future, resumeCtx, requests,
                 process, history>>

\* The conversation cannot be stored: wait in the process instead.
WaitInProcess(d) ==
  /\ pc[d] = "asked"
  /\ Goto(d, "waiting")
  /\ UNCHANGED <<runRows, askRows, future, resumeCtx, requests, process, history>>

\* Mutant: the candidate loop falls over to the next provider after parking.
ParkFallsThrough(d) ==
  /\ pc[d] = "parking"
  /\ status' = [status EXCEPT ![job[d]] = "parked"]
  /\ epochOf' = [epochOf EXCEPT ![job[d]] = 0]
  /\ UNCHANGED <<startedAt, provider>>
  /\ Goto(d, "streaming")
  /\ UNCHANGED <<askRows, future, resumeCtx, requests, process, history>>

\* The `parked` event reaches the candidate loop.
CommitParked(d) ==
  /\ pc[d] = "parking"
  /\ status' = [status EXCEPT ![job[d]] = "parked"]
  /\ epochOf' = [epochOf EXCEPT ![job[d]] = 0]
  /\ UNCHANGED <<startedAt, provider>>
  /\ Goto(d, "parkTail")
  /\ UNCHANGED <<askRows, future, resumeCtx, requests, process, history>>

\* approvals.settle, as the approver calls it in a session of its own: only a
\* row that still says pending is stamped.
StampIfPending(a, ok) ==
  /\ askStatus' = [askStatus EXCEPT ![a] = IF @ = "pending" THEN Verdict(ok) ELSE @]
  /\ UNCHANGED <<asks, askRun, checkpoint>>

\* await_decision returns a verdict: pop the Future, stamp the row, act.
DecisionWakes(d, ok) ==
  LET a == ask[d] IN
  /\ future' = [future EXCEPT ![a] = "none"]
  /\ StampIfPending(a, ok)
  /\ acted' = acted \cup {<<a, ok>>}
  /\ pc' = [pc EXCEPT ![d] = "streaming"]
  /\ ask' = [ask EXCEPT ![d] = 0]
  /\ UNCHANGED <<job, registered, runRows, resumeCtx, requests, process,
                 consented, fresh>>

Decided(d) ==
  /\ pc[d] = "waiting"
  /\ future[ask[d]] \in {"yes", "no"}
  /\ DecisionWakes(d, future[ask[d]] = "yes")

\* Mutant: silence is taken for consent.
TimeoutApproves(d) ==
  /\ pc[d] = "waiting"
  /\ future[ask[d]] = "open"
  /\ DecisionWakes(d, TRUE)

\* Nobody answered within unattended_approval_timeout_seconds: a denial.
ApprovalTimesOut(d) ==
  /\ pc[d] = "waiting"
  /\ future[ask[d]] = "open"
  /\ DecisionWakes(d, FALSE)

\* The chain is exhausted (error, hard failure, cooling).
StreamEnds(d) ==
  /\ pc[d] = "streaming"
  /\ \E s \in {"failed", "deferred"} : SetStatus(job[d], s)
  /\ Goto(d, "tail")
  /\ UNCHANGED <<askRows, future, resumeCtx, requests, process, history>>

StreamResult(d) ==
  /\ pc[d] = "streaming"
  /\ Goto(d, "finishing")
  /\ UNCHANGED <<runRows, askRows, future, resumeCtx, requests, process, history>>

\* Post-processing wrote the outputs; it runs outside the wall clock.
Finish(d) ==
  /\ pc[d] = "finishing"
  /\ SetStatus(job[d], "succeeded")
  /\ Goto(d, "tail")
  /\ UNCHANGED <<askRows, future, resumeCtx, requests, process, history>>

\* It raised: execute_run looks at the row again before it fails the run.
FinishRaises(d) ==
  /\ pc[d] = "finishing"
  /\ \/ status[job[d]] \in Terminal /\ UNCHANGED runRows
     \/ status[job[d]] \notin Terminal /\ SetStatus(job[d], "failed")
  /\ Goto(d, "tail")
  /\ UNCHANGED <<askRows, future, resumeCtx, requests, process, history>>

\* A coroutine unwound out of await_decision pops its Future on the way.
DropFuture(d) ==
  future' = IF pc[d] = "waiting" THEN [future EXCEPT ![ask[d]] = "none"] ELSE future

\* Where the wall clock runs: the candidate loop, the awaits after the parked
\* commit included.  Mutant: it stops while a human is asked.
ClockStopsForHumans == {"streaming", "asked", "parking", "parkTail"}
ClockedPcs == {"streaming", "asked", "waiting", "parking", "parkTail"}

\* Mutant: the row is not read again before it is failed.
WallClockUnread(d) ==
  /\ pc[d] \in ClockedPcs
  /\ SetStatus(job[d], "failed")
  /\ DropFuture(d)
  /\ pc' = [pc EXCEPT ![d] = "tail"]
  /\ ask' = [ask EXCEPT ![d] = 0]
  /\ UNCHANGED <<job, registered, askRows, resumeCtx, requests, process, history>>

\* asyncio.timeout expires; the row is read again, and failed unless it is in
\* _TERMINAL_RUN_STATUSES.  No approval is settled.
WallClock(d) ==
  /\ pc[d] \in ClockedPcs
  /\ \/ status[job[d]] \in Terminal /\ UNCHANGED runRows
     \/ status[job[d]] \notin Terminal /\ SetStatus(job[d], "failed")
  /\ DropFuture(d)
  /\ pc' = [pc EXCEPT ![d] = "tail"]
  /\ ask' = [ask EXCEPT ![d] = 0]
  /\ UNCHANGED <<job, registered, askRows, resumeCtx, requests, process, history>>

\* The routing outcome and the broadcast are out; the coroutine returns.
TailDone(d) ==
  /\ pc[d] \in {"parkTail", "tail"}
  /\ Retire(d)
  /\ UNCHANGED <<runRows, askRows, future, resumeCtx, requests, process, history>>

-----------------------------------------------------------------------------
(* POST /api/approvals/{id}/decide, and resume_parked_run.                 *)

OpGoto(o, next) ==
  /\ opPc' = [opPc EXCEPT ![o] = next]
  /\ UNCHANGED <<opRun, opAsk, opOk>>

OpReturns(o) ==
  /\ opPc' = [opPc EXCEPT ![o] = "idle"]
  /\ opRun' = [opRun EXCEPT ![o] = NoRun]
  /\ opAsk' = [opAsk EXCEPT ![o] = 0]
  /\ opOk' = [opOk EXCEPT ![o] = FALSE]

Consent(o) ==
  /\ consented' = IF opOk[o] THEN consented \cup {opAsk[o]} ELSE consented
  /\ UNCHANGED <<acted, fresh>>

\* The handler loads the row; anything but `pending` is a 409.
DecideReads(o, a, ok) ==
  /\ up = "up"
  /\ opPc[o] = "idle"
  /\ askStatus[a] = "pending"
  /\ opPc' = [opPc EXCEPT ![o] = "read"]
  /\ opRun' = [opRun EXCEPT ![o] = askRun[a]]
  /\ opAsk' = [opAsk EXCEPT ![o] = a]
  /\ opOk' = [opOk EXCEPT ![o] = ok]
  /\ UNCHANGED <<runRows, askRows, drivers, future, resumeCtx, process, history>>

\* The run's own state says which of the two shapes this is.
DecideParked(o) ==
  /\ opPc[o] = "read"
  /\ status[opRun[o]] = "parked"
  /\ OpGoto(o, "settle")
  /\ UNCHANGED <<runRows, askRows, drivers, future, resumeCtx, process, history>>

\* approvals.resolve: complete the Future if it is registered and not done.
DecideLive(o) ==
  /\ opPc[o] = "read"
  /\ status[opRun[o]] # "parked"
  /\ future[opAsk[o]] = "open"
  /\ future' = [future EXCEPT ![opAsk[o]] = IF opOk[o] THEN "yes" ELSE "no"]
  /\ Consent(o)
  /\ OpGoto(o, "settleLive")
  /\ UNCHANGED <<runRows, askRows, drivers, resumeCtx, process>>

\* No Future to complete: 409, and the row stays as it is.
DecideRefused(o) ==
  /\ opPc[o] = "read"
  /\ status[opRun[o]] # "parked"
  /\ future[opAsk[o]] # "open"
  /\ OpReturns(o)
  /\ UNCHANGED <<runRows, askRows, drivers, future, resumeCtx, process, history>>

\* approvals.settle in the request's own session: the row it selects is the
\* object loaded by DecideReads, still `pending` there, so it is stamped.
Stamp(o) ==
  /\ askStatus' = [askStatus EXCEPT ![opAsk[o]] = Verdict(opOk[o])]
  /\ UNCHANGED <<asks, askRun, checkpoint>>

SettleLive(o) ==
  /\ opPc[o] = "settleLive"
  /\ Stamp(o)
  /\ OpReturns(o)
  /\ UNCHANGED <<runRows, drivers, future, resumeCtx, process, history>>

SettleParked(o) ==
  /\ opPc[o] = "settle"
  /\ Stamp(o)
  /\ Consent(o)
  /\ OpGoto(o, "resume")
  /\ UNCHANGED <<runRows, drivers, future, resumeCtx, process>>

\* resume_parked_run reads the run and its newest tool-lane approval.
ResumeReads(o) ==
  /\ opPc[o] = "resume"
  /\ status[opRun[o]] = "parked"
  /\ opPc' = [opPc EXCEPT ![o] = "resumeWrite"]
  /\ \E a \in 0..MaxAsks : /\ IsLatest(a, opRun[o])
                           /\ opAsk' = [opAsk EXCEPT ![o] = a]
  /\ UNCHANGED <<opRun, opOk>>
  /\ UNCHANGED <<runRows, askRows, drivers, future, resumeCtx, process, history>>

ResumeNotParked(o) ==
  /\ opPc[o] = "resume"
  /\ status[opRun[o]] # "parked"
  /\ OpReturns(o)
  /\ UNCHANGED <<runRows, askRows, drivers, future, resumeCtx, process, history>>

\* verify_fence accepts the checkpoint: back to `queued`, unowned; the verdict
\* is handed over in memory; a new coroutine is spawned and no cancel handle is
\* registered for it.
ResumeStarts(o, d) ==
  LET r == opRun[o] IN
  /\ opPc[o] = "resumeWrite"
  /\ pc[d] = "idle"
  /\ opAsk[o] # 0
  /\ checkpoint[opAsk[o]]
  /\ status' = [status EXCEPT ![r] = "queued"]
  /\ startedAt' = [startedAt EXCEPT ![r] = FALSE]
  /\ epochOf' = [epochOf EXCEPT ![r] = 0]
  /\ UNCHANGED provider
  /\ resumeCtx' = [resumeCtx EXCEPT ![r] = [ask |-> opAsk[o], ok |-> opOk[o]]]
  /\ pc' = [pc EXCEPT ![d] = "ready"]
  /\ job' = [job EXCEPT ![d] = r]
  /\ OpReturns(o)
  /\ UNCHANGED <<ask, registered, askRows, future, process, history>>

\* The fence refuses (nothing stored, another SDK since a restart, a model or
\* provider that is not the run's): the run fails with the reason.
ResumeRefused(o) ==
  /\ opPc[o] = "resumeWrite"
  /\ SetStatus(opRun[o], "failed")
  /\ OpReturns(o)
  /\ UNCHANGED <<askRows, drivers, future, resumeCtx, process, history>>

-----------------------------------------------------------------------------
(* POST /api/runs/{id}/cancel.  The request that finds neither a live      *)
(* handle nor a parked run answers 409 and changes nothing.                *)

StartCancel(o, r) ==
  /\ opPc' = [opPc EXCEPT ![o] = "cancelWrite"]
  /\ opRun' = [opRun EXCEPT ![o] = r]
  /\ UNCHANGED <<opAsk, opOk>>

\* A live handle: the coroutine is cancelled where it stands, its tail
\* included, and the row is marked afterwards.
CancelLive(o, r, d) ==
  /\ up = "up"
  /\ opPc[o] = "idle"
  /\ d \in registered
  /\ job[d] = r
  /\ DropFuture(d)
  /\ Retire(d)
  /\ StartCancel(o, r)
  /\ UNCHANGED <<runRows, askRows, resumeCtx, process, history>>

CancelParked(o, r) ==
  /\ up = "up"
  /\ opPc[o] = "idle"
  /\ \A d \in registered : job[d] # r
  /\ status[r] = "parked"
  /\ StartCancel(o, r)
  /\ UNCHANGED <<runRows, askRows, drivers, future, resumeCtx, process, history>>

\* _mark_cancelled: whatever the row says by now, it becomes cancelled; its
\* pending approvals expire and their Futures, if any, are released.
CancelWrites(o) ==
  LET r == opRun[o]
      Open(a) == askRun[a] = r /\ askStatus[a] = "pending" IN
  /\ opPc[o] = "cancelWrite"
  /\ SetStatus(r, "cancelled")
  /\ askStatus' = [a \in Asks |-> IF Open(a) THEN "expired" ELSE askStatus[a]]
  /\ future' = [a \in Asks |-> IF Open(a) /\ future[a] = "open" THEN "no" ELSE future[a]]
  /\ OpReturns(o)
  /\ UNCHANGED <<asks, askRun, checkpoint, drivers, resumeCtx, process, history>>

-----------------------------------------------------------------------------
(* Crash and lifespan boot.                                                *)

Crash ==
  /\ up # "down"
  /\ epoch <= MaxCrashes
  /\ up' = "down"
  /\ epoch' = epoch + 1
  /\ pc' = [d \in Drivers |-> "idle"]
  /\ job' = [d \in Drivers |-> NoRun]
  /\ ask' = [d \in Drivers |-> 0]
  /\ registered' = {}
  /\ future' = [a \in Asks |-> "none"]
  /\ resumeCtx' = [r \in Runs |-> NoCtx]
  /\ opPc' = [o \in Ops |-> "idle"]
  /\ opRun' = [o \in Ops |-> NoRun]
  /\ opAsk' = [o \in Ops |-> 0]
  /\ opOk' = [o \in Ops |-> FALSE]
  /\ UNCHANGED <<runRows, askRows, history>>

\* The runs reap_orphaned_runs selects.  Mutant: claimed runs are forgotten.
OrphansMissClaimed == {r \in Runs : /\ status[r] \in {"running", "queued"}
                                    /\ epochOf[r] # epoch}
Orphans == {r \in Runs : /\ status[r] \in {"running", "queued", "planning"}
                         /\ epochOf[r] # epoch}

\* classify_orphan: is there evidence that no executor touched the run?
NeverDispatched(r) == \/ status[r] = "queued" /\ ~startedAt[r]
                      \/ status[r] = "planning" /\ ~provider[r]
ToFail   == {r \in Orphans : ~NeverDispatched(r)}
ToSkip   == {r \in Orphans : NeverDispatched(r) /\ r \in SkipRuns}
ToResume == Orphans \ (ToFail \cup ToSkip)

\* reap_orphaned_runs: one commit, then a coroutine for every resumed run,
\* again without a cancel handle.
BootReconciles ==
  /\ up = "down"
  /\ up' = "booting"
  /\ status' = [r \in Runs |-> CASE r \in ToFail   -> "failed"
                                 [] r \in ToSkip   -> "cancelled"
                                 [] r \in ToResume -> "queued"
                                 [] OTHER          -> status[r]]
  /\ startedAt' = [r \in Runs |-> startedAt[r] /\ r \notin ToResume]
  /\ epochOf' = [r \in Runs |-> IF r \in ToResume THEN 0 ELSE epochOf[r]]
  /\ \E driverOf \in [ToResume -> Drivers] :
       /\ \A r, s \in ToResume : driverOf[r] = driverOf[s] => r = s
       /\ pc' = [d \in Drivers |->
                   IF \E r \in ToResume : driverOf[r] = d THEN "ready" ELSE "idle"]
       /\ job' = [d \in Drivers |->
                   IF \E r \in ToResume : driverOf[r] = d
                   THEN CHOOSE r \in ToResume : driverOf[r] = d ELSE NoRun]
  /\ UNCHANGED <<provider, askRows, ask, registered, future, resumeCtx, requests,
                 epoch, history>>

\* The rows whose Future died with the process.
Stranded(a) == askStatus[a] = "pending" /\ ~checkpoint[a]

\* approvals.reap_pending, later in the same lifespan: the coroutines spawned
\* by BootReconciles are already running.
BootReapsApprovals ==
  /\ up = "booting"
  /\ up' = "up"
  /\ askStatus' = [a \in Asks |-> IF Stranded(a) THEN "expired" ELSE askStatus[a]]
  /\ UNCHANGED <<asks, askRun, checkpoint, runRows, drivers, future, resumeCtx,
                 requests, epoch, history>>

-----------------------------------------------------------------------------

DriverStep(d) ==
  \/ Claim(d) \/ ClaimRefused(d) \/ RouteEnds(d) \/ Dispatch(d)
  \/ AskApproval(d) \/ StoreCheckpoint(d) \/ WaitInProcess(d) \/ CommitParked(d)
  \/ Decided(d) \/ ApprovalTimesOut(d)
  \/ StreamEnds(d) \/ StreamResult(d) \/ Finish(d) \/ FinishRaises(d)
  \/ WallClock(d) \/ TailDone(d)

OpContinues(o) ==
  \/ DecideParked(o) \/ DecideLive(o) \/ DecideRefused(o)
  \/ SettleLive(o) \/ SettleParked(o)
  \/ ResumeReads(o) \/ ResumeNotParked(o) \/ ResumeRefused(o)
  \/ \E d \in Drivers : ResumeStarts(o, d)
  \/ CancelWrites(o)

OpArrives(o) ==
  \/ \E a \in Asks, ok \in BOOLEAN : DecideReads(o, a, ok)
  \/ \E r \in Runs : CancelParked(o, r)
  \/ \E r \in Runs, d \in Drivers : CancelLive(o, r, d)

Boot == BootReconciles \/ BootReapsApprovals

Next ==
  \/ \E r \in Runs, d \in Drivers : Enqueue(r, d)
  \/ \E d \in Drivers : DriverStep(d)
  \/ \E o \in Ops : OpArrives(o) \/ OpContinues(o)
  \/ Crash
  \/ Boot

Spec == Init /\ [][Next]_vars

-----------------------------------------------------------------------------
(* Fairness: the coroutines of a live process go on, a provider's stream is *)
(* cut by the wall clock, requests are carried through, a crashed process   *)
(* is started again.  Nothing makes an operator, or a provider, answer.     *)

Fairness ==
  /\ \A d \in Drivers :
       /\ WF_vars(Claim(d) \/ ClaimRefused(d))
       /\ WF_vars(RouteEnds(d) \/ Dispatch(d))
       /\ WF_vars(WallClock(d))
       /\ WF_vars(Finish(d) \/ FinishRaises(d))
       /\ WF_vars(TailDone(d))
  /\ \A o \in Ops : WF_vars(OpContinues(o))
  /\ WF_vars(Boot)

FairSpec == Spec /\ Fairness

-----------------------------------------------------------------------------
(* Properties.                                                              *)

CancelPending(r) == \E o \in Ops : opPc[o] = "cancelWrite" /\ opRun[o] = r

\* Somebody will move the run on: a coroutine, or a cancel about to be written.
Attended(r) ==
  /\ status[r] = "queued" =>
       CancelPending(r) \/ \E d \in Drivers : job[d] = r /\ pc[d] = "ready"
  /\ status[r] \in {"planning", "running"} =>
       CancelPending(r) \/ \E d \in Drivers : Driving(d, r)

\* While the process is up no run sits in queued, planning or running with
\* nobody to move it on: crash, boot, resume and concurrent operators included.
NoStrandedRun == up # "down" => \A r \in Runs : Attended(r)

\* A tool call goes ahead only if an operator said yes to a request of that
\* run: no timeout, restart, resume or expired row turns into consent.
NoActWithoutOperator ==
  \A a \in Asks : <<a, TRUE>> \in acted =>
    \E b \in AsksOf(askRun[a]) : b \in consented

\* A finished run that nobody drives stays as it ended: neither the wall clock of
\* a coroutine left in its tail nor the boot writes it again, only a request that
\* was acting on the run already.
FinishedStays ==
  [][\A r \in Runs : status[r] \in Finished /\ status'[r] # status[r] =>
       \/ \E d \in Drivers : Driving(d, r)
       \/ \E o \in Ops : opRun[o] = r /\ opPc[o] \in {"cancelWrite", "resumeWrite"}]_vars

\* The claim contract, with the coroutines that are driving each run.
ClaimContract == INSTANCE RunClaim WITH
  driving <- [r \in Runs |-> {d \in Drivers : Driving(d, r)}]
ImplementsClaim == ClaimContract!Spec

\* An enqueued run is eventually over, deferred or parked, through crashes
\* and restarts and whatever its provider does.
QueuedRunsSettle ==
  \A r \in Runs : status[r] = "queued" ~> status[r] \in Terminal \cup {"parked"}

-----------------------------------------------------------------------------
(* What a comment says and the code does not keep with two requests at a    *)
(* time: checked by a run of its own that ends in a counterexample.         *)

\* The claim exists so that a duplicated execute_run "can never double-execute
\* the same run": two coroutines never drive one run at the same time.
AtMostOneDriver ==
  \A r \in Runs, d, e \in Drivers : Driving(d, r) /\ Driving(e, r) => d = e
=============================================================================
