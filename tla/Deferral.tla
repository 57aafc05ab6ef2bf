------------------------------- MODULE Deferral -------------------------------
(***************************************************************************)
(* What becomes of a deferred run: the flush guard of app/db.py, the       *)
(* sweep of app/scheduler.py, the requeue request of app/main.py and the   *)
(* enqueue_run they share.  Both replace a deferred run by a fresh one,    *)
(* in two commits whose order differs, and neither locks the row.          *)
(*                                                                         *)
(* A run that is queued, planning, running or parked is "live" here; how   *)
(* it ends is modules RunLifecycle and CandidateLoop.                      *)
(***************************************************************************)
EXTENDS Naturals, FiniteSets

CONSTANTS
  Ops,           \* requeue requests in flight at the same time
  MaxFresh,      \* bound: runs enqueued by a schedule or by hand
  MaxDeferrals,  \* bound: deferrals of all runs
  MaxRequeues,   \* bound: requeue requests
  MaxFaults      \* bound: restarts, and commits of the sweep that raise

ASSUME ConstantsAssumption ==
  /\ MaxFresh \in Nat /\ MaxDeferrals \in Nat
  /\ MaxRequeues \in Nat /\ MaxFaults \in Nat
  /\ IsFiniteSet(Ops)

\* Enough rows for every replacement the bounds allow: no enqueue is cut off.
Runs == 1..(MaxFresh + MaxDeferrals + MaxRequeues + MaxFaults)

VARIABLES
  \* --- rows ---
  status,      \* Run.status
  wake,        \* Run.deferred_until: "none", "later", "due"
  rows,        \* runs enqueued so far
  \* --- memory ---
  batch,       \* the runs the current sweep has selected and not handled
  sweeping,    \* the run between its re-enqueue and its cancel, 0 for none
  opPc, opRun, \* requeue requests
  \* --- history ---
  replaces,    \* the run a row was enqueued in place of, 0 for a fresh one
  requeued,    \* requeue requests made for each run
  fresh, deferrals, requests, faults

table   == <<status, wake, rows, replaces>>
sweep   == <<batch, sweeping>>
request == <<opPc, opRun>>
counts  == <<requeued, fresh, deferrals, requests, faults>>
vars == <<table, sweep, request, counts>>

RunIds == 0..(MaxFresh + MaxDeferrals + MaxRequeues + MaxFaults)

TypeOK ==
  /\ status \in [Runs -> {"absent", "live", "deferred", "cancelled", "over"}]
  /\ wake \in [Runs -> {"none", "later", "due"}]
  /\ rows \in RunIds
  /\ batch \subseteq Runs /\ sweeping \in RunIds
  /\ opPc \in [Ops -> {"idle", "cancel", "enqueue"}]
  /\ opRun \in [Ops -> RunIds]
  /\ replaces \in [Runs -> RunIds]
  /\ requeued \in [Runs -> 0..MaxRequeues] /\ requests \in 0..MaxRequeues
  /\ fresh \in 0..MaxFresh /\ deferrals \in 0..MaxDeferrals /\ faults \in 0..MaxFaults
  /\ \A r \in Runs : r <= rows <=> status[r] # "absent"

Init ==
  /\ status = [r \in Runs |-> "absent"]
  /\ wake = [r \in Runs |-> "none"]
  /\ rows = 0
  /\ batch = {} /\ sweeping = 0
  /\ opPc = [o \in Ops |-> "idle"] /\ opRun = [o \in Ops |-> 0]
  /\ replaces = [r \in Runs |-> 0]
  /\ requeued = [r \in Runs |-> 0]
  /\ fresh = 0 /\ deferrals = 0 /\ requests = 0 /\ faults = 0

-----------------------------------------------------------------------------
(* Rows.                                                                    *)

\* enqueue_run without an idempotency key: a new row, whatever else there is.
Enqueue(old) ==
  /\ rows' = rows + 1
  /\ status' = [status EXCEPT ![rows + 1] = "live"]
  /\ replaces' = [replaces EXCEPT ![rows + 1] = old]
  /\ UNCHANGED wake

\* before_flush: a run written as deferred without a time is failed instead.
\* Mutant: it is written as it comes.
FlushUnguarded(r, until) ==
  /\ status' = [status EXCEPT ![r] = "deferred"]
  /\ wake' = [wake EXCEPT ![r] = until]
FlushDeferred(r, until) ==
  /\ status' = [status EXCEPT ![r] = IF until = "none" THEN "over" ELSE "deferred"]
  /\ wake' = [wake EXCEPT ![r] = until]

SetCancelled(r) ==
  /\ status' = [status EXCEPT ![r] = "cancelled"]
  /\ UNCHANGED <<wake, rows, replaces>>

\* A schedule fires, or a task is run by hand.
EnqueueFresh ==
  /\ fresh < MaxFresh
  /\ fresh' = fresh + 1
  /\ Enqueue(0)
  /\ UNCHANGED <<sweep, request, requeued, deferrals, requests, faults>>

RunEnds(r) ==
  /\ status[r] = "live"
  /\ status' = [status EXCEPT ![r] = "over"]
  /\ UNCHANGED <<wake, rows, replaces, sweep, request, counts>>

\* A run is deferred; a branch that forgot the time meets the guard.
RunDefers(r) ==
  /\ status[r] = "live" /\ deferrals < MaxDeferrals
  /\ deferrals' = deferrals + 1
  /\ \E until \in {"none", "later"} : FlushDeferred(r, until)
  /\ UNCHANGED <<rows, replaces, sweep, request, requeued, fresh, requests, faults>>

TimePasses(r) ==
  /\ wake[r] = "later"
  /\ wake' = [wake EXCEPT ![r] = "due"]
  /\ UNCHANGED <<status, rows, replaces, sweep, request, counts>>

-----------------------------------------------------------------------------
(* The sweep: a job of one instance every 60 seconds.                       *)

Due == {r \in Runs : status[r] = "deferred" /\ wake[r] = "due"}

\* Mutant: the runs are taken out of the way as they are selected.
SweepTakes ==
  /\ batch = {} /\ sweeping = 0
  /\ Due # {}
  /\ batch' = Due
  /\ status' = [r \in Runs |-> IF r \in Due THEN "cancelled" ELSE status[r]]
  /\ UNCHANGED <<wake, rows, replaces, sweeping, request, counts>>

SweepSelects ==
  /\ batch = {} /\ sweeping = 0
  /\ Due # {}
  /\ batch' = Due
  /\ UNCHANGED <<table, sweeping, request, counts>>

\* A fresh run for the task; the old row is not looked at again before this.
SweepEnqueues(r) ==
  /\ r \in batch /\ sweeping = 0
  /\ Enqueue(r)
  /\ sweeping' = r
  /\ UNCHANGED <<batch, request, counts>>

\* Mutant: the old run keeps its status.
SweepForgets ==
  /\ sweeping # 0
  /\ batch' = batch \ {sweeping} /\ sweeping' = 0
  /\ UNCHANGED <<table, request, counts>>

\* The old row is read again, and cancelled if it is deferred still.
SweepCancels ==
  /\ sweeping # 0
  /\ \/ status[sweeping] = "deferred" /\ SetCancelled(sweeping)
     \/ status[sweeping] # "deferred" /\ UNCHANGED table
  /\ batch' = batch \ {sweeping} /\ sweeping' = 0
  /\ UNCHANGED <<request, counts>>

\* A commit raises: it is logged, and the sweep goes on with the next run.
SweepRaises(r) ==
  /\ faults < MaxFaults
  /\ r \in batch /\ sweeping \in {0, r}
  /\ faults' = faults + 1
  /\ batch' = batch \ {r} /\ sweeping' = 0
  /\ UNCHANGED <<table, request, requeued, fresh, deferrals, requests>>

-----------------------------------------------------------------------------
(* POST /api/runs/{id}/requeue.                                             *)

RequeueReads(o, r) ==
  /\ opPc[o] = "idle"
  /\ status[r] # "absent"
  /\ requests < MaxRequeues
  /\ requests' = requests + 1
  /\ requeued' = [requeued EXCEPT ![r] = @ + 1]
  /\ opRun' = [opRun EXCEPT ![o] = r]
  /\ opPc' = [opPc EXCEPT ![o] = IF status[r] = "deferred" THEN "cancel" ELSE "enqueue"]
  /\ UNCHANGED <<table, sweep, fresh, deferrals, faults>>

\* The decision is the one taken on the row as it was read.
RequeueCancels(o) ==
  /\ opPc[o] = "cancel"
  /\ SetCancelled(opRun[o])
  /\ opPc' = [opPc EXCEPT ![o] = "enqueue"]
  /\ UNCHANGED <<sweep, opRun, counts>>

RequeueEnqueues(o) ==
  /\ opPc[o] = "enqueue"
  /\ Enqueue(opRun[o])
  /\ opPc' = [opPc EXCEPT ![o] = "idle"]
  /\ opRun' = [opRun EXCEPT ![o] = 0]
  /\ UNCHANGED <<sweep, counts>>

\* The process restarts: the rows stay as they were committed.
Restart ==
  /\ faults < MaxFaults
  /\ faults' = faults + 1
  /\ batch' = {} /\ sweeping' = 0
  /\ opPc' = [o \in Ops |-> "idle"] /\ opRun' = [o \in Ops |-> 0]
  /\ UNCHANGED <<table, requeued, fresh, deferrals, requests>>

-----------------------------------------------------------------------------

Sweep == SweepSelects \/ SweepCancels \/ \E r \in Runs : SweepEnqueues(r)

Next ==
  \/ EnqueueFresh
  \/ \E r \in Runs : RunEnds(r) \/ RunDefers(r) \/ TimePasses(r)
  \/ Sweep
  \/ \E r \in Runs : SweepRaises(r)
  \/ \E o \in Ops, r \in Runs : RequeueReads(o, r)
  \/ \E o \in Ops : RequeueCancels(o) \/ RequeueEnqueues(o)
  \/ Restart

Spec == Init /\ [][Next]_vars

\* The scheduler keeps firing the sweep, and a time that was set comes.
FairSpec ==
  /\ Spec
  /\ WF_vars(Sweep)
  /\ \A r \in Runs : WF_vars(TimePasses(r))

-----------------------------------------------------------------------------
(* Properties.                                                              *)

Successors(r) == {s \in Runs : replaces[s] = r}

Superseded(r) == status[r] = "cancelled"

\* Each run is replaced once by the sweep; every further replacement is paid for
\* by a fault or by a request an operator made for that run.
DuplicatesAreAccounted ==
  \A r \in Runs : Cardinality(Successors(r)) <= 1 + requeued[r] + faults

\* The sweep never drops work: a deferred run that is cancelled without anybody
\* having requeued it has a run in its place, crashes between the two included.
SweepLosesNothing ==
  \A r \in Runs : Superseded(r) /\ requeued[r] = 0 => Successors(r) # {}

\* A deferred run does not wait for ever, whichever branch deferred it.
DeferredIsTakenUp ==
  \A r \in Runs : status[r] = "deferred" ~> status[r] # "deferred"
=============================================================================
