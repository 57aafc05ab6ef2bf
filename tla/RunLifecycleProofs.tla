-------------------------- MODULE RunLifecycleProofs --------------------------
(***************************************************************************)
(* Theorems about RunLifecycle for every number of runs, coroutines,       *)
(* operator requests, approvals and crashes: its types, that whatever is   *)
(* queued or running has somebody who moves it on, that a finished run is  *)
(* written only by a request that was acting on it already, and that with  *)
(* one operator request at a time the lifecycle implements the contract of *)
(* the claim, module RunClaim: with two it does not, as the run            *)
(* double_resume shows.                                                    *)
(***************************************************************************)
EXTENDS RunLifecycle, TLAPS

-----------------------------------------------------------------------------
(* Type correctness.                                                       *)

LEMMA InitTypeOK == Init => TypeOK
  BY ConstantsAssumption
  DEF Init, TypeOK, Types, Assigned, ConstantsAssumption, Asks, Statuses,
      DriverPcs, DrivingPcs, OpPcs, NoCtx, Terminal, Finished

LEMMA ZeroIsAsk == 0 \in 0..MaxAsks
  BY ConstantsAssumption DEF ConstantsAssumption

LEMMA RowsGivenOut ==
  ASSUME TypeOK
  PROVE  /\ asks \in Nat
         /\ \A a \in Asks : a <= asks <=> askStatus[a] # "none"
         /\ \A a \in Asks : a <= asks <=> askRun[a] # NoRun
PROOF
  <1>1. asks \in Nat
    BY ConstantsAssumption DEF TypeOK, Types, ConstantsAssumption
  <1> QED BY <1>1 DEF TypeOK, Assigned, Asks

LEMMA JobOfDriver ==
  ASSUME TypeOK, NEW d \in Drivers, pc[d] # "idle"
  PROVE  job[d] \in Runs
  BY DEF TypeOK, Types, Assigned

LEMMA RunOfRequest ==
  ASSUME TypeOK, NEW o \in Ops, opPc[o] # "idle"
  PROVE  opRun[o] \in Runs
  BY DEF TypeOK, Types, Assigned

\* What the step of a coroutine or of the run table leaves well-formed: the
\* pieces every action is put together from.
LEMMA GotoTypes ==
  ASSUME TypeOK, NEW d \in Drivers, NEW next \in DriverPcs \ {"idle"},
         pc[d] # "idle", Goto(d, next)
  PROVE  /\ pc' \in [Drivers -> DriverPcs]
         /\ job' = job /\ ask' = ask /\ registered' = registered
         /\ \A e \in Drivers : pc'[e] = "idle" <=> job'[e] = NoRun
  BY DEF TypeOK, Types, Assigned, Goto

LEMMA RetireTypes ==
  ASSUME TypeOK, NEW d \in Drivers, Retire(d)
  PROVE  /\ pc' \in [Drivers -> DriverPcs]
         /\ job' \in [Drivers -> Runs \cup {NoRun}]
         /\ ask' \in [Drivers -> 0..MaxAsks]
         /\ registered' \in SUBSET Drivers
         /\ \A e \in Drivers : pc'[e] = "idle" <=> job'[e] = NoRun
  BY ZeroIsAsk DEF TypeOK, Types, Assigned, Retire, DriverPcs

LEMMA SetStatusTypes ==
  ASSUME TypeOK, NEW r, NEW s \in Statuses, SetStatus(r, s)
  PROVE  /\ status' \in [Runs -> Statuses]
         /\ startedAt' = startedAt
         /\ epochOf' = epochOf
         /\ provider' = provider
  BY DEF TypeOK, Types, SetStatus

LEMMA WakeTypes ==
  ASSUME TypeOK, NEW d \in Drivers, NEW ok \in BOOLEAN, pc[d] # "idle",
         DecisionWakes(d, ok)
  PROVE  TypeOK'
PROOF
  <1>1. acted' \in SUBSET ((0..MaxAsks) \X BOOLEAN)
    <2>1. ask[d] \in 0..MaxAsks BY DEF TypeOK, Types
    <2> QED BY <2>1 DEF DecisionWakes, TypeOK, Types
  <1>2. askStatus' \in [Asks -> {"none", "pending", "approved", "denied", "expired"}]
    BY DEF DecisionWakes, StampIfPending, Verdict, TypeOK, Types
  <1>3. future' \in [Asks -> {"none", "open", "yes", "no"}]
    BY DEF DecisionWakes, TypeOK, Types
  <1>4. pc' \in [Drivers -> DriverPcs]
    BY DEF DecisionWakes, TypeOK, Types, DriverPcs, DrivingPcs
  <1>5. ask' \in [Drivers -> 0..MaxAsks] BY ZeroIsAsk DEF DecisionWakes, TypeOK, Types
  <1>6. Types'
    BY <1>1, <1>2, <1>3, <1>4, <1>5
    DEF DecisionWakes, StampIfPending, TypeOK, Types, runRows, requests, process
  <1>7. Assigned'
    <2>1. Verdict(ok) \notin {"none", "pending"} BY DEF Verdict
    <2>2. \A a \in Asks : askStatus'[a] = "none" <=> askStatus[a] = "none"
      BY <2>1 DEF DecisionWakes, StampIfPending, TypeOK, Types
    <2>3. /\ pc[d] # "idle" /\ pc' = [pc EXCEPT ![d] = "streaming"]
          /\ job' = job /\ opPc' = opPc /\ opRun' = opRun /\ opAsk' = opAsk
          /\ asks' = asks /\ askRun' = askRun
      BY DEF DecisionWakes, StampIfPending, requests
    <2> QED BY <2>2, <2>3 DEF TypeOK, Types, Assigned
  <1> QED BY <1>6, <1>7 DEF TypeOK

\* The steps of a coroutine keep the types.
LEMMA DriverTypeOK ==
  ASSUME TypeOK, NEW d \in Drivers, DriverStep(d)
  PROVE  TypeOK'
PROOF
  <1> USE DEF TypeOK, runRows, askRows, drivers, requests, process, history
  <1>j. pc[d] # "idle" => job[d] \in Runs BY JobOfDriver
  <1>s. /\ {"planning", "running", "parked", "failed", "deferred", "succeeded"}
             \subseteq Statuses
        /\ {"planning", "streaming", "asked", "waiting", "parking", "parkTail",
            "finishing", "tail"} \subseteq DriverPcs \ {"idle"}
    BY DEF Statuses, Terminal, Finished, DriverPcs, DrivingPcs
  <1>1. CASE Claim(d) BY <1>1, <1>s, GotoTypes DEF Claim, Types, Assigned
  <1>2. CASE ClaimRefused(d) BY <1>2, RetireTypes DEF ClaimRefused, Types, Assigned
  <1>3. CASE RouteEnds(d)
    <2>1. PICK s \in {"failed", "deferred"} : SetStatus(job[d], s) BY <1>3 DEF RouteEnds
    <2> QED
      BY <1>3, <1>s, <2>1, GotoTypes, SetStatusTypes DEF RouteEnds, Types, Assigned
  <1>4. CASE Dispatch(d)
    <2>1. NoCtx \in [ask : 0..MaxAsks, ok : BOOLEAN] BY ZeroIsAsk DEF NoCtx
    <2>2. resumeCtx' \in [Runs -> [ask : 0..MaxAsks, ok : BOOLEAN]]
      BY <1>4, <2>1 DEF Dispatch, Types
    <2>3. fresh' \in [Runs -> Nat] BY <1>4 DEF Dispatch, Types
    <2>4. resumeCtx[job[d]] \in [ask : 0..MaxAsks, ok : BOOLEAN]
      BY <1>4, <1>j DEF Dispatch, Types
    <2>5. acted' \in SUBSET ((0..MaxAsks) \X BOOLEAN)
      BY <1>4, <2>4 DEF Dispatch, Types
    <2> QED
      BY <1>4, <1>s, <2>2, <2>3, <2>5, GotoTypes DEF Dispatch, Types, Assigned
  <1>5. CASE AskApproval(d)
    <2>1. asks + 1 \in Asks /\ asks + 1 \in 0..MaxAsks
      BY <1>5, ConstantsAssumption DEF AskApproval, Types, Asks, ConstantsAssumption
    <2>2. Types' BY <1>5, <1>s, <1>j, <2>1 DEF AskApproval, Types
    <2>3. Assigned'
      BY <1>5, <1>j, <2>1, ConstantsAssumption
      DEF AskApproval, Types, Assigned, Asks, ConstantsAssumption
    <2> QED BY <2>2, <2>3
  <1>6. CASE StoreCheckpoint(d)
    BY <1>6, <1>s, GotoTypes DEF StoreCheckpoint, Types, Assigned
  <1>7. CASE WaitInProcess(d)
    BY <1>7, <1>s, GotoTypes DEF WaitInProcess, Types, Assigned
  <1>8. CASE CommitParked(d)
    BY <1>8, <1>s, GotoTypes DEF CommitParked, Types, Assigned
  <1>9. CASE Decided(d) BY <1>9, WakeTypes DEF Decided
  <1>10. CASE ApprovalTimesOut(d) BY <1>10, WakeTypes DEF ApprovalTimesOut
  <1>11. CASE StreamEnds(d)
    <2>1. PICK s \in {"failed", "deferred"} : SetStatus(job[d], s) BY <1>11 DEF StreamEnds
    <2> QED
      BY <1>11, <1>s, <2>1, GotoTypes, SetStatusTypes DEF StreamEnds, Types, Assigned
  <1>12. CASE StreamResult(d)
    BY <1>12, <1>s, GotoTypes DEF StreamResult, Types, Assigned
  <1>13. CASE Finish(d)
    BY <1>13, <1>s, GotoTypes, SetStatusTypes DEF Finish, Types, Assigned
  <1>14. CASE FinishRaises(d)
    BY <1>14, <1>s, GotoTypes, SetStatusTypes DEF FinishRaises, Types, Assigned
  <1>15. CASE WallClock(d)
    <2>1. status' \in [Runs -> Statuses] /\ startedAt' = startedAt
          /\ epochOf' = epochOf /\ provider' = provider
      BY <1>15, <1>s, SetStatusTypes DEF WallClock, Types
    <2>2. future' \in [Asks -> {"none", "open", "yes", "no"}]
      BY <1>15 DEF WallClock, DropFuture, Types
    <2>3. ask' \in [Drivers -> 0..MaxAsks] BY <1>15, ZeroIsAsk DEF WallClock, Types
    <2>4. pc' \in [Drivers -> DriverPcs] BY <1>15, <1>s DEF WallClock, Types
    <2>5. \A e \in Drivers : pc'[e] = "idle" <=> job'[e] = NoRun
      BY <1>15 DEF WallClock, ClockedPcs, Types, Assigned
    <2> QED BY <1>15, <2>1, <2>2, <2>3, <2>4, <2>5 DEF WallClock, Types, Assigned
  <1>16. CASE TailDone(d) BY <1>16, RetireTypes DEF TailDone, Types, Assigned
  <1> QED
    BY <1>1, <1>2, <1>3, <1>4, <1>5, <1>6, <1>7, <1>8, <1>9, <1>10, <1>11, <1>12,
       <1>13, <1>14, <1>15, <1>16 DEF DriverStep

LEMMA OpGotoTypes ==
  ASSUME TypeOK, NEW o \in Ops, NEW next \in OpPcs \ {"idle"},
         opPc[o] # "idle", OpGoto(o, next)
  PROVE  /\ opPc' \in [Ops -> OpPcs]
         /\ opRun' = opRun /\ opAsk' = opAsk /\ opOk' = opOk
         /\ \A p \in Ops : /\ opPc'[p] = "idle" <=> opRun'[p] = NoRun
                           /\ opAsk'[p] <= asks
  BY DEF TypeOK, Types, Assigned, OpGoto

LEMMA OpReturnsTypes ==
  ASSUME TypeOK, NEW o \in Ops, OpReturns(o)
  PROVE  /\ opPc' \in [Ops -> OpPcs]
         /\ opRun' \in [Ops -> Runs \cup {NoRun}]
         /\ opAsk' \in [Ops -> 0..MaxAsks]
         /\ opOk' \in [Ops -> BOOLEAN]
         /\ \A p \in Ops : /\ opPc'[p] = "idle" <=> opRun'[p] = NoRun
                           /\ opAsk'[p] <= asks
PROOF
  <1>1. opPc' \in [Ops -> OpPcs] BY DEF TypeOK, Types, OpReturns, OpPcs
  <1>2. opAsk' \in [Ops -> 0..MaxAsks] BY ZeroIsAsk DEF TypeOK, Types, OpReturns
  <1>3. \A p \in Ops : opPc'[p] = "idle" <=> opRun'[p] = NoRun
    BY DEF TypeOK, Types, Assigned, OpReturns
  <1>4. \A p \in Ops : opAsk'[p] <= asks BY DEF TypeOK, Types, Assigned, OpReturns
  <1> QED BY <1>1, <1>2, <1>3, <1>4 DEF TypeOK, Types, OpReturns

LEMMA StampTypes ==
  ASSUME TypeOK, NEW o \in Ops, Stamp(o)
  PROVE  /\ askStatus' \in [Asks -> {"none", "pending", "approved", "denied", "expired"}]
         /\ asks' = asks /\ askRun' = askRun /\ checkpoint' = checkpoint
         /\ \A a \in Asks : a <= asks <=> askStatus'[a] # "none"
PROOF
  <1>1. Verdict(opOk[o]) \in {"approved", "denied"} BY DEF Verdict
  <1>2. opAsk[o] <= asks BY DEF TypeOK, Assigned
  <1>3. \A a \in Asks : askStatus'[a] = IF a = opAsk[o] THEN Verdict(opOk[o])
                                       ELSE askStatus[a]
    BY DEF TypeOK, Types, Stamp
  <1>4. askStatus' \in [Asks -> {"none", "pending", "approved", "denied", "expired"}]
    BY <1>1 DEF TypeOK, Types, Stamp
  <1>5. \A a \in Asks : a <= asks <=> askStatus[a] # "none"
    BY RowsGivenOut
  <1>6. \A a \in Asks : a <= asks <=> askStatus'[a] # "none"
    BY <1>1, <1>2, <1>3, <1>5
  <1> QED BY <1>4, <1>6 DEF Stamp

LEMMA ConsentTypes ==
  ASSUME TypeOK, NEW o \in Ops, Consent(o)
  PROVE  /\ consented' \in SUBSET (0..MaxAsks)
         /\ acted' = acted /\ fresh' = fresh
PROOF
  <1>1. opAsk[o] \in 0..MaxAsks BY DEF TypeOK, Types
  <1> QED BY <1>1 DEF TypeOK, Types, Consent

\* The steps of an operator's request keep the types.
LEMMA OpTypeOK ==
  ASSUME TypeOK, NEW o \in Ops, OpArrives(o) \/ OpContinues(o)
  PROVE  TypeOK'
PROOF
  <1> USE DEF TypeOK, runRows, askRows, drivers, requests, process, history
  <1>r. opPc[o] # "idle" => opRun[o] \in Runs BY RunOfRequest
  <1>s. {"read", "settle", "settleLive", "resume", "resumeWrite", "cancelWrite"}
          \subseteq OpPcs \ {"idle"}
    BY DEF OpPcs
  <1>t. {"queued", "failed", "cancelled"} \subseteq Statuses
    BY DEF Statuses, Terminal, Finished
  <1>1. ASSUME NEW a \in Asks, NEW ok \in BOOLEAN, DecideReads(o, a, ok)
        PROVE  TypeOK'
    <2>1. a \in 0..MaxAsks BY ConstantsAssumption DEF Asks, ConstantsAssumption
    <2>2. a <= asks /\ askRun[a] \in Runs
      BY <1>1, RowsGivenOut DEF DecideReads, Types
    <2>3. Types' BY <1>1, <1>s, <2>1 DEF DecideReads, Types
    <2>4. Assigned' BY <1>1, <2>2, ConstantsAssumption
                    DEF DecideReads, Types, Assigned, ConstantsAssumption
    <2> QED BY <2>3, <2>4
  <1>2. ASSUME NEW r \in Runs, CancelParked(o, r)
        PROVE  TypeOK'
    BY <1>2, <1>s, ConstantsAssumption
    DEF CancelParked, StartCancel, Types, Assigned, ConstantsAssumption
  <1>3. ASSUME NEW r \in Runs, NEW d \in Drivers, CancelLive(o, r, d)
        PROVE  TypeOK'
    <2>1. future' \in [Asks -> {"none", "open", "yes", "no"}]
      BY <1>3 DEF CancelLive, DropFuture, Types
    <2>2. opPc' \in [Ops -> OpPcs] /\ opRun' \in [Ops -> Runs \cup {NoRun}]
          /\ \A p \in Ops : opPc'[p] = "idle" <=> opRun'[p] = NoRun
      BY <1>3, <1>s, ConstantsAssumption
      DEF CancelLive, StartCancel, Types, Assigned, ConstantsAssumption
    <2> QED
      BY <1>3, <2>1, <2>2, RetireTypes DEF CancelLive, StartCancel, Types, Assigned
  <1>4. CASE DecideParked(o) BY <1>4, <1>s, OpGotoTypes DEF DecideParked, Types, Assigned
  <1>5. CASE DecideLive(o)
    <2>1. future' \in [Asks -> {"none", "open", "yes", "no"}]
      BY <1>5 DEF DecideLive, Types
    <2> QED
      BY <1>5, <1>s, <2>1, OpGotoTypes, ConsentTypes DEF DecideLive, Types, Assigned
  <1>6. CASE DecideRefused(o) BY <1>6, OpReturnsTypes DEF DecideRefused, Types, Assigned
  <1>7. CASE SettleLive(o)
    BY <1>7, OpReturnsTypes, StampTypes DEF SettleLive, Types, Assigned
  <1>8. CASE SettleParked(o)
    BY <1>8, <1>s, OpGotoTypes, StampTypes, ConsentTypes
    DEF SettleParked, Types, Assigned
  <1>9. CASE ResumeReads(o)
    <2>1. PICK a \in 0..MaxAsks : /\ IsLatest(a, opRun[o])
                                 /\ opAsk' = [opAsk EXCEPT ![o] = a]
      BY <1>9 DEF ResumeReads
    <2>2. a <= asks
      BY <2>1, RowsGivenOut DEF IsLatest, AsksOf
    <2>3. Types' BY <1>9, <1>s, <2>1 DEF ResumeReads, Types
    <2>4. Assigned' BY <1>9, <2>1, <2>2 DEF ResumeReads, Types, Assigned
    <2> QED BY <2>3, <2>4
  <1>10. CASE ResumeNotParked(o)
    BY <1>10, OpReturnsTypes DEF ResumeNotParked, Types, Assigned
  <1>11. CASE ResumeRefused(o)
    BY <1>11, <1>t, OpReturnsTypes, SetStatusTypes DEF ResumeRefused, Types, Assigned
  <1>12. ASSUME NEW d \in Drivers, ResumeStarts(o, d)
         PROVE  TypeOK'
    <2>1. resumeCtx' \in [Runs -> [ask : 0..MaxAsks, ok : BOOLEAN]]
      BY <1>12 DEF ResumeStarts, Types
    <2>2. /\ status' \in [Runs -> Statuses]
          /\ startedAt' \in [Runs -> BOOLEAN]
          /\ epochOf' \in [Runs -> Nat]
      BY <1>12, <1>t DEF ResumeStarts, Types
    <2>3. opRun[o] \in Runs /\ opRun[o] # NoRun
      BY <1>12, <1>r, ConstantsAssumption DEF ResumeStarts, ConstantsAssumption
    <2>4. /\ pc' \in [Drivers -> DriverPcs]
          /\ job' \in [Drivers -> Runs \cup {NoRun}]
          /\ \A e \in Drivers : pc'[e] = "idle" <=> job'[e] = NoRun
      BY <1>12, <2>3 DEF ResumeStarts, Types, Assigned, DriverPcs
    <2> QED
      BY <1>12, <2>1, <2>2, <2>4, OpReturnsTypes DEF ResumeStarts, Types, Assigned
  <1>13. CASE CancelWrites(o)
    <2> DEFINE Open(a) == askRun[a] = opRun[o] /\ askStatus[a] = "pending"
    <2>1. askStatus' = [a \in Asks |-> IF Open(a) THEN "expired" ELSE askStatus[a]]
      BY <1>13 DEF CancelWrites
    <2>2. \A a \in Asks : askStatus'[a] = "none" <=> askStatus[a] = "none"
      BY <2>1
    <2>3. askStatus' \in [Asks -> {"none", "pending", "approved", "denied", "expired"}]
      BY <2>1 DEF Types
    <2>4. future' \in [Asks -> {"none", "open", "yes", "no"}]
      BY <1>13 DEF CancelWrites, Types
    <2> QED
      BY <1>13, <1>t, <2>2, <2>3, <2>4, OpReturnsTypes, SetStatusTypes
      DEF CancelWrites, Types, Assigned
  <1> QED
    BY <1>1, <1>2, <1>3, <1>4, <1>5, <1>6, <1>7, <1>8, <1>9, <1>10, <1>11, <1>12,
       <1>13 DEF OpArrives, OpContinues

LEMMA EnqueueTypeOK ==
  ASSUME TypeOK, NEW r \in Runs, NEW d \in Drivers, Enqueue(r, d)
  PROVE  TypeOK'
PROOF
  <1>1. "queued" \in Statuses /\ "ready" \in DriverPcs \ {"idle"}
    BY DEF Statuses, DriverPcs, DrivingPcs
  <1>2. Types' BY <1>1, SetStatusTypes
               DEF Enqueue, TypeOK, Types, askRows, requests, process, history
  <1>3. \A e \in Drivers : pc'[e] = "idle" <=> job'[e] = NoRun
    BY ConstantsAssumption DEF Enqueue, TypeOK, Types, Assigned, ConstantsAssumption
  <1> QED BY <1>2, <1>3 DEF Enqueue, TypeOK, Assigned, askRows, requests

LEMMA CrashTypeOK ==
  ASSUME TypeOK, Crash
  PROVE  TypeOK'
PROOF
  <1>1. NoCtx \in [ask : 0..MaxAsks, ok : BOOLEAN] BY ZeroIsAsk DEF NoCtx
  <1>2. "idle" \in DriverPcs /\ "idle" \in OpPcs BY DEF DriverPcs, OpPcs
  <1>3. Types'
    BY <1>1, <1>2, ZeroIsAsk DEF Crash, TypeOK, Types, runRows, askRows, history
  <1>4. 0 <= asks BY RowsGivenOut
  <1>5. Assigned' BY <1>4 DEF Crash, TypeOK, Assigned, askRows
  <1> QED BY <1>3, <1>5 DEF TypeOK

LEMMA BootTypeOK ==
  ASSUME TypeOK, Boot
  PROVE  TypeOK'
PROOF
  <1>1. CASE BootReconciles
    <2>1. PICK driverOf \in [ToResume -> Drivers] :
            /\ pc' = [d \in Drivers |->
                         IF \E r \in ToResume : driverOf[r] = d THEN "ready" ELSE "idle"]
            /\ job' = [d \in Drivers |->
                         IF \E r \in ToResume : driverOf[r] = d
                         THEN CHOOSE r \in ToResume : driverOf[r] = d ELSE NoRun]
      BY <1>1 DEF BootReconciles
    <2>2. ToResume \subseteq Runs BY DEF ToResume, Orphans
    <2>3. \A d \in Drivers : (\E r \in ToResume : driverOf[r] = d) =>
            job'[d] \in Runs
      BY <2>1, <2>2
    <2>4. pc' \in [Drivers -> DriverPcs] /\ job' \in [Drivers -> Runs \cup {NoRun}]
      BY <2>1, <2>3 DEF DriverPcs
    <2>5. \A d \in Drivers : pc'[d] = "idle" <=> job'[d] = NoRun
      BY <2>1, <2>3, ConstantsAssumption DEF ConstantsAssumption
    <2>6. {"failed", "cancelled", "queued"} \subseteq Statuses
      BY DEF Statuses, Terminal, Finished
    <2>7. status' \in [Runs -> Statuses]
      BY <1>1, <2>6 DEF BootReconciles, TypeOK, Types
    <2>8. startedAt' \in [Runs -> BOOLEAN] /\ epochOf' \in [Runs -> Nat]
      BY <1>1 DEF BootReconciles, TypeOK, Types
    <2> QED
      BY <1>1, <2>4, <2>5, <2>7, <2>8
      DEF BootReconciles, TypeOK, Types, Assigned, askRows, requests, history
  <1>2. CASE BootReapsApprovals
    <2>1. askStatus' \in [Asks -> {"none", "pending", "approved", "denied", "expired"}]
      BY <1>2 DEF BootReapsApprovals, TypeOK, Types
    <2>2. \A a \in Asks : askStatus'[a] = "none" <=> askStatus[a] = "none"
      BY <1>2 DEF BootReapsApprovals, Stranded
    <2> QED
      BY <1>2, <2>1, <2>2
      DEF BootReapsApprovals, TypeOK, Types, Assigned, runRows, drivers, requests, history
  <1> QED BY <1>1, <1>2 DEF Boot

LEMMA StutterTypeOK ==
  ASSUME TypeOK, UNCHANGED vars
  PROVE  TypeOK'
  BY DEF TypeOK, Types, Assigned, vars, runRows, askRows, drivers, requests,
         process, history

LEMMA NextTypeOK ==
  ASSUME TypeOK, [Next]_vars
  PROVE  TypeOK'
  BY DriverTypeOK, OpTypeOK, EnqueueTypeOK, CrashTypeOK, BootTypeOK, StutterTypeOK
  DEF Next

\* Every variable keeps its type, and every coroutine, request and approval
\* row stands for a run, in every reachable state of every instance.
THEOREM TypeCorrect == Spec => []TypeOK
PROOF
  <1>1. Init => TypeOK BY InitTypeOK
  <1>2. TypeOK /\ [Next]_vars => TypeOK' BY NextTypeOK
  <1> QED BY <1>1, <1>2, PTL DEF Spec

-----------------------------------------------------------------------------
(* No act without an operator.  The property itself is not inductive: it    *)
(* says nothing of a verdict still on its way, so ConsentInv follows it     *)
(* from the handler through the Future or the resume context to the stream. *)

Consenting(r) == \E b \in AsksOf(r) : b \in consented

FuturesConsented ==
  \A a \in Asks : future[a] = "yes" => a \in consented

DriversAskForTheirRun ==
  \A d \in Drivers : pc[d] \in {"asked", "waiting"} => ask[d] \in AsksOf(job[d])

RequestConsented(o) ==
  /\ opPc[o] \in {"read", "settle", "settleLive"} => opAsk[o] \in AsksOf(opRun[o])
  /\ opPc[o] = "resumeWrite" /\ opAsk[o] # 0 => opAsk[o] \in AsksOf(opRun[o])
  /\ opPc[o] \in {"resume", "resumeWrite"} /\ opOk[o] => Consenting(opRun[o])

RequestsConsented == \A o \in Ops : RequestConsented(o)

ContextsConsented ==
  \A r \in Runs :
    /\ resumeCtx[r] # NoCtx => resumeCtx[r].ask \in AsksOf(r)
    /\ resumeCtx[r].ok => Consenting(r)

ActsConsented ==
  \A a \in 0..MaxAsks :
    <<a, TRUE>> \in acted => \E r \in Runs : a \in AsksOf(r) /\ Consenting(r)

ConsentInv ==
  /\ TypeOK
  /\ FuturesConsented
  /\ DriversAskForTheirRun
  /\ RequestsConsented
  /\ ContextsConsented
  /\ ActsConsented

\* Approval rows are only ever added, and consent is never withdrawn.
RowsGrow ==
  /\ \A r \in Runs : AsksOf(r) \subseteq AsksOf(r)'
  /\ consented \subseteq consented'

LEMMA RowsSame ==
  ASSUME asks' = asks, askRun' = askRun, consented \subseteq consented'
  PROVE  RowsGrow
  BY DEF RowsGrow, AsksOf

LEMMA DriverGrowsRows ==
  ASSUME TypeOK, NEW d \in Drivers, DriverStep(d)
  PROVE  RowsGrow
PROOF
  <1>1. CASE AskApproval(d)
    <2>1. \A a \in Asks : a <= asks => a # asks + 1 /\ a <= asks + 1
      BY RowsGivenOut, ConstantsAssumption DEF Asks, ConstantsAssumption
    <2>2. \A a \in Asks : a <= asks => askRun'[a] = askRun[a]
      BY <1>1, <2>1 DEF AskApproval, TypeOK, Types
    <2> QED BY <1>1, <2>1, <2>2 DEF AskApproval, RowsGrow, AsksOf, history
  <1>2. CASE ~AskApproval(d)
    <2>1. asks' = asks /\ askRun' = askRun /\ consented' = consented
      BY <1>2 DEF DriverStep, Claim, ClaimRefused, RouteEnds, Dispatch, StoreCheckpoint,
         WaitInProcess, CommitParked, Decided, ApprovalTimesOut, DecisionWakes,
         StampIfPending, StreamEnds, StreamResult, Finish, FinishRaises, WallClock,
         TailDone, askRows, history
    <2> QED BY <2>1, RowsSame
  <1> QED BY <1>1, <1>2

LEMMA OpGrowsRows ==
  ASSUME NEW o \in Ops, OpArrives(o) \/ OpContinues(o)
  PROVE  RowsGrow
PROOF
  <1>1. asks' = asks /\ askRun' = askRun
    BY DEF OpArrives, OpContinues, DecideReads, CancelParked, CancelLive, DecideParked,
       DecideLive, DecideRefused, SettleLive, SettleParked, Stamp, ResumeReads,
       ResumeNotParked, ResumeRefused, ResumeStarts, CancelWrites, askRows
  <1>2. consented \subseteq consented'
    BY DEF OpArrives, OpContinues, DecideReads, CancelParked, CancelLive, DecideParked,
       DecideLive, DecideRefused, SettleLive, SettleParked, Consent, ResumeReads,
       ResumeNotParked, ResumeRefused, ResumeStarts, CancelWrites, history
  <1> QED BY <1>1, <1>2, RowsSame

\* Once a request of a run, always one; once consented, always.
LEMMA AsksStay ==
  ASSUME RowsGrow, NEW r \in Runs
  PROVE  /\ AsksOf(r) \subseteq AsksOf(r)'
         /\ Consenting(r) => Consenting(r)'
  BY DEF RowsGrow, Consenting

LEMMA FuturesStay ==
  ASSUME ConsentInv, RowsGrow,
         \A a \in Asks : future'[a] = "yes" => future[a] = "yes"
  PROVE  FuturesConsented'
  BY DEF ConsentInv, FuturesConsented, RowsGrow

LEMMA DriversStay ==
  ASSUME ConsentInv, RowsGrow, TypeOK',
         \A d \in Drivers : pc'[d] \in {"asked", "waiting"} =>
           pc[d] \in {"asked", "waiting"} /\ ask'[d] = ask[d] /\ job'[d] = job[d]
  PROVE  DriversAskForTheirRun'
PROOF
  <1> SUFFICES ASSUME NEW d \in Drivers, (pc[d] \in {"asked", "waiting"})'
               PROVE  (ask[d] \in AsksOf(job[d]))'
    BY DEF DriversAskForTheirRun
  <1>1. job[d] \in Runs /\ job'[d] = job[d] /\ ask'[d] = ask[d]
    BY JobOfDriver DEF ConsentInv
  <1>2. ask[d] \in AsksOf(job[d]) BY DEF ConsentInv, DriversAskForTheirRun
  <1> QED BY <1>1, <1>2 DEF RowsGrow, AsksOf

LEMMA RequestStays ==
  ASSUME ConsentInv, RowsGrow, NEW o \in Ops,
         \/ opPc'[o] \in {"idle", "cancelWrite"}
         \/ /\ opPc'[o] = opPc[o] /\ opRun'[o] = opRun[o]
            /\ opAsk'[o] = opAsk[o] /\ opOk'[o] = opOk[o]
  PROVE  RequestConsented(o)'
PROOF
  <1>1. CASE opPc'[o] \in {"idle", "cancelWrite"} BY <1>1 DEF RequestConsented
  <1>2. CASE opPc'[o] \notin {"idle", "cancelWrite"}
    <2>1. /\ opPc'[o] = opPc[o] /\ opRun'[o] = opRun[o]
          /\ opAsk'[o] = opAsk[o] /\ opOk'[o] = opOk[o]
      BY <1>2
    <2>2. opRun[o] \in Runs BY <1>2, <2>1, RunOfRequest DEF ConsentInv
    <2>3. RequestConsented(o) BY DEF ConsentInv, RequestsConsented
    <2> QED
      BY <2>1, <2>2, <2>3 DEF RequestConsented, RowsGrow, AsksOf, Consenting
  <1> QED BY <1>1, <1>2

LEMMA RequestsStay ==
  ASSUME ConsentInv, RowsGrow, UNCHANGED requests
  PROVE  RequestsConsented'
  BY RequestStays DEF RequestsConsented, requests

LEMMA ContextsStay ==
  ASSUME ConsentInv, RowsGrow,
         \A r \in Runs : resumeCtx'[r] = resumeCtx[r] \/ resumeCtx'[r] = NoCtx
  PROVE  ContextsConsented'
PROOF
  <1> SUFFICES ASSUME NEW r \in Runs
               PROVE  (/\ resumeCtx[r] # NoCtx => resumeCtx[r].ask \in AsksOf(r)
                       /\ resumeCtx[r].ok => Consenting(r))'
    BY DEF ContextsConsented
  <1>1. CASE resumeCtx'[r] = NoCtx BY <1>1 DEF NoCtx
  <1>2. CASE resumeCtx'[r] = resumeCtx[r]
    BY <1>2, AsksStay DEF ConsentInv, ContextsConsented
  <1> QED BY <1>1, <1>2

LEMMA ActsStay ==
  ASSUME ConsentInv, RowsGrow, acted' = acted
  PROVE  ActsConsented'
PROOF
  <1> SUFFICES ASSUME NEW a \in 0..MaxAsks, <<a, TRUE>> \in acted
               PROVE  \E r \in Runs : a \in AsksOf(r)' /\ Consenting(r)'
    BY DEF ActsConsented
  <1>1. PICK r \in Runs : a \in AsksOf(r) /\ Consenting(r)
    BY DEF ConsentInv, ActsConsented
  <1> QED BY <1>1, AsksStay

\* A stream that acts on a yes leaves the consent behind it on record.
LEMMA ActAdded ==
  ASSUME ConsentInv, RowsGrow, NEW a, NEW ok \in BOOLEAN,
         acted' = acted \cup {<<a, ok>>},
         ok => \E r \in Runs : a \in AsksOf(r) /\ Consenting(r)
  PROVE  ActsConsented'
PROOF
  <1> SUFFICES ASSUME NEW b \in 0..MaxAsks, <<b, TRUE>> \in acted'
               PROVE  \E r \in Runs : b \in AsksOf(r)' /\ Consenting(r)'
    BY DEF ActsConsented
  <1>1. \E r \in Runs : b \in AsksOf(r) /\ Consenting(r)
    <2>1. CASE <<b, TRUE>> \in acted BY <2>1 DEF ConsentInv, ActsConsented
    <2>2. CASE <<b, TRUE>> = <<a, ok>> BY <2>2
    <2> QED BY <2>1, <2>2
  <1> QED BY <1>1, AsksStay

\* A coroutine's step moves that coroutine only, and asks or waits only by
\* the two actions that say so.
LEMMA DriverMoves ==
  ASSUME TypeOK, NEW d \in Drivers, DriverStep(d)
  PROVE  /\ \A e \in Drivers \ {d} : /\ pc'[e] = pc[e]
                                     /\ ask'[e] = ask[e]
                                     /\ job'[e] = job[e]
         /\ pc'[d] \in {"asked", "waiting"} => AskApproval(d) \/ WaitInProcess(d)
PROOF
  <1> USE DEF TypeOK, Types, Goto, Retire
  <1>1. CASE Claim(d) BY <1>1 DEF Claim
  <1>2. CASE ClaimRefused(d) BY <1>2 DEF ClaimRefused
  <1>3. CASE RouteEnds(d) BY <1>3 DEF RouteEnds
  <1>4. CASE Dispatch(d) BY <1>4 DEF Dispatch
  <1>5. CASE AskApproval(d) BY <1>5 DEF AskApproval
  <1>6. CASE StoreCheckpoint(d) BY <1>6 DEF StoreCheckpoint
  <1>7. CASE WaitInProcess(d) BY <1>7 DEF WaitInProcess
  <1>8. CASE CommitParked(d) BY <1>8 DEF CommitParked
  <1>9. CASE Decided(d) BY <1>9 DEF Decided, DecisionWakes
  <1>10. CASE ApprovalTimesOut(d) BY <1>10 DEF ApprovalTimesOut, DecisionWakes
  <1>11. CASE StreamEnds(d) BY <1>11 DEF StreamEnds
  <1>12. CASE StreamResult(d) BY <1>12 DEF StreamResult
  <1>13. CASE Finish(d) BY <1>13 DEF Finish
  <1>14. CASE FinishRaises(d) BY <1>14 DEF FinishRaises
  <1>15. CASE WallClock(d) BY <1>15 DEF WallClock
  <1>16. CASE TailDone(d) BY <1>16 DEF TailDone
  <1> QED
    BY <1>1, <1>2, <1>3, <1>4, <1>5, <1>6, <1>7, <1>8, <1>9, <1>10, <1>11, <1>12,
       <1>13, <1>14, <1>15, <1>16 DEF DriverStep

LEMMA DriverConsentInv ==
  ASSUME ConsentInv, NEW d \in Drivers, DriverStep(d)
  PROVE  ConsentInv'
PROOF
  <1>1. TypeOK /\ TypeOK' BY DriverTypeOK DEF ConsentInv
  <1>2. RowsGrow BY <1>1, DriverGrowsRows
  <1>3. requests' = requests
    BY DEF DriverStep, Claim, ClaimRefused, RouteEnds, Dispatch, AskApproval,
       StoreCheckpoint, WaitInProcess, CommitParked, Decided, ApprovalTimesOut,
       DecisionWakes, StreamEnds, StreamResult, Finish, FinishRaises, WallClock, TailDone
  <1>4. RequestsConsented' BY <1>2, <1>3, RequestsStay
  <1>5. ContextsConsented'
    <2>1. \A r \in Runs : resumeCtx'[r] = resumeCtx[r] \/ resumeCtx'[r] = NoCtx
      BY <1>1 DEF TypeOK, Types, DriverStep, Claim, ClaimRefused, RouteEnds, Dispatch,
         AskApproval, StoreCheckpoint, WaitInProcess, CommitParked, Decided,
         ApprovalTimesOut, DecisionWakes, StreamEnds, StreamResult, Finish, FinishRaises,
         WallClock, TailDone
    <2> QED BY <1>2, <2>1, ContextsStay
  <1>6. FuturesConsented'
    <2>1. \A a \in Asks : future'[a] = "yes" => future[a] = "yes"
      BY <1>1 DEF TypeOK, Types, DriverStep, Claim, ClaimRefused, RouteEnds, Dispatch,
         AskApproval, StoreCheckpoint, WaitInProcess, CommitParked, Decided,
         ApprovalTimesOut, DecisionWakes, StreamEnds, StreamResult, Finish, FinishRaises,
         WallClock, DropFuture, TailDone
    <2> QED BY <1>2, <2>1, FuturesStay
  <1>7. DriversAskForTheirRun'
    <2>1. CASE AskApproval(d)
      <3>1. job[d] \in Runs BY <1>1, <2>1, JobOfDriver DEF AskApproval
      <3>2. asks + 1 \in Asks
        BY <1>1, <2>1, RowsGivenOut, ConstantsAssumption
        DEF AskApproval, Asks, ConstantsAssumption
      <3>3. (ask[d] \in AsksOf(job[d]))'
        BY <1>1, <2>1, <3>1, <3>2 DEF AskApproval, AsksOf, TypeOK, Types
      <3>4. ASSUME NEW e \in Drivers, e # d, (pc[e] \in {"asked", "waiting"})'
            PROVE  (ask[e] \in AsksOf(job[e]))'
        <4>1. pc'[e] = pc[e] /\ job'[e] = job[e] /\ ask'[e] = ask[e]
          BY <1>1, <2>1, <3>4 DEF AskApproval, TypeOK, Types
        <4>2. ask[e] \in AsksOf(job[e]) /\ job[e] \in Runs
          BY <1>1, <3>4, <4>1, JobOfDriver DEF ConsentInv, DriversAskForTheirRun
        <4> QED BY <1>2, <4>1, <4>2 DEF RowsGrow, AsksOf
      <3> QED BY <3>3, <3>4 DEF DriversAskForTheirRun
    <2>2. CASE ~AskApproval(d)
      <3>1. \A e \in Drivers \ {d} : pc'[e] = pc[e] /\ ask'[e] = ask[e] /\ job'[e] = job[e]
        BY <1>1, DriverMoves
      <3>2. CASE WaitInProcess(d)
        BY <1>1, <1>2, <3>1, <3>2, DriversStay DEF WaitInProcess, Goto, TypeOK, Types
      <3>3. CASE ~WaitInProcess(d)
        BY <1>1, <1>2, <2>2, <3>1, <3>3, DriverMoves, DriversStay
      <3> QED BY <3>2, <3>3
    <2> QED BY <2>1, <2>2
  <1>8. ActsConsented'
    <2>1. CASE Dispatch(d) /\ resumeCtx[job[d]] # NoCtx
      <3>1. job[d] \in Runs BY <1>1, <2>1, JobOfDriver DEF Dispatch
      <3>2. resumeCtx[job[d]].ok \in BOOLEAN BY <1>1, <3>1 DEF TypeOK, Types
      <3>3. /\ resumeCtx[job[d]].ask \in AsksOf(job[d])
            /\ resumeCtx[job[d]].ok => Consenting(job[d])
        BY <2>1, <3>1 DEF ConsentInv, ContextsConsented
      <3>4. acted' = acted \cup {<<resumeCtx[job[d]].ask, resumeCtx[job[d]].ok>>}
        BY <2>1 DEF Dispatch
      <3> QED BY <1>2, <3>1, <3>2, <3>3, <3>4, ActAdded
    <2>2. CASE Decided(d)
      <3>1. job[d] \in Runs BY <1>1, <2>2, JobOfDriver DEF Decided
      <3>2. ask[d] \in AsksOf(job[d]) BY <2>2 DEF Decided, ConsentInv, DriversAskForTheirRun
      <3>3. future[ask[d]] = "yes" => Consenting(job[d])
        BY <3>2 DEF ConsentInv, FuturesConsented, Consenting, AsksOf
      <3>4. acted' = acted \cup {<<ask[d], future[ask[d]] = "yes">>}
        BY <2>2 DEF Decided, DecisionWakes
      <3> QED BY <1>2, <3>1, <3>2, <3>3, <3>4, ActAdded
    <2>3. CASE ApprovalTimesOut(d)
      BY <1>2, <2>3, ActAdded DEF ApprovalTimesOut, DecisionWakes
    <2>4. CASE ~(Dispatch(d) /\ resumeCtx[job[d]] # NoCtx) /\ ~Decided(d) /\ ~ApprovalTimesOut(d)
      <3>1. acted' = acted
        BY <2>4 DEF DriverStep, Claim, ClaimRefused, RouteEnds, Dispatch, AskApproval,
           StoreCheckpoint, WaitInProcess, CommitParked, StreamEnds, StreamResult,
           Finish, FinishRaises, WallClock, TailDone, history
      <3> QED BY <1>2, <3>1, ActsStay
    <2> QED BY <2>1, <2>2, <2>3, <2>4
  <1> QED BY <1>1, <1>4, <1>5, <1>6, <1>7, <1>8 DEF ConsentInv

\* A request's step moves that request only.
LEMMA RequestMoves ==
  ASSUME TypeOK, NEW o \in Ops, OpArrives(o) \/ OpContinues(o)
  PROVE  \A p \in Ops \ {o} : /\ opPc'[p] = opPc[p] /\ opRun'[p] = opRun[p]
                              /\ opAsk'[p] = opAsk[p] /\ opOk'[p] = opOk[p]
PROOF
  <1> USE DEF TypeOK, Types, OpGoto, OpReturns, StartCancel
  <1>1. CASE OpArrives(o) BY <1>1 DEF OpArrives, DecideReads, CancelParked, CancelLive
  <1>2. CASE DecideParked(o) BY <1>2 DEF DecideParked
  <1>3. CASE DecideLive(o) BY <1>3 DEF DecideLive
  <1>4. CASE DecideRefused(o) BY <1>4 DEF DecideRefused
  <1>5. CASE SettleLive(o) BY <1>5 DEF SettleLive
  <1>6. CASE SettleParked(o) BY <1>6 DEF SettleParked
  <1>7. CASE ResumeReads(o) BY <1>7 DEF ResumeReads
  <1>8. CASE ResumeNotParked(o) BY <1>8 DEF ResumeNotParked
  <1>9. CASE ResumeRefused(o) BY <1>9 DEF ResumeRefused
  <1>10. CASE CancelWrites(o) BY <1>10 DEF CancelWrites
  <1>11. CASE \E d \in Drivers : ResumeStarts(o, d) BY <1>11 DEF ResumeStarts
  <1> QED
    BY <1>1, <1>2, <1>3, <1>4, <1>5, <1>6, <1>7, <1>8, <1>9, <1>10, <1>11 DEF OpContinues

LEMMA OpConsentInv ==
  ASSUME ConsentInv, NEW o \in Ops, OpArrives(o) \/ OpContinues(o)
  PROVE  ConsentInv'
PROOF
  <1>1. TypeOK /\ TypeOK' BY OpTypeOK DEF ConsentInv
  <1>2. RowsGrow BY OpGrowsRows
  <1>3. acted' = acted
    BY DEF OpArrives, OpContinues, DecideReads, CancelParked, CancelLive, DecideParked,
       DecideLive, DecideRefused, SettleLive, SettleParked, Consent, ResumeReads,
       ResumeNotParked, ResumeRefused, ResumeStarts, CancelWrites, history
  <1>4. ActsConsented' BY <1>2, <1>3, ActsStay
  <1>5. \A p \in Ops \ {o} : RequestConsented(p)' BY <1>1, <1>2, RequestMoves, RequestStays
  <1>6. RequestConsented(o) BY DEF ConsentInv, RequestsConsented
  <1>7. RequestConsented(o)'
    <2> USE DEF TypeOK, Types
    <2>1. ASSUME NEW a \in Asks, NEW ok \in BOOLEAN, DecideReads(o, a, ok)
          PROVE  RequestConsented(o)'
      BY <1>1, <2>1, RowsGivenOut DEF DecideReads, RequestConsented, AsksOf, askRows
    <2>2. CASE \E r \in Runs : CancelParked(o, r)
      BY <1>1, <2>2 DEF CancelParked, StartCancel, RequestConsented
    <2>3. CASE \E r \in Runs, d \in Drivers : CancelLive(o, r, d)
      BY <1>1, <2>3 DEF CancelLive, StartCancel, RequestConsented
    <2>4. CASE DecideParked(o)
      BY <1>1, <1>6, <2>4 DEF DecideParked, OpGoto, RequestConsented, AsksOf, askRows
    <2>5. CASE DecideLive(o)
      BY <1>1, <1>6, <2>5 DEF DecideLive, OpGoto, RequestConsented, AsksOf, askRows
    <2>6. CASE OpReturns(o)
      BY <1>1, <2>6 DEF OpReturns, RequestConsented
    <2>7. CASE SettleParked(o)
      <3>1. opAsk[o] \in AsksOf(opRun[o]) BY <1>6, <2>7 DEF SettleParked, RequestConsented
      <3>2. opOk[o] => opAsk[o] \in consented' BY <2>7 DEF SettleParked, Consent
      <3>3. /\ opPc'[o] = "resume" /\ opRun' = opRun /\ opOk' = opOk
            /\ asks' = asks /\ askRun' = askRun
        BY <1>1, <2>7 DEF SettleParked, OpGoto, Stamp
      <3> QED BY <3>1, <3>2, <3>3 DEF RequestConsented, Consenting, AsksOf
    <2>8. CASE ResumeReads(o)
      <3>1. PICK a \in 0..MaxAsks : /\ IsLatest(a, opRun[o])
                                   /\ opAsk' = [opAsk EXCEPT ![o] = a]
        BY <2>8 DEF ResumeReads
      <3>2. /\ opPc[o] = "resume" /\ opPc'[o] = "resumeWrite" /\ opAsk'[o] = a
            /\ opRun' = opRun /\ opOk' = opOk
            /\ asks' = asks /\ askRun' = askRun /\ consented' = consented
        BY <1>1, <2>8, <3>1 DEF ResumeReads, askRows, history
      <3>3. a # 0 => a \in AsksOf(opRun[o]) BY <3>1 DEF IsLatest
      <3> QED BY <1>6, <3>2, <3>3 DEF RequestConsented, Consenting, AsksOf
    <2> QED
      BY <2>1, <2>2, <2>3, <2>4, <2>5, <2>6, <2>7, <2>8
      DEF OpArrives, OpContinues, DecideRefused, SettleLive, ResumeNotParked,
          ResumeRefused, ResumeStarts, CancelWrites
  <1>8. ContextsConsented'
    <2>1. ASSUME NEW d \in Drivers, ResumeStarts(o, d)
          PROVE  ContextsConsented'
      <3>1. opRun[o] \in Runs BY <1>1, <2>1, RunOfRequest DEF ResumeStarts
      <3>2. /\ opAsk[o] \in AsksOf(opRun[o])
            /\ opOk[o] => Consenting(opRun[o])
        BY <1>6, <2>1 DEF ResumeStarts, RequestConsented
      <3>3. resumeCtx' = [resumeCtx EXCEPT ![opRun[o]] = [ask |-> opAsk[o], ok |-> opOk[o]]]
        BY <2>1 DEF ResumeStarts
      <3> SUFFICES ASSUME NEW r \in Runs
                   PROVE  (/\ resumeCtx[r] # NoCtx => resumeCtx[r].ask \in AsksOf(r)
                           /\ resumeCtx[r].ok => Consenting(r))'
        BY DEF ContextsConsented
      <3>4. CASE r = opRun[o]
        <4>1. resumeCtx'[r] = [ask |-> opAsk[o], ok |-> opOk[o]]
          BY <1>1, <3>3, <3>4 DEF TypeOK, Types
        <4> QED BY <1>2, <3>2, <3>4, <4>1, AsksStay
      <3>5. CASE r # opRun[o]
        <4>1. resumeCtx'[r] = resumeCtx[r] BY <1>1, <3>3, <3>5 DEF TypeOK, Types
        <4> QED BY <1>2, <4>1, AsksStay DEF ConsentInv, ContextsConsented
      <3> QED BY <3>4, <3>5
    <2>2. CASE \A d \in Drivers : ~ResumeStarts(o, d)
      <3>1. resumeCtx' = resumeCtx
        BY <2>2 DEF OpArrives, OpContinues, DecideReads, CancelParked, CancelLive,
           DecideParked, DecideLive, DecideRefused, SettleLive, SettleParked,
           ResumeReads, ResumeNotParked, ResumeRefused, CancelWrites
      <3> QED BY <1>2, <3>1, ContextsStay
    <2> QED BY <2>1, <2>2
  <1>9. FuturesConsented'
    <2>1. CASE DecideLive(o)
      <3>1. \A a \in Asks : future'[a] = "yes" =>
              future[a] = "yes" \/ (a = opAsk[o] /\ opOk[o])
        BY <1>1, <2>1 DEF DecideLive, TypeOK, Types
      <3>2. opOk[o] => opAsk[o] \in consented' BY <2>1 DEF DecideLive, Consent
      <3> QED BY <1>2, <3>1, <3>2 DEF ConsentInv, FuturesConsented, RowsGrow
    <2>2. CASE ~DecideLive(o)
      <3>1. \A a \in Asks : future'[a] = "yes" => future[a] = "yes"
        BY <1>1, <2>2 DEF TypeOK, Types, OpArrives, OpContinues, DecideReads,
           CancelParked, CancelLive, DropFuture, DecideParked, DecideRefused,
           SettleLive, SettleParked, ResumeReads, ResumeNotParked, ResumeRefused,
           ResumeStarts, CancelWrites
      <3> QED BY <1>2, <3>1, FuturesStay
    <2> QED BY <2>1, <2>2
  <1>10. DriversAskForTheirRun'
    <2>1. \A e \in Drivers : pc'[e] \in {"asked", "waiting"} =>
            pc[e] \in {"asked", "waiting"} /\ ask'[e] = ask[e] /\ job'[e] = job[e]
      BY <1>1 DEF TypeOK, Types, OpArrives, OpContinues, DecideReads, CancelParked,
         CancelLive, Retire, DecideParked, DecideLive, DecideRefused, SettleLive,
         SettleParked, ResumeReads, ResumeNotParked, ResumeRefused, ResumeStarts,
         CancelWrites, drivers
    <2> QED BY <1>1, <1>2, <2>1, DriversStay
  <1> QED
    BY <1>1, <1>4, <1>5, <1>7, <1>8, <1>9, <1>10 DEF ConsentInv, RequestsConsented

LEMMA OtherConsentInv ==
  ASSUME ConsentInv,
         \/ \E r \in Runs, d \in Drivers : Enqueue(r, d)
         \/ Crash \/ Boot \/ UNCHANGED vars
  PROVE  ConsentInv'
PROOF
  <1>1. TypeOK /\ TypeOK'
    BY EnqueueTypeOK, CrashTypeOK, BootTypeOK, StutterTypeOK DEF ConsentInv
  <1>2. /\ asks' = asks /\ askRun' = askRun
        /\ consented' = consented /\ acted' = acted
    BY DEF Enqueue, Crash, Boot, BootReconciles, BootReapsApprovals, vars, askRows, history
  <1>3. RowsGrow BY <1>2, RowsSame
  <1>4. ActsConsented' BY <1>2, <1>3, ActsStay
  <1>5. \A r \in Runs : resumeCtx'[r] = resumeCtx[r] \/ resumeCtx'[r] = NoCtx
    BY DEF Enqueue, Crash, Boot, BootReconciles, BootReapsApprovals, vars
  <1>6. ContextsConsented' BY <1>3, <1>5, ContextsStay
  <1>7. \A a \in Asks : future'[a] = "yes" => future[a] = "yes"
    BY DEF Enqueue, Crash, Boot, BootReconciles, BootReapsApprovals, vars
  <1>8. FuturesConsented' BY <1>3, <1>7, FuturesStay
  <1>9. \A d \in Drivers : pc'[d] \in {"asked", "waiting"} =>
          pc[d] \in {"asked", "waiting"} /\ ask'[d] = ask[d] /\ job'[d] = job[d]
    BY <1>1 DEF TypeOK, Types, Enqueue, Crash, Boot, BootReconciles, BootReapsApprovals,
       vars, drivers
  <1>10. DriversAskForTheirRun' BY <1>1, <1>3, <1>9, DriversStay
  <1>11. ASSUME NEW o \in Ops
         PROVE  RequestConsented(o)'
    <2>1. \/ opPc'[o] \in {"idle", "cancelWrite"}
          \/ /\ opPc'[o] = opPc[o] /\ opRun'[o] = opRun[o]
             /\ opAsk'[o] = opAsk[o] /\ opOk'[o] = opOk[o]
      BY DEF Enqueue, Crash, Boot, BootReconciles, BootReapsApprovals, vars, requests
    <2> QED BY <1>3, <2>1, RequestStays
  <1> QED
    BY <1>1, <1>4, <1>6, <1>8, <1>10, <1>11 DEF ConsentInv, RequestsConsented

LEMMA InitConsentInv == Init => ConsentInv
PROOF
  <1> SUFFICES ASSUME Init PROVE ConsentInv OBVIOUS
  <1>1. TypeOK BY InitTypeOK
  <1> QED
    BY <1>1 DEF Init, ConsentInv, FuturesConsented, DriversAskForTheirRun,
       RequestsConsented, RequestConsented, ContextsConsented, ActsConsented, NoCtx

LEMMA ConsentInvImplies == ConsentInv => NoActWithoutOperator
PROOF
  <1> SUFFICES ASSUME ConsentInv, NEW a \in Asks, <<a, TRUE>> \in acted
               PROVE  \E b \in AsksOf(askRun[a]) : b \in consented
    BY DEF NoActWithoutOperator
  <1>1. a \in 0..MaxAsks BY ConstantsAssumption DEF Asks, ConstantsAssumption
  <1>2. PICK r \in Runs : a \in AsksOf(r) /\ Consenting(r)
    BY <1>1 DEF ConsentInv, ActsConsented
  <1> QED BY <1>2 DEF AsksOf, Consenting

\* No tool call of an unattended run goes ahead unless an operator said yes to
\* a request of that run, however many operators, crashes and resumes there are.
THEOREM ConsentBeforeAct == Spec => []NoActWithoutOperator
PROOF
  <1>1. Init => ConsentInv BY InitConsentInv
  <1>2. ConsentInv /\ [Next]_vars => ConsentInv'
    BY DriverConsentInv, OpConsentInv, OtherConsentInv DEF Next
  <1>3. ConsentInv => NoActWithoutOperator BY ConsentInvImplies
  <1> QED BY <1>1, <1>2, <1>3, PTL DEF Spec

-----------------------------------------------------------------------------
(* No stranded run.  What makes the property inductive is that a process    *)
(* that is down has neither coroutines nor requests, and that every row was *)
(* claimed under an older epoch than the one the next boot reconciles with. *)

EpochsPast ==
  \A r \in Runs : epochOf[r] <= epoch /\ (up = "down" => epochOf[r] < epoch)

NobodyWhenDown ==
  up = "down" => /\ \A d \in Drivers : pc[d] = "idle"
                 /\ \A o \in Ops : opPc[o] = "idle"

StrandInv ==
  /\ TypeOK
  /\ EpochsPast
  /\ NobodyWhenDown
  /\ NoStrandedRun

\* A step that stamps rows with the current epoch, or with none, leaves them past.
LEMMA EpochsStayPast ==
  ASSUME TypeOK, TypeOK', EpochsPast, up # "down", up' = up, epoch' = epoch,
         \A r \in Runs : epochOf'[r] \in {epochOf[r], 0, epoch}
  PROVE  EpochsPast'
PROOF
  <1> SUFFICES ASSUME NEW r \in Runs
               PROVE  epochOf'[r] <= epoch /\ up' # "down"
    BY DEF EpochsPast
  <1>1. epoch \in Nat /\ epochOf[r] \in Nat BY DEF TypeOK, Types
  <1>2. epochOf[r] <= epoch BY DEF EpochsPast
  <1>3. CASE epochOf'[r] = epochOf[r] BY <1>2, <1>3
  <1>4. CASE epochOf'[r] = 0 BY <1>1, <1>4
  <1>5. CASE epochOf'[r] = epoch BY <1>1, <1>5
  <1> QED BY <1>3, <1>4, <1>5

\* A coroutine's step writes the row of its own run only.
LEMMA DriverWrites ==
  ASSUME TypeOK, NEW d \in Drivers, DriverStep(d)
  PROVE  /\ pc[d] # "idle"
         /\ requests' = requests /\ process' = process
         /\ \A r \in Runs : r # job[d] => status'[r] = status[r]
         /\ \A r \in Runs : epochOf'[r] \in {epochOf[r], 0, epoch}
         /\ job'[d] \in {job[d], NoRun}
PROOF
  <1> USE DEF TypeOK, Types, Goto, Retire, SetStatus, runRows
  <1>1. CASE Claim(d) BY <1>1 DEF Claim
  <1>2. CASE ClaimRefused(d) BY <1>2 DEF ClaimRefused
  <1>3. CASE RouteEnds(d) BY <1>3 DEF RouteEnds
  <1>4. CASE Dispatch(d) BY <1>4 DEF Dispatch
  <1>5. CASE AskApproval(d) BY <1>5 DEF AskApproval
  <1>6. CASE StoreCheckpoint(d) BY <1>6 DEF StoreCheckpoint
  <1>7. CASE WaitInProcess(d) BY <1>7 DEF WaitInProcess
  <1>8. CASE CommitParked(d) BY <1>8 DEF CommitParked
  <1>9. CASE Decided(d) BY <1>9 DEF Decided, DecisionWakes
  <1>10. CASE ApprovalTimesOut(d) BY <1>10 DEF ApprovalTimesOut, DecisionWakes
  <1>11. CASE StreamEnds(d) BY <1>11 DEF StreamEnds
  <1>12. CASE StreamResult(d) BY <1>12 DEF StreamResult
  <1>13. CASE Finish(d) BY <1>13 DEF Finish
  <1>14. CASE FinishRaises(d) BY <1>14 DEF FinishRaises
  <1>15. CASE WallClock(d) BY <1>15 DEF WallClock, ClockedPcs
  <1>16. CASE TailDone(d) BY <1>16 DEF TailDone
  <1> QED
    BY <1>1, <1>2, <1>3, <1>4, <1>5, <1>6, <1>7, <1>8, <1>9, <1>10, <1>11, <1>12,
       <1>13, <1>14, <1>15, <1>16 DEF DriverStep

\* The other runs keep whoever attends to them.
LEMMA OthersAttended ==
  ASSUME TypeOK, NEW d \in Drivers, DriverStep(d),
         NEW r \in Runs, r # job[d], Attended(r)
  PROVE  Attended(r)'
PROOF
  <1>1. status'[r] = status[r] BY DriverWrites
  <1>2. CancelPending(r)' <=> CancelPending(r) BY DriverWrites DEF CancelPending, requests
  <1>3. \A e \in Drivers : job[e] = r => job'[e] = r /\ pc'[e] = pc[e] BY DriverMoves
  <1> QED BY <1>1, <1>2, <1>3 DEF Attended, Driving

\* Its own run is over, parked, or still in its hands.
LEMMA OwnAttended ==
  ASSUME TypeOK, NEW d \in Drivers, DriverStep(d), job[d] \in Runs, Attended(job[d])
  PROVE  \A r \in Runs : r = job[d] => Attended(r)'
PROOF
  <1> SUFFICES ASSUME NEW r \in Runs, r = job[d] PROVE Attended(r)'
    OBVIOUS
  <1>c. CancelPending(r)' <=> CancelPending(r) BY DriverWrites DEF CancelPending, requests
  <1>d. \A e \in Drivers \ {d} : job'[e] = job[e] /\ pc'[e] = pc[e] BY DriverMoves
  <1>a. status[r] = "queued" =>
          CancelPending(r) \/ \E e \in Drivers : job[e] = r /\ pc[e] = "ready"
    BY DEF Attended
  <1>1. CASE Claim(d) \/ Dispatch(d)
    <2>1. Driving(d, r)' /\ status'[r] \in {"planning", "running"}
      BY <1>1 DEF Claim, Dispatch, Goto, Driving, DrivingPcs, TypeOK, Types
    <2> QED BY <2>1 DEF Attended
  <1>2. CASE ClaimRefused(d)
    <2>1. status' = status /\ pc[d] = "ready" /\ status[r] # "queued"
      BY <1>2 DEF ClaimRefused, runRows
    <2> QED BY <1>c, <1>d, <2>1 DEF Attended, Driving, DrivingPcs
  <1>3. CASE AskApproval(d) \/ StoreCheckpoint(d) \/ WaitInProcess(d) \/ Decided(d)
             \/ ApprovalTimesOut(d) \/ StreamResult(d)
    <2>1. status' = status /\ Driving(d, r) /\ Driving(d, r)'
      BY <1>3 DEF AskApproval, StoreCheckpoint, WaitInProcess, Decided, ApprovalTimesOut,
         DecisionWakes, StreamResult, Goto, Driving, DrivingPcs, TypeOK, Types, runRows
    <2> QED BY <1>a, <1>c, <1>d, <2>1 DEF Attended, Driving, DrivingPcs
  <1>4. CASE RouteEnds(d) \/ CommitParked(d) \/ StreamEnds(d) \/ Finish(d)
             \/ FinishRaises(d) \/ WallClock(d)
    <2>1. status'[r] \in Terminal \cup {"parked"}
      BY <1>4 DEF RouteEnds, CommitParked, StreamEnds, Finish, FinishRaises, WallClock,
         SetStatus, Terminal, Finished, TypeOK, Types, runRows
    <2> QED BY <2>1 DEF Attended, Terminal, Finished
  <1>5. CASE TailDone(d)
    <2>1. status' = status /\ pc[d] \in {"parkTail", "tail"} BY <1>5 DEF TailDone, runRows
    <2> QED BY <1>c, <1>d, <2>1 DEF Attended, Driving, DrivingPcs
  <1> QED BY <1>1, <1>2, <1>3, <1>4, <1>5 DEF DriverStep

LEMMA DriverStrandInv ==
  ASSUME StrandInv, NEW d \in Drivers, DriverStep(d)
  PROVE  StrandInv'
PROOF
  <1>1. TypeOK /\ TypeOK' BY DriverTypeOK DEF StrandInv
  <1>2. up # "down" /\ up' = up /\ epoch' = epoch
    BY <1>1, DriverWrites DEF StrandInv, NobodyWhenDown, process
  <1>3. job[d] \in Runs BY <1>1, DriverWrites, JobOfDriver
  <1>4. EpochsPast'
    BY <1>1, <1>2, DriverWrites, EpochsStayPast DEF StrandInv
  <1>5. ASSUME NEW r \in Runs PROVE Attended(r)'
    <2>1. Attended(r) /\ Attended(job[d]) BY <1>2, <1>3 DEF StrandInv, NoStrandedRun
    <2> QED BY <1>1, <1>3, <2>1, OthersAttended, OwnAttended
  <1> QED BY <1>1, <1>2, <1>4, <1>5 DEF StrandInv, NobodyWhenDown, NoStrandedRun

\* A request on its way to something else than a cancel changes no run's row.
LEMMA QuietRequest ==
  ASSUME TypeOK, NEW o \in Ops, NEW r \in Runs, Attended(r),
         opPc[o] # "cancelWrite" \/ opRun[o] # r,
         \A p \in Ops \ {o} : opPc'[p] = opPc[p] /\ opRun'[p] = opRun[p],
         status'[r] = status[r],
         \A e \in Drivers : job[e] = r => job'[e] = r /\ pc'[e] = pc[e]
  PROVE  Attended(r)'
PROOF
  <1>1. CancelPending(r) => CancelPending(r)' BY DEF CancelPending
  <1> QED BY <1>1 DEF Attended, Driving

LEMMA OpStrandInv ==
  ASSUME StrandInv, NEW o \in Ops, OpArrives(o) \/ OpContinues(o)
  PROVE  StrandInv'
PROOF
  <1>1. TypeOK /\ TypeOK' BY OpTypeOK DEF StrandInv
  <1>2. up # "down"
    BY DEF StrandInv, NobodyWhenDown, OpArrives, OpContinues, DecideReads, CancelParked,
       CancelLive, DecideParked, DecideLive, DecideRefused, SettleLive, SettleParked,
       ResumeReads, ResumeNotParked, ResumeRefused, ResumeStarts, CancelWrites
  <1>3. up' = up /\ epoch' = epoch
    BY DEF OpArrives, OpContinues, DecideReads, CancelParked, CancelLive, DecideParked,
       DecideLive, DecideRefused, SettleLive, SettleParked, ResumeReads,
       ResumeNotParked, ResumeRefused, ResumeStarts, CancelWrites, process
  <1>4. \A r \in Runs : epochOf'[r] \in {epochOf[r], 0}
    BY <1>1 DEF TypeOK, Types, OpArrives, OpContinues, DecideReads, CancelParked,
       CancelLive, DecideParked, DecideLive, DecideRefused, SettleLive, SettleParked,
       ResumeReads, ResumeNotParked, ResumeRefused, ResumeStarts, CancelWrites,
       SetStatus, runRows
  <1>5. EpochsPast' BY <1>1, <1>2, <1>3, <1>4, EpochsStayPast DEF StrandInv
  <1>6. ASSUME NEW r \in Runs PROVE Attended(r)'
    <2>a. Attended(r) BY <1>2 DEF StrandInv, NoStrandedRun
    <2>b. \A p \in Ops \ {o} : opPc'[p] = opPc[p] /\ opRun'[p] = opRun[p]
      BY <1>1, RequestMoves
    <2>1. CASE \E a \in Asks, ok \in BOOLEAN : DecideReads(o, a, ok)
      BY <1>1, <2>1, <2>a, <2>b, QuietRequest DEF DecideReads, runRows, drivers
    <2>2. CASE \E s \in Runs : CancelParked(o, s)
      BY <1>1, <2>2, <2>a, <2>b, QuietRequest DEF CancelParked, runRows, drivers
    <2>3. ASSUME NEW s \in Runs, NEW d \in Drivers, CancelLive(o, s, d)
          PROVE  Attended(r)'
      <3>1. CASE r = s
        <4>1. CancelPending(r)'
          BY <1>1, <2>3, <3>1 DEF CancelLive, StartCancel, CancelPending, TypeOK, Types
        <4> QED BY <4>1 DEF Attended
      <3>2. CASE r # s
        <4>1. \A e \in Drivers : job[e] = r => job'[e] = r /\ pc'[e] = pc[e]
          BY <1>1, <2>3, <3>2 DEF CancelLive, Retire, TypeOK, Types
        <4> QED
          BY <1>1, <2>3, <2>a, <2>b, <4>1, QuietRequest DEF CancelLive, runRows
      <3> QED BY <3>1, <3>2
    <2>4. CASE \/ DecideParked(o) \/ DecideLive(o) \/ DecideRefused(o) \/ SettleLive(o)
               \/ SettleParked(o) \/ ResumeReads(o) \/ ResumeNotParked(o)
      <3>1. opPc[o] # "cancelWrite" /\ status' = status /\ job' = job /\ pc' = pc
        BY <2>4 DEF DecideParked, DecideLive, DecideRefused, SettleLive, SettleParked,
           ResumeReads, ResumeNotParked, runRows, drivers
      <3> QED BY <1>1, <2>a, <2>b, <3>1, QuietRequest
    <2>5. ASSUME NEW d \in Drivers, ResumeStarts(o, d)
          PROVE  Attended(r)'
      <3>1. CASE r = opRun[o]
        <4>1. status'[r] = "queued" /\ job'[d] = r /\ pc'[d] = "ready"
          BY <1>1, <2>5, <3>1 DEF ResumeStarts, TypeOK, Types
        <4> QED BY <4>1 DEF Attended
      <3>2. CASE r # opRun[o]
        <4>1. status'[r] = status[r] BY <1>1, <2>5, <3>2 DEF ResumeStarts, TypeOK, Types
        <4>2. job[d] # r
          BY <1>1, <2>5, ConstantsAssumption
          DEF ResumeStarts, TypeOK, Assigned, ConstantsAssumption
        <4>3. \A e \in Drivers : job[e] = r => job'[e] = r /\ pc'[e] = pc[e]
          BY <1>1, <2>5, <4>2 DEF ResumeStarts, TypeOK, Types
        <4> QED
          BY <1>1, <2>5, <2>a, <2>b, <4>1, <4>3, QuietRequest DEF ResumeStarts
      <3> QED BY <3>1, <3>2
    <2>6. CASE ResumeRefused(o) \/ CancelWrites(o)
      <3>1. CASE r = opRun[o]
        <4>1. status'[r] \in {"failed", "cancelled"}
          BY <1>1, <2>6, <3>1 DEF ResumeRefused, CancelWrites, SetStatus, TypeOK, Types
        <4> QED BY <4>1 DEF Attended
      <3>2. CASE r # opRun[o]
        <4>1. status'[r] = status[r] /\ job' = job /\ pc' = pc
          BY <1>1, <2>6, <3>2 DEF ResumeRefused, CancelWrites, SetStatus, TypeOK, Types,
             drivers
        <4> QED BY <1>1, <2>a, <2>b, <3>2, <4>1, QuietRequest
      <3> QED BY <3>1, <3>2
    <2> QED BY <2>1, <2>2, <2>3, <2>4, <2>5, <2>6 DEF OpArrives, OpContinues
  <1> QED BY <1>1, <1>2, <1>3, <1>5, <1>6 DEF StrandInv, NobodyWhenDown, NoStrandedRun

LEMMA InitStrandInv == Init => StrandInv
PROOF
  <1> SUFFICES ASSUME Init PROVE StrandInv
    OBVIOUS
  <1>1. TypeOK BY InitTypeOK
  <1>2. EpochsPast BY DEF Init, EpochsPast
  <1>3. NobodyWhenDown BY DEF Init, NobodyWhenDown
  <1>4. NoStrandedRun BY DEF Init, NoStrandedRun, Attended
  <1> QED BY <1>1, <1>2, <1>3, <1>4 DEF StrandInv

\* The new row has its coroutine; an idle coroutine attended to nobody.
LEMMA EnqueueStrandInv ==
  ASSUME StrandInv, NEW s \in Runs, NEW d \in Drivers, Enqueue(s, d)
  PROVE  StrandInv'
PROOF
  <1>1. TypeOK /\ TypeOK' BY EnqueueTypeOK DEF StrandInv
  <1>2. up = "up" /\ up' = up /\ epoch' = epoch /\ epochOf' = epochOf
    BY DEF Enqueue, SetStatus, process
  <1>3. EpochsPast' BY <1>1, <1>2, EpochsStayPast DEF StrandInv
  <1>4. ASSUME NEW r \in Runs PROVE Attended(r)'
    <2>1. CASE r = s
      <3>1. status'[r] = "queued" /\ job'[d] = r /\ pc'[d] = "ready"
        BY <1>1, <2>1 DEF Enqueue, SetStatus, TypeOK, Types
      <3> QED BY <3>1 DEF Attended
    <2>2. CASE r # s
      <3>1. status'[r] = status[r] BY <1>1, <2>2 DEF Enqueue, SetStatus, TypeOK, Types
      <3>2. job[d] # r
        BY <1>1, ConstantsAssumption DEF Enqueue, TypeOK, Assigned, ConstantsAssumption
      <3>3. \A e \in Drivers : job[e] = r => job'[e] = r /\ pc'[e] = pc[e]
        BY <1>1, <3>2 DEF Enqueue, TypeOK, Types
      <3>4. CancelPending(r)' <=> CancelPending(r) BY DEF Enqueue, CancelPending, requests
      <3>5. Attended(r) BY <1>2 DEF StrandInv, NoStrandedRun
      <3> QED BY <3>1, <3>3, <3>4, <3>5 DEF Attended, Driving
    <2> QED BY <2>1, <2>2
  <1> QED BY <1>1, <1>2, <1>3, <1>4 DEF StrandInv, NobodyWhenDown, NoStrandedRun

\* The next process has an epoch of its own, so every row is a past one's.
LEMMA CrashStrandInv ==
  ASSUME StrandInv, Crash
  PROVE  StrandInv'
PROOF
  <1>1. TypeOK /\ TypeOK' BY CrashTypeOK DEF StrandInv
  <1>2. up' = "down" BY DEF Crash
  <1>3. ASSUME NEW r \in Runs PROVE epochOf'[r] <= epoch' /\ epochOf'[r] < epoch'
    <2>1. epochOf[r] \in Nat /\ epoch \in Nat BY <1>1 DEF TypeOK, Types
    <2>2. epochOf[r] <= epoch BY DEF StrandInv, EpochsPast
    <2>3. epochOf'[r] = epochOf[r] /\ epoch' = epoch + 1 BY DEF Crash, runRows
    <2> QED BY <2>1, <2>2, <2>3
  <1>4. EpochsPast' BY <1>3 DEF EpochsPast
  <1>5. NobodyWhenDown' BY DEF Crash, NobodyWhenDown
  <1> QED BY <1>1, <1>2, <1>4, <1>5 DEF StrandInv, NoStrandedRun

\* Every row that still says queued, planning or running is an orphan of a past
\* epoch: it is closed, or queued again with a coroutine of its own.
LEMMA ReconcileStrandInv ==
  ASSUME StrandInv, BootReconciles
  PROVE  StrandInv'
PROOF
  <1>1. TypeOK /\ TypeOK' BY BootTypeOK DEF StrandInv, Boot
  <1>2. up = "down" /\ up' = "booting" /\ epoch' = epoch BY DEF BootReconciles
  <1>3. EpochsPast'
    <2> SUFFICES ASSUME NEW r \in Runs PROVE epochOf'[r] <= epoch
      BY <1>2 DEF EpochsPast
    <2>1. epoch \in Nat /\ epochOf[r] <= epoch BY <1>1 DEF StrandInv, EpochsPast, TypeOK, Types
    <2>2. epochOf'[r] \in {0, epochOf[r]} BY DEF BootReconciles
    <2> QED BY <2>1, <2>2
  <1>4. ASSUME NEW r \in Runs PROVE Attended(r)'
    <2>1. epochOf[r] # epoch
      <3>1. epochOf[r] \in Nat /\ epoch \in Nat BY <1>1 DEF TypeOK, Types
      <3>2. epochOf[r] < epoch BY <1>2 DEF StrandInv, EpochsPast
      <3> QED BY <3>1, <3>2
    <2>2. status[r] \in {"queued", "planning", "running"} => r \in Orphans
      BY <2>1 DEF Orphans
    <2>3. r \in Orphans => r \in ToFail \/ r \in ToSkip \/ r \in ToResume
      BY DEF ToResume
    <2>4. status'[r] = CASE r \in ToFail   -> "failed"
                         [] r \in ToSkip   -> "cancelled"
                         [] r \in ToResume -> "queued"
                         [] OTHER          -> status[r]
      BY DEF BootReconciles
    <2>5. CASE r \in ToFail
      <3>1. status'[r] = "failed" BY <2>4, <2>5 DEF ToFail, ToSkip, ToResume
      <3> QED BY <3>1 DEF Attended
    <2>6. CASE r \in ToSkip
      <3>1. status'[r] = "cancelled" BY <2>4, <2>6 DEF ToFail, ToSkip, ToResume
      <3> QED BY <3>1 DEF Attended
    <2>7. CASE r \in ToResume
      <3>1. status'[r] = "queued" BY <2>4, <2>7 DEF ToResume
      <3>2. PICK driverOf \in [ToResume -> Drivers] :
              /\ \A t, s \in ToResume : driverOf[t] = driverOf[s] => t = s
              /\ pc' = [d \in Drivers |->
                          IF \E t \in ToResume : driverOf[t] = d THEN "ready" ELSE "idle"]
              /\ job' = [d \in Drivers |->
                          IF \E t \in ToResume : driverOf[t] = d
                          THEN CHOOSE t \in ToResume : driverOf[t] = d ELSE NoRun]
        BY DEF BootReconciles
      <3> DEFINE d == driverOf[r]
                 t == CHOOSE t \in ToResume : driverOf[t] = d
      <3>3. d \in Drivers BY <2>7, <3>2
      <3>4. t \in ToResume /\ driverOf[t] = d BY <2>7
      <3>5. t = r BY <2>7, <3>2, <3>4
      <3>6. pc'[d] = "ready" BY <2>7, <3>2, <3>3
      <3>7. job'[d] = t BY <2>7, <3>2, <3>3
      <3> QED BY <3>1, <3>3, <3>5, <3>6, <3>7 DEF Attended
    <2>8. CASE r \notin ToFail \cup ToSkip \cup ToResume
      <3>1. status'[r] = status[r] BY <2>4, <2>8
      <3> QED BY <2>2, <2>3, <2>8, <3>1 DEF Attended
    <2> QED BY <2>5, <2>6, <2>7, <2>8
  <1> QED BY <1>1, <1>2, <1>3, <1>4 DEF StrandInv, NobodyWhenDown, NoStrandedRun

\* The approval reaper writes no run row and moves nobody.
LEMMA ReapStrandInv ==
  ASSUME StrandInv, BootReapsApprovals
  PROVE  StrandInv'
PROOF
  <1>1. TypeOK' BY BootTypeOK DEF StrandInv, Boot
  <1>2. up = "booting" /\ up' = "up" BY DEF BootReapsApprovals
  <1>3. UNCHANGED <<status, epochOf, epoch, pc, job, opPc, opRun>>
    BY DEF BootReapsApprovals, runRows, drivers, requests
  <1>4. EpochsPast' BY <1>2, <1>3 DEF StrandInv, EpochsPast
  <1>5. NoStrandedRun'
    BY <1>2, <1>3 DEF StrandInv, NoStrandedRun, Attended, CancelPending, Driving
  <1> QED BY <1>1, <1>2, <1>4, <1>5 DEF StrandInv, NobodyWhenDown

LEMMA NextStrandInv ==
  ASSUME StrandInv, [Next]_vars
  PROVE  StrandInv'
PROOF
  <1>1. CASE \E r \in Runs, d \in Drivers : Enqueue(r, d) BY <1>1, EnqueueStrandInv
  <1>2. CASE \E d \in Drivers : DriverStep(d) BY <1>2, DriverStrandInv
  <1>3. CASE \E o \in Ops : OpArrives(o) \/ OpContinues(o) BY <1>3, OpStrandInv
  <1>4. CASE Crash BY <1>4, CrashStrandInv
  <1>5. CASE Boot BY <1>5, ReconcileStrandInv, ReapStrandInv DEF Boot
  <1>6. CASE UNCHANGED vars
    <2>1. TypeOK' BY <1>6, NextTypeOK DEF StrandInv
    <2>2. UNCHANGED <<status, epochOf, epoch, up, pc, job, opPc, opRun>>
      BY <1>6 DEF vars, runRows, drivers, requests, process
    <2>3. (EpochsPast /\ NobodyWhenDown /\ NoStrandedRun)'
      BY <2>2 DEF StrandInv, EpochsPast, NobodyWhenDown, NoStrandedRun, Attended,
         CancelPending, Driving
    <2> QED BY <2>1, <2>3 DEF StrandInv
  <1> QED BY <1>1, <1>2, <1>3, <1>4, <1>5, <1>6 DEF Next

\* For any number of runs, coroutines, operators, approvals and restarts: while
\* the process is up, whatever is queued, planning or running has somebody who
\* will move it on.
THEOREM NobodyStranded == Spec => []NoStrandedRun
PROOF
  <1>1. Init => StrandInv BY InitStrandInv
  <1>2. StrandInv /\ [Next]_vars => StrandInv' BY NextStrandInv
  <1>3. StrandInv => NoStrandedRun BY DEF StrandInv
  <1> QED BY <1>1, <1>2, <1>3, PTL DEF Spec

-----------------------------------------------------------------------------
(* A finished run stays as it ended.                                        *)

LEMMA DriverWritesItsOwn ==
  ASSUME TypeOK, NEW d \in Drivers, DriverStep(d),
         NEW r \in Runs, status[r] \in Finished, status'[r] # status[r]
  PROVE  Driving(d, r)
<1> USE DEF TypeOK, Types, Goto, Retire, SetStatus, runRows
<1>0. job[d] = r
  BY DriverWrites
<1>1. pc[d] \in DrivingPcs
  <2>1. CASE Claim(d)
    BY <2>1, <1>0 DEF Claim, Finished
  <2>2. CASE ClaimRefused(d) \/ AskApproval(d) \/ StoreCheckpoint(d) \/ WaitInProcess(d)
             \/ StreamResult(d) \/ TailDone(d)
    BY <2>2 DEF ClaimRefused, AskApproval, StoreCheckpoint, WaitInProcess, StreamResult, TailDone
  <2>3. CASE RouteEnds(d) \/ Dispatch(d) \/ CommitParked(d) \/ StreamEnds(d) \/ Finish(d)
             \/ FinishRaises(d)
    BY <2>3 DEF RouteEnds, Dispatch, CommitParked, StreamEnds, Finish, FinishRaises, DrivingPcs
  <2>4. CASE Decided(d) \/ ApprovalTimesOut(d)
    BY <2>4 DEF Decided, ApprovalTimesOut, DecisionWakes
  <2>5. CASE WallClock(d)
    BY <2>5, <1>0 DEF WallClock, Terminal
  <2> QED BY <2>1, <2>2, <2>3, <2>4, <2>5 DEF DriverStep
<1> QED BY <1>0, <1>1 DEF Driving

LEMMA RequestWritesItsOwn ==
  ASSUME TypeOK, NEW o \in Ops, OpArrives(o) \/ OpContinues(o),
         NEW r \in Runs, status'[r] # status[r]
  PROVE  opRun[o] = r /\ opPc[o] \in {"cancelWrite", "resumeWrite"}
<1> USE DEF TypeOK, Types, runRows
<1>1. ~OpArrives(o)
  BY DEF OpArrives, DecideReads, CancelParked, CancelLive
<1>2. OpContinues(o)
  BY <1>1
<1>3. CASE DecideParked(o) \/ DecideLive(o) \/ DecideRefused(o) \/ SettleLive(o)
           \/ SettleParked(o) \/ ResumeReads(o) \/ ResumeNotParked(o)
  BY <1>3 DEF DecideParked, DecideLive, DecideRefused, SettleLive, SettleParked, ResumeReads,
     ResumeNotParked
<1>4. CASE ResumeRefused(o) \/ CancelWrites(o) \/ \E d \in Drivers : ResumeStarts(o, d)
  BY <1>4 DEF ResumeRefused, CancelWrites, ResumeStarts, SetStatus
<1> QED BY <1>2, <1>3, <1>4 DEF OpContinues

LEMMA BootSparesFinished ==
  ASSUME Boot, NEW r \in Runs, status[r] \in Finished
  PROVE  status'[r] = status[r]
<1>1. r \notin Orphans
  BY DEF Orphans, Finished
<1>2. CASE BootReconciles
  <2>1. status'[r] = CASE r \in ToFail   -> "failed"
                       [] r \in ToSkip   -> "cancelled"
                       [] r \in ToResume -> "queued"
                       [] OTHER          -> status[r]
    BY <1>2 DEF BootReconciles
  <2>2. r \notin ToFail /\ r \notin ToSkip /\ r \notin ToResume
    BY <1>1 DEF ToFail, ToSkip, ToResume
  <2> QED BY <2>1, <2>2
<1>3. CASE BootReapsApprovals
  BY <1>3 DEF BootReapsApprovals, runRows
<1> QED BY <1>2, <1>3 DEF Boot

\* Whatever tail a coroutine is in and whatever a boot finds, a finished run that
\* nobody drives is written again only by a cancel or resume already under way.
THEOREM FinishedRunsStay == Spec => FinishedStays
<1>1. TypeOK /\ [Next]_vars =>
        [\A r \in Runs : status[r] \in Finished /\ status'[r] # status[r] =>
           \/ \E d \in Drivers : Driving(d, r)
           \/ \E o \in Ops : opRun[o] = r /\ opPc[o] \in {"cancelWrite", "resumeWrite"}]_vars
  <2> SUFFICES ASSUME TypeOK, Next, NEW r \in Runs,
                      status[r] \in Finished, status'[r] # status[r]
               PROVE  \/ \E d \in Drivers : Driving(d, r)
                      \/ \E o \in Ops : opRun[o] = r /\ opPc[o] \in {"cancelWrite", "resumeWrite"}
    OBVIOUS
  <2>1. ~ \E s \in Runs, d \in Drivers : Enqueue(s, d)
    BY DEF Enqueue, SetStatus, Finished, TypeOK, Types
  <2>2. ~Crash
    BY DEF Crash, runRows
  <2>3. ~Boot
    BY BootSparesFinished
  <2>4. CASE \E d \in Drivers : DriverStep(d)
    BY <2>4, DriverWritesItsOwn
  <2>5. CASE \E o \in Ops : OpArrives(o) \/ OpContinues(o)
    BY <2>5, RequestWritesItsOwn
  <2> QED BY <2>1, <2>2, <2>3, <2>4, <2>5 DEF Next
<1> QED BY TypeCorrect, <1>1, PTL DEF Spec, FinishedStays

-----------------------------------------------------------------------------
(* The claim contract, with one request at a time.                          *)

\* A coroutine that has the run, or is about to claim it.
Holds(d, r) == job[d] = r /\ pc[d] \in DrivingPcs \cup {"ready"}

OneHolder == \A r \in Runs : \A d, e \in Drivers : Holds(d, r) /\ Holds(e, r) => d = e

\* Nobody holds a run that is parked or not there, nor one that a request is about
\* to resume: the first is what the claim relies on, the second what a second
\* request would break.
Released ==
  /\ \A r \in Runs, d \in Drivers : status[r] \in {"absent", "parked"} => ~Holds(d, r)
  /\ \A o \in Ops, d \in Drivers : opPc[o] = "resumeWrite" => ~Holds(d, opRun[o])

\* Coroutines, requests and approvals stand for runs that exist.
Known ==
  /\ \A d \in Drivers : job[d] \in Runs => status[job[d]] # "absent"
  /\ \A o \in Ops : opRun[o] \in Runs => status[opRun[o]] # "absent"
  /\ \A a \in Asks : askRun[a] \in Runs => status[askRun[a]] # "absent"

ClaimInv == OneHolder /\ Released /\ Known

LEMMA ClaimInvInit == Init => ClaimInv
  BY ConstantsAssumption DEF Init, ClaimInv, OneHolder, Released, Known, Holds, DrivingPcs

\* A step that lets go of runs, and takes none.
LEMMA ClaimInvKept ==
  ASSUME TypeOK, ClaimInv,
         \A r \in Runs, d \in Drivers : Holds(d, r)' => Holds(d, r),
         \A r \in Runs : status'[r] = "absent" => status[r] = "absent",
         \A r \in Runs, d \in Drivers :
           status'[r] = "parked" /\ Holds(d, r)' => status[r] = "parked",
         \A d \in Drivers : job'[d] \in Runs => job'[d] = job[d],
         \A o \in Ops : opRun'[o] \in Runs =>
           \/ opRun'[o] = opRun[o] /\ (opPc'[o] = "resumeWrite" => opPc[o] = "resumeWrite")
           \/ status[opRun'[o]] # "absent" /\ (opPc'[o] = "resumeWrite" => status[opRun'[o]] = "parked"),
         \A o \in Ops : opPc'[o] = "resumeWrite" => opRun'[o] \in Runs,
         \A a \in Asks : askRun'[a] \in Runs =>
           askRun'[a] = askRun[a] \/ status[askRun'[a]] # "absent"
  PROVE  ClaimInv'
<1>1. OneHolder'
  BY DEF ClaimInv, OneHolder
<1>2. ASSUME NEW r \in Runs, NEW d \in Drivers, status'[r] \in {"absent", "parked"}
      PROVE  ~Holds(d, r)'
  BY <1>2 DEF ClaimInv, Released
<1>3. ASSUME NEW o \in Ops, NEW d \in Drivers, opPc'[o] = "resumeWrite"
      PROVE  ~Holds(d, opRun[o])'
  BY <1>3 DEF ClaimInv, Released
<1>4. Known'
  BY DEF ClaimInv, Known
<1> QED BY <1>1, <1>2, <1>3, <1>4 DEF ClaimInv, Released

\* What a coroutine's step does to who holds what.
LEMMA DriverLetsGo ==
  ASSUME TypeOK, ClaimInv, NEW d \in Drivers, DriverStep(d), NEW r \in Runs, r = job[d]
  PROVE  /\ Holds(d, r)' => Holds(d, r)
         /\ status'[r] # "absent"
         /\ status'[r] = "parked" /\ status[r] # "parked" => Holds(d, r) /\ ~Holds(d, r)'
         /\ \A a \in Asks : askRun'[a] \in {askRun[a], r}
<1> USE DEF TypeOK, Types, Goto, Retire, SetStatus, Holds, DrivingPcs, runRows, askRows
<1>0. job[d] = r /\ status[r] # "absent"
  BY DriverWrites, JobOfDriver DEF ClaimInv, Known
<1>1. CASE Claim(d) BY <1>0, <1>1 DEF Claim
<1>2. CASE ClaimRefused(d) BY <1>0, <1>2 DEF ClaimRefused
<1>3. CASE RouteEnds(d) BY <1>0, <1>3 DEF RouteEnds
<1>4. CASE Dispatch(d) BY <1>0, <1>4 DEF Dispatch
<1>5. CASE AskApproval(d) BY <1>0, <1>5 DEF AskApproval
<1>6. CASE StoreCheckpoint(d) BY <1>0, <1>6 DEF StoreCheckpoint
<1>7. CASE WaitInProcess(d) BY <1>0, <1>7 DEF WaitInProcess
<1>8. CASE CommitParked(d) BY <1>0, <1>8 DEF CommitParked
<1>9. CASE Decided(d) BY <1>0, <1>9 DEF Decided, DecisionWakes, StampIfPending
<1>10. CASE ApprovalTimesOut(d) BY <1>0, <1>10 DEF ApprovalTimesOut, DecisionWakes, StampIfPending
<1>11. CASE StreamEnds(d) BY <1>0, <1>11 DEF StreamEnds
<1>12. CASE StreamResult(d) BY <1>0, <1>12 DEF StreamResult
<1>13. CASE Finish(d) BY <1>0, <1>13 DEF Finish
<1>14. CASE FinishRaises(d) BY <1>0, <1>14 DEF FinishRaises
<1>15. CASE WallClock(d) BY <1>0, <1>15 DEF WallClock, ClockedPcs
<1>16. CASE TailDone(d) BY <1>0, <1>16 DEF TailDone
<1> QED
  BY <1>1, <1>2, <1>3, <1>4, <1>5, <1>6, <1>7, <1>8, <1>9, <1>10, <1>11, <1>12,
     <1>13, <1>14, <1>15, <1>16 DEF DriverStep

LEMMA DriverClaimInv ==
  ASSUME TypeOK, ClaimInv, NEW d \in Drivers, DriverStep(d)
  PROVE  ClaimInv'
<1>1. /\ job[d] \in Runs /\ status[job[d]] # "absent" /\ requests' = requests
      /\ \A r \in Runs : r # job[d] => status'[r] = status[r]
      /\ job'[d] \in {job[d], NoRun}
  BY DriverWrites, JobOfDriver DEF ClaimInv, Known
<1>2. \A e \in Drivers \ {d} : pc'[e] = pc[e] /\ job'[e] = job[e]
  BY DriverMoves
<1>3. \A r \in Runs, e \in Drivers : Holds(e, r)' => Holds(e, r)
  <2>1. \A r \in Runs : Holds(d, r)' => r = job[d]
    BY <1>1, ConstantsAssumption DEF Holds, ConstantsAssumption
  <2> QED BY <1>2, <2>1, DriverLetsGo DEF Holds
<1>4. \A r \in Runs, e \in Drivers :
        status'[r] = "parked" /\ Holds(e, r)' => status[r] = "parked"
  <2> SUFFICES ASSUME NEW r \in Runs, NEW e \in Drivers, r = job[d],
                      status'[r] = "parked", Holds(e, r)', status[r] # "parked"
               PROVE  FALSE
    BY <1>1
  <2>1. Holds(d, r) /\ ~Holds(d, r)'
    BY DriverLetsGo
  <2>2. Holds(e, r)
    BY <1>3
  <2>3. e = d
    BY <2>1, <2>2 DEF ClaimInv, OneHolder
  <2> QED BY <2>1, <2>3
<1>5. \A r \in Runs : status'[r] = "absent" => status[r] = "absent"
  BY <1>1, DriverLetsGo
<1>6. \A a \in Asks : askRun'[a] \in Runs =>
        askRun'[a] = askRun[a] \/ status[askRun'[a]] # "absent"
  BY <1>1, DriverLetsGo
<1>7. \A e \in Drivers : job'[e] \in Runs => job'[e] = job[e]
  BY <1>1, <1>2, ConstantsAssumption DEF ConstantsAssumption
<1>8. opPc' = opPc /\ opRun' = opRun
  BY <1>1 DEF requests
<1>9. \A o \in Ops : opPc[o] = "resumeWrite" => opRun[o] \in Runs
  BY DEF TypeOK, Types, Assigned
<1> QED BY <1>3, <1>4, <1>5, <1>6, <1>7, <1>8, <1>9, ClaimInvKept

LEMMA EnqueueClaimInv ==
  ASSUME TypeOK, ClaimInv, NEW r \in Runs, NEW d \in Drivers, Enqueue(r, d)
  PROVE  ClaimInv'
<1>1. /\ status[r] = "absent" /\ pc[d] = "idle"
      /\ \A s \in Runs : status'[s] = IF s = r THEN "queued" ELSE status[s]
      /\ job'[d] = r /\ \A e \in Drivers \ {d} : job'[e] = job[e] /\ pc'[e] = pc[e]
      /\ UNCHANGED <<opPc, opRun, askRun>>
  BY DEF Enqueue, SetStatus, TypeOK, Types, askRows, requests
<1>2. \A e \in Drivers : ~Holds(e, r)
  BY <1>1 DEF ClaimInv, Released
<1>3. \A s \in Runs, e \in Drivers : Holds(e, s)' => Holds(e, s) \/ (e = d /\ s = r)
  BY <1>1 DEF Holds
<1>4. OneHolder'
  BY <1>2, <1>3 DEF ClaimInv, OneHolder
<1>5. ASSUME NEW s \in Runs, NEW e \in Drivers, status'[s] \in {"absent", "parked"}
      PROVE  ~Holds(e, s)'
  BY <1>1, <1>3, <1>5 DEF ClaimInv, Released
<1>6. ASSUME NEW o \in Ops, NEW e \in Drivers, opPc[o] = "resumeWrite"
      PROVE  ~Holds(e, opRun[o])'
  <2>1. opRun[o] \in Runs /\ opRun[o] # r
    BY <1>1, <1>6 DEF TypeOK, Types, Assigned, ClaimInv, Known
  <2>2. ASSUME NEW s \in Runs, s = opRun[o] PROVE ~Holds(e, s)'
    BY <1>3, <1>6, <2>1, <2>2 DEF ClaimInv, Released
  <2> QED BY <1>1, <2>1, <2>2
<1>7. Known'
  BY <1>1 DEF ClaimInv, Known
<1> QED BY <1>1, <1>4, <1>5, <1>6, <1>7 DEF ClaimInv, Released

\* A request that only looks, or lets go of a coroutine.
LEMMA ArrivalClaimInv ==
  ASSUME TypeOK, ClaimInv, NEW o \in Ops, OpArrives(o)
  PROVE  ClaimInv'
<1> USE DEF TypeOK, Types, Assigned, runRows, askRows, drivers, requests
<1>1. \A r \in Runs, d \in Drivers : Holds(d, r)' => Holds(d, r)
  BY DEF OpArrives, DecideReads, CancelParked, CancelLive, Retire, Holds, DrivingPcs
<1>2. UNCHANGED <<status, askRun>>
  BY DEF OpArrives, DecideReads, CancelParked, CancelLive
<1>3. \A d \in Drivers : job'[d] \in Runs => job'[d] = job[d]
  BY ConstantsAssumption
  DEF OpArrives, DecideReads, CancelParked, CancelLive, Retire, ConstantsAssumption
<1>4. /\ opPc' = [opPc EXCEPT ![o] = opPc'[o]] /\ opRun' = [opRun EXCEPT ![o] = opRun'[o]]
      /\ opPc'[o] \in {"read", "cancelWrite"}
  BY DEF OpArrives, DecideReads, CancelParked, CancelLive, StartCancel
<1>5. opRun'[o] \in Runs => status[opRun'[o]] # "absent"
  <2>1. CASE \E a \in Asks, ok \in BOOLEAN : DecideReads(o, a, ok)
    BY <2>1 DEF DecideReads, ClaimInv, Known
  <2>2. CASE \E r \in Runs : CancelParked(o, r)
    BY <2>2 DEF CancelParked, StartCancel
  <2>3. CASE \E r \in Runs, d \in Drivers : CancelLive(o, r, d)
    BY <2>3 DEF CancelLive, StartCancel, ClaimInv, Known
  <2> QED BY <2>1, <2>2, <2>3 DEF OpArrives
<1>6. \A p \in Ops : opPc'[p] = "resumeWrite" =>
        opRun'[p] \in Runs /\ opPc[p] = "resumeWrite" /\ opRun'[p] = opRun[p]
  BY <1>4
<1>7. \A p \in Ops \ {o} : opPc'[p] = opPc[p] /\ opRun'[p] = opRun[p]
  BY <1>4
<1> QED BY <1>1, <1>2, <1>3, <1>5, <1>6, <1>7, <1>4, ClaimInvKept

\* A request that goes on, and starts nothing.
LEMMA QuietClaimInv ==
  ASSUME TypeOK, ClaimInv, NEW o \in Ops, OpContinues(o),
         ~ \E d \in Drivers : ResumeStarts(o, d)
  PROVE  ClaimInv'
<1> USE DEF TypeOK, Types, Assigned, runRows, askRows, drivers, requests
<1>0. opRun[o] \in Runs /\ status[opRun[o]] # "absent"
  <2>1. opPc[o] # "idle"
    BY DEF OpContinues, DecideParked, DecideLive, DecideRefused, SettleLive, SettleParked,
       ResumeReads, ResumeNotParked, ResumeRefused, CancelWrites
  <2> QED BY <2>1 DEF ClaimInv, Known
<1>1. UNCHANGED <<pc, job, askRun>>
  BY DEF OpContinues, DecideParked, DecideLive, DecideRefused, SettleLive, SettleParked, Stamp,
     ResumeReads, ResumeNotParked, ResumeRefused, CancelWrites
<1>2. status' = status \/ \E s \in {"failed", "cancelled"} : status' = [status EXCEPT ![opRun[o]] = s]
  BY DEF OpContinues, DecideParked, DecideLive, DecideRefused, SettleLive, SettleParked,
     ResumeReads, ResumeNotParked, ResumeRefused, CancelWrites, SetStatus
<1>3. /\ \A p \in Ops \ {o} : opPc'[p] = opPc[p] /\ opRun'[p] = opRun[p]
      /\ opRun'[o] \in {opRun[o], NoRun}
      /\ opPc'[o] = "resumeWrite" => status[opRun[o]] = "parked" /\ opRun'[o] = opRun[o]
  BY DEF OpContinues, DecideParked, DecideLive, DecideRefused, SettleLive, SettleParked,
     ResumeReads, ResumeNotParked, ResumeRefused, CancelWrites, OpGoto, OpReturns
<1>4. \A r \in Runs, d \in Drivers : Holds(d, r)' => Holds(d, r)
  BY <1>1 DEF Holds
<1>5. \A r \in Runs : /\ status'[r] = "absent" => status[r] = "absent"
                      /\ status'[r] = "parked" => status[r] = "parked"
  BY <1>0, <1>2
<1>6. \A p \in Ops : opRun'[p] \in Runs =>
        \/ opRun'[p] = opRun[p] /\ (opPc'[p] = "resumeWrite" => opPc[p] = "resumeWrite")
        \/ status[opRun'[p]] # "absent" /\ (opPc'[p] = "resumeWrite" => status[opRun'[p]] = "parked")
  BY <1>0, <1>3, ConstantsAssumption DEF ConstantsAssumption
<1>7. \A p \in Ops : opPc'[p] = "resumeWrite" => opRun'[p] \in Runs
  BY <1>0, <1>3
<1> QED BY <1>1, <1>4, <1>5, <1>6, <1>7, ClaimInvKept

OneRequest == \A o, p \in Ops : o = p

\* Only here does it matter that no other request resumes the same run.
LEMMA ResumeClaimInv ==
  ASSUME TypeOK, ClaimInv, OneRequest, NEW o \in Ops, NEW d \in Drivers, ResumeStarts(o, d)
  PROVE  ClaimInv'
<1> DEFINE r == opRun[o]
<1>1. /\ r \in Runs /\ opPc[o] = "resumeWrite" /\ pc[d] = "idle"
      /\ status[r] # "absent"
  BY DEF ResumeStarts, TypeOK, Types, Assigned, ClaimInv, Known
<1>2. /\ \A s \in Runs : status'[s] = IF s = r THEN "queued" ELSE status[s]
      /\ job'[d] = r /\ \A e \in Drivers \ {d} : job'[e] = job[e] /\ pc'[e] = pc[e]
      /\ opPc'[o] = "idle" /\ opRun'[o] = NoRun
      /\ askRun' = askRun
  BY <1>1 DEF ResumeStarts, OpReturns, TypeOK, Types, askRows
<1>3. \A e \in Drivers : ~Holds(e, r)
  BY <1>1 DEF ClaimInv, Released
<1>4. \A p \in Ops : p = o
  BY DEF OneRequest
<1> HIDE DEF r
<1>5. \A s \in Runs, e \in Drivers : Holds(e, s)' => Holds(e, s) \/ (e = d /\ s = r)
  BY <1>2 DEF Holds
<1>6. OneHolder'
  BY <1>3, <1>5 DEF ClaimInv, OneHolder
<1>7. ASSUME NEW s \in Runs, NEW e \in Drivers, status'[s] \in {"absent", "parked"}
      PROVE  ~Holds(e, s)'
  BY <1>2, <1>5, <1>7 DEF ClaimInv, Released
<1>8. \A p \in Ops : opPc'[p] # "resumeWrite"
  BY <1>2, <1>4
<1>9. Known'
  BY <1>1, <1>2, <1>4, ConstantsAssumption DEF ClaimInv, Known, ConstantsAssumption
<1> QED BY <1>6, <1>7, <1>8, <1>9 DEF ClaimInv, Released

LEMMA CrashClaimInv ==
  ASSUME TypeOK, ClaimInv, Crash
  PROVE  ClaimInv'
  BY ConstantsAssumption
  DEF Crash, ClaimInv, OneHolder, Released, Known, Holds, DrivingPcs, runRows, askRows,
      ConstantsAssumption

\* The boot starts one coroutine for each run it resumes, and nobody else is there.
LEMMA BootClaimInv ==
  ASSUME TypeOK, ClaimInv, NobodyWhenDown, BootReconciles
  PROVE  ClaimInv'
<1>1. /\ \A d \in Drivers : pc[d] = "idle" /\ job[d] = NoRun
      /\ \A o \in Ops : opPc[o] = "idle" /\ opRun[o] = NoRun
  BY DEF BootReconciles, NobodyWhenDown, TypeOK, Assigned
<1>2. PICK driverOf \in [ToResume -> Drivers] :
        /\ \A t, s \in ToResume : driverOf[t] = driverOf[s] => t = s
        /\ pc' = [d \in Drivers |->
                    IF \E t \in ToResume : driverOf[t] = d THEN "ready" ELSE "idle"]
        /\ job' = [d \in Drivers |->
                    IF \E t \in ToResume : driverOf[t] = d
                    THEN CHOOSE t \in ToResume : driverOf[t] = d ELSE NoRun]
  BY DEF BootReconciles
<1>3. ToResume \subseteq Runs /\ \A r \in ToResume : status[r] \in {"queued", "planning"}
  BY DEF ToResume, ToFail, Orphans, NeverDispatched
<1>4. ASSUME NEW d \in Drivers, NEW r \in Runs, job'[d] = r
      PROVE  r \in ToResume /\ driverOf[r] = d
  <2>1. \E t \in ToResume : driverOf[t] = d
    BY <1>2, <1>4, ConstantsAssumption DEF ConstantsAssumption
  <2> DEFINE t == CHOOSE t \in ToResume : driverOf[t] = d
  <2>2. t \in ToResume /\ driverOf[t] = d
    BY <2>1
  <2>3. job'[d] = t
    BY <1>2, <2>1
  <2> QED BY <1>4, <2>2, <2>3
<1>5. \A r \in Runs : status'[r] = CASE r \in ToFail   -> "failed"
                                     [] r \in ToSkip   -> "cancelled"
                                     [] r \in ToResume -> "queued"
                                     [] OTHER          -> status[r]
  BY DEF BootReconciles
<1>6. \A r \in ToResume : status'[r] = "queued"
  <2> TAKE r \in ToResume
  <2>1. r \in Runs /\ r \notin ToFail /\ r \notin ToSkip
    BY <1>3 DEF ToResume
  <2> QED BY <1>5, <2>1
<1>7. \A r \in Runs \ ToResume : status'[r] = "absent" => status[r] = "absent"
  <2> TAKE r \in Runs \ ToResume
  <2>1. CASE r \in ToFail
    BY <1>5, <2>1
  <2>2. CASE r \notin ToFail /\ r \in ToSkip
    BY <1>5, <2>2
  <2>3. CASE r \notin ToFail /\ r \notin ToSkip
    BY <1>5, <2>3
  <2> QED BY <2>1, <2>2, <2>3
<1>8. UNCHANGED <<opPc, opRun, askRun>>
  BY DEF BootReconciles, requests, askRows
<1>9. OneHolder'
  BY <1>4 DEF OneHolder, Holds
<1>10. ASSUME NEW r \in Runs, NEW d \in Drivers, status'[r] \in {"absent", "parked"}
       PROVE  ~Holds(d, r)'
  BY <1>4, <1>6, <1>10 DEF Holds
<1>11. Known'
  <2>1. \A d \in Drivers : job'[d] \in Runs => status'[job'[d]] # "absent"
    BY <1>4, <1>6
  <2>2. \A a \in Asks : askRun'[a] \in Runs => status'[askRun'[a]] # "absent"
    BY <1>6, <1>7, <1>8 DEF ClaimInv, Known
  <2> QED BY <1>1, <1>8, <2>1, <2>2, ConstantsAssumption DEF Known, ConstantsAssumption
<1> QED BY <1>1, <1>8, <1>9, <1>10, <1>11 DEF ClaimInv, Released

LEMMA NextClaimInv ==
  ASSUME OneRequest, StrandInv, ClaimInv, [Next]_vars
  PROVE  ClaimInv'
<1>0. TypeOK /\ NobodyWhenDown
  BY DEF StrandInv
<1>1. CASE \E r \in Runs, d \in Drivers : Enqueue(r, d)
  BY <1>0, <1>1, EnqueueClaimInv
<1>2. CASE \E d \in Drivers : DriverStep(d)
  BY <1>0, <1>2, DriverClaimInv
<1>3. CASE \E o \in Ops : OpArrives(o) \/ OpContinues(o)
  BY <1>0, <1>3, ArrivalClaimInv, QuietClaimInv, ResumeClaimInv
<1>4. CASE Crash
  BY <1>0, <1>4, CrashClaimInv
<1>5. CASE BootReconciles
  BY <1>0, <1>5, BootClaimInv
<1>6. CASE BootReapsApprovals \/ UNCHANGED vars
  <2>1. UNCHANGED <<status, pc, job, opPc, opRun, askRun>>
    BY <1>6 DEF BootReapsApprovals, vars, runRows, drivers, requests, askRows
  <2> QED BY <2>1 DEF ClaimInv, OneHolder, Released, Known, Holds
<1> QED BY <1>1, <1>2, <1>3, <1>4, <1>5, <1>6 DEF Next, Boot

-----------------------------------------------------------------------------
(* The refinement.                                                          *)

driversOf == [r \in Runs |-> {d \in Drivers : Driving(d, r)}]

LEMMA DrivesNobodyElse ==
  ASSUME NEW r \in Runs, NEW d \in Drivers, ClaimInv, Holds(d, r)
  PROVE  \A e \in Drivers : Driving(e, r) => e = d
  BY DEF ClaimInv, OneHolder, Holds, Driving

\* A step that moves one coroutine, and does not take a run with it.
LEMMA LeavesOrStutters ==
  ASSUME TypeOK, ClaimInv, NEW d \in Drivers,
         \A e \in Drivers \ {d} : pc'[e] = pc[e] /\ job'[e] = job[e],
         \A r \in Runs : Driving(d, r)' => Driving(d, r)
  PROVE  (\E r \in Runs : ClaimContract!Leave(r)) \/ UNCHANGED driversOf
<1>1. \A r \in Runs, e \in Drivers \ {d} : Driving(e, r)' <=> Driving(e, r)
  BY DEF Driving
<1>2. CASE \A r \in Runs : Driving(d, r)' <=> Driving(d, r)
  BY <1>1, <1>2 DEF driversOf
<1>3. CASE \E r \in Runs : Driving(d, r) /\ ~Driving(d, r)'
  <2>1. PICK r \in Runs : Driving(d, r) /\ ~Driving(d, r)'
    BY <1>3
  <2>2. \A e \in Drivers : Driving(e, r) <=> e = d
    BY <2>1, DrivesNobodyElse DEF Holds, Driving
  <2>3. \A s \in Runs \ {r} : ~Driving(d, s) /\ ~Driving(d, s)'
    BY <2>1 DEF Driving
  <2>4. driversOf[r] = {d} /\ driversOf'[r] = {}
    BY <1>1, <2>1, <2>2 DEF driversOf
  <2>5. \A s \in Runs \ {r} : driversOf'[s] = driversOf[s]
    BY <1>1, <2>3 DEF driversOf
  <2>6. driversOf' = [driversOf EXCEPT ![r] = {}]
    BY <2>4, <2>5 DEF driversOf
  <2> QED BY <2>4, <2>6 DEF ClaimContract!Leave, driversOf
<1> QED BY <1>2, <1>3

LEMMA ClaimTakes ==
  ASSUME TypeOK, ClaimInv, NEW d \in Drivers, Claim(d)
  PROVE  \E r \in Runs : ClaimContract!Take(r, d)
<1>0. PICK r \in Runs : r = job[d]
  BY DEF Claim, TypeOK, Types, Assigned
<1>1. r = job[d] /\ pc[d] = "ready" /\ pc' = [pc EXCEPT ![d] = "planning"] /\ job' = job
  BY <1>0 DEF Claim, Goto
<1>2. Holds(d, r) /\ ~Driving(d, r) /\ Driving(d, r)'
  BY <1>1 DEF Holds, Driving, DrivingPcs, TypeOK, Types
<1>3. \A e \in Drivers : ~Driving(e, r)
  BY <1>1, <1>2, DrivesNobodyElse
<1>4. \A e \in Drivers \ {d}, s \in Runs : Driving(e, s)' <=> Driving(e, s)
  BY <1>1 DEF Driving, TypeOK, Types
<1>5. \A s \in Runs \ {r} : ~Driving(d, s) /\ ~Driving(d, s)'
  BY <1>1 DEF Driving
<1>6. driversOf[r] = {} /\ driversOf'[r] = {d}
  BY <1>1, <1>2, <1>3, <1>4 DEF driversOf
<1>7. \A s \in Runs \ {r} : driversOf'[s] = driversOf[s]
  BY <1>4, <1>5 DEF driversOf
<1>8. driversOf' = [driversOf EXCEPT ![r] = {d}]
  BY <1>6, <1>7 DEF driversOf
<1> QED BY <1>1, <1>6, <1>8 DEF ClaimContract!Take, driversOf

\* Each step of the lifecycle takes a run, leaves one, loses all, or is none of the
\* contract's business.
LEMMA StepRefines ==
  ASSUME OneRequest, StrandInv, ClaimInv, [Next]_vars
  PROVE  [ClaimContract!Next]_driversOf
<1>0. TypeOK /\ TypeOK' /\ NobodyWhenDown
  BY NextTypeOK DEF StrandInv
<1>1. CASE \E r \in Runs, d \in Drivers : Enqueue(r, d)
  <2>1. PICK r \in Runs, d \in Drivers : Enqueue(r, d)
    BY <1>1
  <2>2. /\ \A e \in Drivers \ {d} : pc'[e] = pc[e] /\ job'[e] = job[e]
        /\ pc'[d] = "ready"
    BY <1>0, <2>1 DEF Enqueue, TypeOK, Types
  <2> QED BY <1>0, <2>2, LeavesOrStutters DEF Driving, DrivingPcs, ClaimContract!Next
<1>2. CASE \E d \in Drivers : DriverStep(d)
  <2>1. PICK d \in Drivers : DriverStep(d)
    BY <1>2
  <2>2. CASE Claim(d)
    BY <1>0, <2>2, ClaimTakes DEF ClaimContract!Next
  <2>3. CASE ~Claim(d)
    <3>1. \A e \in Drivers \ {d} : pc'[e] = pc[e] /\ job'[e] = job[e]
      BY <1>0, <2>1, DriverMoves
    <3>2. pc'[d] \in DrivingPcs => pc[d] \in DrivingPcs /\ job'[d] = job[d]
      BY <1>0, <2>1, <2>3
      DEF DriverStep, ClaimRefused, RouteEnds, Dispatch, AskApproval, StoreCheckpoint,
          WaitInProcess, CommitParked, Decided, ApprovalTimesOut, DecisionWakes, StreamEnds,
          StreamResult, Finish, FinishRaises, WallClock, TailDone, Goto, Retire, TypeOK, Types,
          DrivingPcs, ClockedPcs
    <3> QED BY <1>0, <3>1, <3>2, LeavesOrStutters DEF Driving, ClaimContract!Next
  <2> QED BY <2>2, <2>3
<1>3. CASE \E o \in Ops : OpArrives(o) \/ OpContinues(o)
  <2>1. PICK o \in Ops : OpArrives(o) \/ OpContinues(o)
    BY <1>3
  <2>2. CASE UNCHANGED <<pc, job>>
    BY <2>2 DEF driversOf, Driving
  <2>3. CASE \E d \in Drivers : ResumeStarts(o, d)
    <3>1. PICK d \in Drivers : ResumeStarts(o, d)
      BY <2>3
    <3>2. /\ \A e \in Drivers \ {d} : pc'[e] = pc[e] /\ job'[e] = job[e]
          /\ pc'[d] = "ready"
      BY <1>0, <3>1 DEF ResumeStarts, TypeOK, Types
    <3> QED BY <1>0, <3>2, LeavesOrStutters DEF Driving, DrivingPcs, ClaimContract!Next
  <2>4. CASE \E r \in Runs, d \in Drivers : CancelLive(o, r, d)
    <3>1. PICK r \in Runs, d \in Drivers : CancelLive(o, r, d)
      BY <2>4
    <3>2. /\ \A e \in Drivers \ {d} : pc'[e] = pc[e] /\ job'[e] = job[e]
          /\ pc'[d] = "idle"
      BY <1>0, <3>1 DEF CancelLive, Retire, TypeOK, Types
    <3> QED BY <1>0, <3>2, LeavesOrStutters DEF Driving, DrivingPcs, ClaimContract!Next
  <2>5. \/ UNCHANGED <<pc, job>>
        \/ \E d \in Drivers : ResumeStarts(o, d)
        \/ \E r \in Runs, d \in Drivers : CancelLive(o, r, d)
    BY <2>1
    DEF OpArrives, DecideReads, CancelParked, OpContinues, DecideParked, DecideLive,
        DecideRefused, SettleLive, SettleParked, ResumeReads, ResumeNotParked, ResumeRefused,
        CancelWrites, drivers
  <2> QED BY <2>2, <2>3, <2>4, <2>5
<1>4. CASE Crash
  <2>1. \A r \in Runs, d \in Drivers : ~Driving(d, r)'
    BY <1>4, ConstantsAssumption DEF Crash, Driving, DrivingPcs, ConstantsAssumption
  <2>2. driversOf' = [r \in Runs |-> {}]
    BY <2>1 DEF driversOf
  <2> QED BY <2>2 DEF ClaimContract!Next, ClaimContract!LoseAll, driversOf
<1>5. CASE BootReconciles
  <2>1. \A d \in Drivers : pc[d] = "idle" /\ pc'[d] \in {"idle", "ready"}
    BY <1>0, <1>5 DEF BootReconciles, NobodyWhenDown
  <2>2. \A r \in Runs, d \in Drivers : ~Driving(d, r) /\ ~Driving(d, r)'
    BY <2>1 DEF Driving, DrivingPcs
  <2>3. driversOf' = driversOf
    BY <2>2 DEF driversOf
  <2> QED BY <2>3
<1>6. CASE BootReapsApprovals \/ UNCHANGED vars
  BY <1>6 DEF BootReapsApprovals, vars, drivers, driversOf, Driving
<1> QED BY <1>1, <1>2, <1>3, <1>4, <1>5, <1>6 DEF Next, Boot

\* With one operator request at a time, a run is taken only when nobody drives it,
\* through every park, resume, cancel, crash and boot: the lifecycle implements the
\* claim's contract.
THEOREM OneRequestClaims == ASSUME OneRequest PROVE Spec => ImplementsClaim
<1>1. Init => ClaimContract!Init
  BY DEF Init, ClaimContract!Init, Driving, DrivingPcs
<1>2. OneRequest /\ StrandInv /\ ClaimInv /\ [Next]_vars => ClaimInv'
  BY NextClaimInv
<1>3. OneRequest /\ StrandInv /\ ClaimInv /\ [Next]_vars
        => [ClaimContract!Next]_[r \in Runs |-> {d \in Drivers : Driving(d, r)}]
  BY StepRefines DEF driversOf
<1>4. OneRequest
  OBVIOUS
<1> QED
  BY <1>1, <1>2, <1>3, <1>4, InitStrandInv, NextStrandInv, ClaimInvInit, PTL
  DEF Spec, ImplementsClaim, ClaimContract!Spec
=============================================================================
