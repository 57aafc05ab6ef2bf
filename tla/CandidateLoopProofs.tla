-------------------------- MODULE CandidateLoopProofs -------------------------
(***************************************************************************)
(* Proofs about CandidateLoop: retries are counted on the row across       *)
(* parks, the attempts on the row are closed when the run ends its own     *)
(* way, and no executor acts behind the row's back.                        *)
(***************************************************************************)
EXTENDS CandidateLoop, TLAPS

-----------------------------------------------------------------------------
(* Passes: what pays for the next one.                                      *)

\* While the run waits for a pass, its resume, its restart or its retry has been
\* counted and not yet used.
Paid ==
  /\ passes \in Nat /\ resumes \in Nat /\ restarts \in Nat
  /\ retries \in 0..MaxRetries
  /\ passes <= 1 + retries + resumes + restarts
  /\ status = "queued" \/ pc = "backoff" => passes <= retries + resumes + restarts
  /\ status \in {"queued", "parked"} => pc = "off"

LEMMA PaidInit == Init => Paid
  BY ConstantsAssumption DEF Init, Paid

\* The steps that end the coroutine, or leave row and loop where they are.
LEMMA PaidKept ==
  ASSUME Paid,
         UNCHANGED <<passes, resumes, restarts, retries>>,
         \/ pc' = "off" /\ status' # "queued"
         \/ status' = "running" /\ pc' # "backoff"
         \/ UNCHANGED status /\ pc # "off" /\ pc' # "backoff"
         \/ UNCHANGED <<status, pc>>
  PROVE  Paid'
  BY DEF Paid

\* The executor's start and the provider's answers.
LEMMA PaidChain == Paid /\ (ChainStep \/ OverflowStep) => Paid'
<1> SUFFICES ASSUME Paid, ChainStep \/ OverflowStep PROVE Paid' OBVIOUS
<1>1. CASE Unavailable
  BY <1>1, PaidKept DEF Unavailable, row, history
<1>2. CASE Dispatch
  BY <1>2, PaidKept DEF Dispatch, Invoke
<1>3. CASE StreamParks
  BY <1>3, PaidKept DEF StreamParks, Park, Leave, history
<1>4. CASE StreamResult
  BY <1>4, PaidKept DEF StreamResult, history
<1>5. CASE StreamRateLimited
  BY <1>5, PaidKept DEF StreamRateLimited, history
<1>6. CASE StreamErrors
  BY <1>6, PaidKept DEF StreamErrors, history
<1>7. CASE HardFail
  BY <1>7, PaidKept DEF HardFail, Fail, Leave, history
<1>8. CASE StartOverflow
  BY <1>8, PaidKept DEF StartOverflow, ChainIsOver, Invoke, row
<1>9. CASE NoOverflow
  BY <1>9, PaidKept DEF NoOverflow, ChainIsOver, row, history
<1>10. CASE OverflowParks
  BY <1>10, PaidKept DEF OverflowParks, Park, Leave, history
<1>11. CASE OverflowResult
  BY <1>11, PaidKept DEF OverflowResult, row
<1>12. CASE OverflowEnds
  BY <1>12, PaidKept DEF OverflowEnds, row, history
<1>13. CASE OverflowRaises
  BY <1>13, PaidKept DEF OverflowRaises, Fail, Leave, history
<1> QED
  BY <1>1, <1>2, <1>3, <1>4, <1>5, <1>6, <1>7, <1>8, <1>9, <1>10, <1>11, <1>12, <1>13
     DEF ChainStep, OverflowStep

LEMMA PaidStep == Paid /\ [Next]_vars => Paid'
<1> SUFFICES ASSUME Paid, [Next]_vars PROVE Paid' OBVIOUS
<1> USE ConstantsAssumption
<1>1. CASE Route
  BY <1>1 DEF Route, StartPass, Paid
<1>2. CASE RouteUnroutable
  BY <1>2, PaidKept DEF RouteUnroutable, Fail, Leave, history
<1>3. CASE RouteDefers
  BY <1>3, PaidKept DEF RouteDefers, Defer, Leave, history
<1>4. CASE ChainStep \/ OverflowStep
  BY <1>4, PaidChain
<1>5. CASE Cool
  BY <1>5, PaidKept DEF Cool, Defer, Fail, Leave, history
<1>6. CASE Retry
  BY <1>6 DEF Retry, Paid, history
<1>7. CASE RunAgain
  BY <1>7 DEF RunAgain, StartPass, Paid, row
<1>8. CASE RetriesExhausted
  BY <1>8, PaidKept DEF RetriesExhausted, Fail, Leave, history
<1>9. CASE WallClock
  BY <1>9, PaidKept DEF WallClock, Fail, Leave, history
<1>10. CASE Finish
  BY <1>10, PaidKept DEF Finish, Leave, history
<1>11. CASE FinishRaises
  BY <1>11, PaidKept DEF FinishRaises, Fail, Leave, history
<1>12. CASE Decide
  BY <1>12 DEF Decide, Paid, loop
<1>13. CASE FenceRefuses
  BY <1>13 DEF FenceRefuses, Paid, loop, history
<1>14. CASE CooldownExpires
  BY <1>14, PaidKept DEF CooldownExpires, row, loop, history
<1>15. CASE Restart
  BY <1>15 DEF Restart, Leave, Paid
<1>16. CASE UNCHANGED vars
  BY <1>16, PaidKept DEF vars, row, loop, history
<1> QED
  BY <1>1, <1>2, <1>3, <1>4, <1>5, <1>6, <1>7, <1>8, <1>9, <1>10, <1>11, <1>12, <1>13,
     <1>14, <1>15, <1>16
     DEF Next, RetryStep

\* For any number of providers, retries, parks and restarts, the chain is driven
\* again only for a retry counted on the row, a resume or a restart.
THEOREM PassesCounted == Spec => []PassesAreCounted
<1>1. Paid => PassesAreCounted
  BY ConstantsAssumption DEF Paid, PassesAreCounted
<1> QED BY PaidInit, PaidStep, <1>1, PTL DEF Spec

-----------------------------------------------------------------------------
(* Consent and the row.                                                     *)

\* What a resumed coroutine holds came from an approval; and before a provider is
\* on the row nothing was invoked, unless the overflow was.
Witnessed ==
  /\ approved \subseteq Asks
  /\ ctx \in [ask : 0..MaxAsks, ok : BOOLEAN]
  /\ extra \in [ask : 0..MaxAsks, ok : BOOLEAN]
  /\ ctx.ok => ctx.ask \in approved
  /\ extra.ok => extra.ask \in approved
  /\ performed \in [Asks -> SUBSET Providers]
  /\ \A a \in Asks : performed[a] # {} => a \in approved
  /\ plan \in Seq(Providers) /\ pos \in Nat
  /\ pc = "trying" => pos > 0
  /\ pc = "streaming" => plan[pos] \in Providers
  /\ pc = "overflow" => overflow \in Providers
  /\ asks \in 0..MaxAsks
  /\ status = "parked" => asks \in Asks
  /\ overflow \in Providers \cup {NoProvider}
  /\ provider = NoProvider /\ overflow = NoProvider => ~invoked

LEMMA WitnessedInit == Init => Witnessed
  BY ConstantsAssumption DEF Init, Witnessed, Asks, NoCtx

LEMMA PlansAreSequences == \A p \in Plans : p \in Seq(Providers)
  BY DEF Plans

\* A step that starts no executor, takes no decision and leaves the row's
\* provider, at the end of the coroutine or within it.
LEMMA WitnessedKept ==
  ASSUME Witnessed,
         UNCHANGED <<approved, ctx, performed, overflow, provider, invoked, asks>>,
         status' = "parked" => status = "parked",
         \/ Leave
         \/ /\ UNCHANGED <<extra, plan>> /\ pos' \in Nat /\ (pc' = "trying" => pos' > 0)
            /\ pc' \in {"streaming", "overflow"} => UNCHANGED <<pc, pos>>
  PROVE  Witnessed'
<1>1. CASE Leave
  BY <1>1, ConstantsAssumption DEF Leave, Witnessed, NoCtx
<1>2. CASE /\ UNCHANGED <<extra, plan>> /\ pos' \in Nat /\ (pc' = "trying" => pos' > 0)
           /\ pc' \in {"streaming", "overflow"} => UNCHANGED <<pc, pos>>
  BY <1>2 DEF Witnessed
<1> QED BY <1>1, <1>2

\* An executor is handed an approved call or none.
LEMMA InvokeApproved ==
  ASSUME Witnessed, NEW p \in Providers, Invoke(p)
  PROVE  /\ performed' \in [Asks -> SUBSET Providers]
         /\ \A a \in Asks : performed'[a] # {} => a \in approved
  BY DEF Invoke, Witnessed

LEMMA WitnessedPark ==
  ASSUME Witnessed, NEW writer \in Providers, Park(writer)
  PROVE  Witnessed'
<1>1. asks' \in Asks /\ asks' \in 0..MaxAsks
  BY ConstantsAssumption DEF Witnessed, Park, Asks
<1>2. extra' = NoCtx /\ plan' = <<>> /\ pos' = 0 /\ pc' = "off"
  BY DEF Park, Leave
<1>3. UNCHANGED <<approved, ctx, performed, overflow, provider, invoked>>
  BY DEF Park, policy, history
<1> QED
  BY <1>1, <1>2, <1>3, ConstantsAssumption DEF Witnessed, NoCtx

LEMMA WitnessedChain == Witnessed /\ (ChainStep \/ OverflowStep) => Witnessed'
<1> SUFFICES ASSUME Witnessed, ChainStep \/ OverflowStep PROVE Witnessed' OBVIOUS
<1>1. CASE Unavailable
  <2>1. pos' \in Nat /\ pos' > 0
    BY <1>1 DEF Unavailable, Witnessed
  <2> QED BY <1>1, <2>1, WitnessedKept DEF Unavailable, policy, row, parks, history
<1>2. CASE Dispatch
  <2>1. plan[pos] \in Providers
    BY <1>2 DEF Dispatch, Witnessed
  <2>2. /\ performed' \in [Asks -> SUBSET Providers]
        /\ \A a \in Asks : performed'[a] # {} => a \in approved
    BY <1>2, <2>1, InvokeApproved DEF Dispatch
  <2>3. provider' # NoProvider
    BY <1>2, <2>1, ConstantsAssumption DEF Dispatch
  <2>4. /\ UNCHANGED <<approved, ctx, extra, plan, pos, asks, overflow>>
        /\ pc' = "streaming" /\ status' = "running"
    BY <1>2 DEF Dispatch, Invoke, policy, parks
  <2> QED BY <2>1, <2>2, <2>3, <2>4 DEF Witnessed
<1>3. CASE StreamParks
  BY <1>3, WitnessedPark DEF StreamParks, Witnessed
<1>4. CASE StreamResult
  BY <1>4, WitnessedKept DEF StreamResult, policy, parks, history, Witnessed
<1>5. CASE StreamRateLimited
  <2>1. pos' \in Nat /\ pos' > 0
    BY <1>5 DEF StreamRateLimited, Witnessed
  <2> QED BY <1>5, <2>1, WitnessedKept DEF StreamRateLimited, policy, parks, history
<1>6. CASE StreamErrors
  <2>1. pos' \in Nat /\ pos' > 0
    BY <1>6 DEF StreamErrors, Witnessed
  <2> QED BY <1>6, <2>1, WitnessedKept DEF StreamErrors, policy, parks, history
<1>7. CASE HardFail
  BY <1>7, WitnessedKept DEF HardFail, Fail, policy, parks, history
<1>8. CASE StartOverflow
  <2>1. overflow \in Providers
    BY <1>8 DEF StartOverflow, Witnessed
  <2>2. /\ performed' \in [Asks -> SUBSET Providers]
        /\ \A a \in Asks : performed'[a] # {} => a \in approved
    BY <1>8, <2>1, InvokeApproved DEF StartOverflow
  <2>3. /\ UNCHANGED <<approved, ctx, extra, plan, pos, asks, overflow, provider, status>>
        /\ pc' = "overflow" /\ overflow # NoProvider
    BY <1>8 DEF StartOverflow, Invoke, policy, row, parks
  <2> QED BY <2>1, <2>2, <2>3 DEF Witnessed
<1>9. CASE NoOverflow
  BY <1>9, WitnessedKept DEF NoOverflow, policy, row, parks, history, Witnessed
<1>10. CASE OverflowParks
  BY <1>10, WitnessedPark DEF OverflowParks, Witnessed
<1>11. CASE OverflowResult
  BY <1>11, WitnessedKept DEF OverflowResult, policy, row, parks, Witnessed
<1>12. CASE OverflowEnds
  BY <1>12, WitnessedKept DEF OverflowEnds, policy, row, parks, history, Witnessed
<1>13. CASE OverflowRaises
  BY <1>13, WitnessedKept DEF OverflowRaises, Fail, policy, parks, history
<1> QED
  BY <1>1, <1>2, <1>3, <1>4, <1>5, <1>6, <1>7, <1>8, <1>9, <1>10, <1>11, <1>12, <1>13
     DEF ChainStep, OverflowStep

LEMMA WitnessedStep == Witnessed /\ [Next]_vars => Witnessed'
<1> SUFFICES ASSUME Witnessed, [Next]_vars PROVE Witnessed' OBVIOUS
<1> USE ConstantsAssumption
<1>1. CASE Route
  <2>1. plan' \in Seq(Providers)
    BY <1>1, PlansAreSequences DEF Route
  <2>2. /\ extra' = ctx /\ ctx' = NoCtx
        /\ status' = "planning" /\ pc' = "trying" /\ pos' = 1
        /\ UNCHANGED <<approved, performed, overflow, provider, invoked, asks>>
    BY <1>1 DEF Route, StartPass, policy, parks
  <2> QED BY <2>1, <2>2 DEF Witnessed, NoCtx
<1>2. CASE RouteUnroutable
  BY <1>2, WitnessedKept DEF RouteUnroutable, Fail, policy, parks, history
<1>3. CASE RouteDefers
  BY <1>3, WitnessedKept DEF RouteDefers, Defer, policy, parks, history
<1>4. CASE ChainStep \/ OverflowStep
  BY <1>4, WitnessedChain
<1>5. CASE Cool
  BY <1>5, WitnessedKept DEF Cool, Defer, Fail, policy, parks, history
<1>6. CASE Retry
  BY <1>6, WitnessedKept DEF Retry, policy, parks, history, Witnessed
<1>7. CASE RunAgain
  BY <1>7, WitnessedKept DEF RunAgain, StartPass, policy, row, parks
<1>8. CASE RetriesExhausted
  BY <1>8, WitnessedKept DEF RetriesExhausted, Fail, policy, parks, history
<1>9. CASE WallClock
  BY <1>9, WitnessedKept DEF WallClock, Fail, policy, parks, history
<1>10. CASE Finish
  BY <1>10, WitnessedKept DEF Finish, policy, parks, history
<1>11. CASE FinishRaises
  BY <1>11, WitnessedKept DEF FinishRaises, Fail, policy, parks, history
<1>12. CASE Decide
  <2>1. PICK ok \in BOOLEAN :
          /\ ctx' = [ask |-> asks, ok |-> ok]
          /\ approved' = IF ok THEN approved \cup {asks} ELSE approved
    BY <1>12 DEF Decide
  <2>2. /\ asks \in Asks /\ status' = "queued"
        /\ UNCHANGED <<performed, overflow, provider, invoked, asks, extra, plan, pos, pc>>
    BY <1>12 DEF Decide, Witnessed, policy, parks, loop
  <2>3. approved \subseteq approved' /\ approved' \subseteq Asks
    BY <2>1, <2>2 DEF Witnessed
  <2>4. ctx'.ok => ctx'.ask \in approved'
    BY <2>1
  <2>5. ctx' \in [ask : 0..MaxAsks, ok : BOOLEAN]
    BY <2>1 DEF Witnessed
  <2> QED BY <2>2, <2>3, <2>4, <2>5 DEF Witnessed
<1>13. CASE FenceRefuses
  BY <1>13, WitnessedKept DEF FenceRefuses, policy, parks, loop, history, Witnessed
<1>14. CASE CooldownExpires
  BY <1>14, WitnessedKept DEF CooldownExpires, policy, row, parks, loop, history, Witnessed
<1>15. CASE Restart
  <2>1. status' = "parked" => status = "parked"
    BY <1>15 DEF Restart
  <2>2. /\ extra' = NoCtx /\ ctx' = NoCtx /\ plan' = <<>> /\ pos' = 0 /\ pc' = "off"
        /\ UNCHANGED <<approved, performed, overflow, provider, invoked, asks>>
    BY <1>15 DEF Restart, Leave, policy, parks
  <2> QED BY <2>1, <2>2 DEF Witnessed, NoCtx
<1>16. CASE UNCHANGED vars
  BY <1>16, WitnessedKept DEF vars, policy, row, parks, loop, history, Witnessed
<1> QED
  BY <1>1, <1>2, <1>3, <1>4, <1>5, <1>6, <1>7, <1>8, <1>9, <1>10, <1>11, <1>12, <1>13,
     <1>14, <1>15, <1>16
     DEF Next, RetryStep

\* For any plan, failover, retry, overflow and restart, a parked call is performed
\* only if it was approved, and a row no provider was written to has met no
\* executor.
THEOREM RowToldFirst == Spec => []NothingBehindTheRow
<1>1. Witnessed => NothingBehindTheRow
  BY DEF Witnessed, NothingBehindTheRow
<1> QED BY WitnessedInit, WitnessedStep, <1>1, PTL DEF Spec

-----------------------------------------------------------------------------
(* The attempts on the row.                                                 *)

Entry == [provider : Providers, outcome : Outcomes]

Closed(entries) == \A i \in DOMAIN entries : entries[i].outcome # "pending"

\* The attempt in progress is the last one, and the row names its provider.
InProgress(entries, p) ==
  /\ entries # <<>>
  /\ entries[Len(entries)] = [provider |-> p, outcome |-> "pending"]
  /\ \A i \in DOMAIN entries : i # Len(entries) => entries[i].outcome # "pending"

Succeeds(entries, p) ==
  entries # <<>> /\ entries[Len(entries)] = [provider |-> p, outcome |-> "success"]

\* The coroutine's log is open only while an executor streams; the row's, only
\* while the row says so or after a failure.
Booked ==
  /\ attempts \in Seq(Entry)
  /\ pc = "streaming" => InProgress(attempts, provider)
  /\ pc # "streaming" => Closed(attempts)
  /\ pc # "off" => status \in {"planning", "running"}
  /\ pc = "streaming" => status = "running"
  /\ status \notin {"running", "failed"} => Closed(log)
  /\ pc = "post" /\ ~overflowed => Succeeds(attempts, provider)
  /\ status = "succeeded" /\ ~overflowed => Succeeds(log, provider)

LEMMA BookedInit == Init => Booked
  BY DEF Init, Booked, Closed

LEMMA LastOfAll ==
  ASSUME NEW n \in Nat, NEW S \in SUBSET (1..n), n \in S
  PROVE  \A i \in 1..n : (i \in S /\ \A j \in S : j <= i) <=> i = n
<1>1. \A j \in S : j <= n
  OBVIOUS
<1> TAKE i \in 1..n
<1>2. i <= n
  OBVIOUS
<1>3. (\A j \in S : j <= i) => n <= i
  OBVIOUS
<1>4. n <= i => i = n
  BY <1>2
<1> QED BY <1>1, <1>3, <1>4

\* Marking the attempt in progress touches it alone, and closes the log.
LEMMA FinalCloses ==
  ASSUME attempts \in Seq(Entry), NEW p, InProgress(attempts, p),
         NEW o \in Outcomes \ {"pending"}
  PROVE  /\ Final(o) \in Seq(Entry) /\ Closed(Final(o))
         /\ o = "success" => Succeeds(Final(o), p)
<1> DEFINE n == Len(attempts)
<1>1. n \in Nat \ {0} /\ DOMAIN attempts = 1..n /\ n \in 1..n
  BY DEF InProgress
<1>2. n \in Dispatched /\ Dispatched \subseteq 1..n
  BY <1>1 DEF Dispatched, InProgress
<1>3. \A i \in 1..n : (i \in Dispatched /\ \A j \in Dispatched : j <= i) <=> i = n
  <2> HIDE DEF n
  <2> QED BY <1>1, <1>2, LastOfAll
<1>4. \A i \in 1..n : attempts[i] \in Entry
  BY <1>1
<1>5. Final(o) = [i \in 1..n |-> IF i = n THEN [attempts[i] EXCEPT !.outcome = o] ELSE attempts[i]]
  BY <1>1, <1>3 DEF Final
<1>6. [attempts[n] EXCEPT !.outcome = o] = [provider |-> p, outcome |-> o]
  BY DEF InProgress
<1>7. [attempts[n] EXCEPT !.outcome = o] \in Entry
  BY <1>1, <1>4 DEF Entry
<1>8. Final(o) \in [1..n -> Entry]
  BY <1>4, <1>5, <1>7
<1>9. Final(o) \in Seq(Entry) /\ Len(Final(o)) = n /\ DOMAIN Final(o) = 1..n
  BY <1>1, <1>8
<1>10. Closed(Final(o))
  BY <1>1, <1>5, <1>6, <1>9 DEF Closed, InProgress
<1>11. Final(o)[n] = [provider |-> p, outcome |-> o]
  BY <1>1, <1>5, <1>6
<1>12. Final(o) # <<>>
  BY <1>1, <1>9
<1> QED BY <1>9, <1>10, <1>11, <1>12 DEF Succeeds

\* With no attempt in progress the mark goes on one that was closed, or on none.
LEMMA FinalStaysClosed ==
  ASSUME attempts \in Seq(Entry), Closed(attempts)
  PROVE  Closed(Final("parked"))
<1>1. \A i \in DOMAIN attempts : attempts[i] \in Entry
  OBVIOUS
<1> QED BY <1>1 DEF Closed, Final, Entry

\* The coroutine is gone, and what it left on the row is in order.
LEMMA BookedLeft ==
  ASSUME Leave, status' \notin {"running", "failed"} => Closed(log'),
         status' = "succeeded" /\ ~overflowed' => Succeeds(log', provider')
  PROVE  Booked'
  BY DEF Leave, Booked, Closed

\* Nothing is added, and the coroutine stays clear of the streaming.
LEMMA BookedKept ==
  ASSUME Booked, UNCHANGED <<attempts, status, provider>>,
         log' \in {log, attempts}, overflowed => overflowed',
         pc # "streaming", pc # "off", pc' \notin {"streaming", "off"},
         pc' = "post" => pc = "post" \/ overflowed'
  PROVE  Booked'
  BY DEF Booked

LEMMA BookedChain == Booked /\ Witnessed /\ (ChainStep \/ OverflowStep) => Booked'
<1> SUFFICES ASSUME Booked, Witnessed, ChainStep \/ OverflowStep PROVE Booked' OBVIOUS
<1>0. pc = "streaming" => InProgress(attempts, provider) /\ attempts \in Seq(Entry)
  BY DEF Booked
<1>1. CASE Unavailable
  <2> DEFINE e == [provider |-> plan[pos], outcome |-> "unavailable"]
  <2>1. e \in Entry
    BY <1>1 DEF Unavailable, Witnessed, Entry, Outcomes
  <2>2. attempts \in Seq(Entry) /\ Closed(attempts) /\ status \in {"planning", "running"}
    BY <1>1 DEF Unavailable, Booked
  <2>3. attempts' = Append(attempts, e) /\ e.outcome # "pending"
    BY <1>1 DEF Unavailable
  <2> HIDE DEF e
  <2>4. attempts' \in Seq(Entry) /\ Closed(attempts')
    BY <2>1, <2>2, <2>3 DEF Closed
  <2>5. pc = "trying" /\ UNCHANGED <<status, provider, log, pc, overflowed>>
    BY <1>1 DEF Unavailable, row, history
  <2> QED BY <2>2, <2>4, <2>5 DEF Booked
<1>2. CASE Dispatch
  <2> DEFINE e == [provider |-> plan[pos], outcome |-> "pending"]
  <2>1. e \in Entry
    BY <1>2 DEF Dispatch, Witnessed, Entry, Outcomes
  <2>2. attempts \in Seq(Entry) /\ Closed(attempts)
    BY <1>2 DEF Dispatch, Booked
  <2>3. attempts' = Append(attempts, e) /\ provider' = plan[pos]
    BY <1>2 DEF Dispatch
  <2>4. e = [provider |-> provider', outcome |-> "pending"]
    BY <2>3
  <2> HIDE DEF e
  <2>5. attempts' \in Seq(Entry) /\ InProgress(attempts', provider')
    BY <2>1, <2>2, <2>3, <2>4 DEF Closed, InProgress
  <2>6. pc' = "streaming" /\ status' = "running"
    BY <1>2 DEF Dispatch
  <2> QED BY <2>5, <2>6 DEF Booked
<1>3. CASE StreamParks
  <2>1. Closed(log')
    BY <1>0, <1>3, FinalCloses DEF StreamParks, Park, Outcomes
  <2> QED BY <1>3, <2>1, BookedLeft DEF StreamParks, Park
<1>4. CASE StreamResult
  <2>1. /\ attempts' \in Seq(Entry) /\ Closed(attempts')
        /\ Succeeds(attempts', provider')
    BY <1>0, <1>4, FinalCloses DEF StreamResult, Outcomes
  <2> QED BY <1>4, <2>1 DEF StreamResult, Booked
<1>5. CASE StreamRateLimited
  <2>1. attempts' \in Seq(Entry) /\ Closed(attempts')
    BY <1>0, <1>5, FinalCloses DEF StreamRateLimited, Outcomes
  <2> QED BY <1>5, <2>1 DEF StreamRateLimited, Booked
<1>6. CASE StreamErrors
  <2>1. attempts' \in Seq(Entry) /\ Closed(attempts')
    BY <1>0, <1>6, FinalCloses DEF StreamErrors, Outcomes
  <2> QED BY <1>6, <2>1 DEF StreamErrors, Booked
<1>7. CASE HardFail
  BY <1>7, BookedLeft DEF HardFail, Fail
<1>8. CASE StartOverflow
  BY <1>8, BookedKept DEF StartOverflow, ChainIsOver, Invoke, row
<1>9. CASE NoOverflow
  BY <1>9, BookedKept DEF NoOverflow, ChainIsOver, row, history
<1>10. CASE OverflowParks
  <2>1. Closed(log')
    BY <1>10, FinalStaysClosed DEF OverflowParks, Park, Booked
  <2> QED BY <1>10, <2>1, BookedLeft DEF OverflowParks, Park
<1>11. CASE OverflowResult
  BY <1>11, BookedKept DEF OverflowResult, row
<1>12. CASE OverflowEnds
  BY <1>12, BookedKept DEF OverflowEnds, row, history
<1>13. CASE OverflowRaises
  BY <1>13, BookedLeft DEF OverflowRaises, Fail
<1> QED
  BY <1>1, <1>2, <1>3, <1>4, <1>5, <1>6, <1>7, <1>8, <1>9, <1>10, <1>11, <1>12, <1>13
     DEF ChainStep, OverflowStep

LEMMA BookedStep == Booked /\ Witnessed /\ [Next]_vars => Booked'
<1> SUFFICES ASSUME Booked, Witnessed, [Next]_vars PROVE Booked' OBVIOUS
<1>1. CASE Route
  <2>1. /\ attempts' = <<>> /\ pc' = "trying" /\ status' = "planning"
        /\ status = "queued" /\ UNCHANGED log
    BY <1>1 DEF Route, StartPass
  <2> QED BY <2>1 DEF Booked, Closed
<1>2. CASE RouteUnroutable
  BY <1>2, BookedLeft DEF RouteUnroutable, Fail
<1>3. CASE RouteDefers
  BY <1>3, BookedLeft DEF RouteDefers, Defer, Booked
<1>4. CASE ChainStep \/ OverflowStep
  BY <1>4, BookedChain
<1>5. CASE Cool
  BY <1>5, BookedLeft DEF Cool, Defer, Fail, Booked
<1>6. CASE Retry
  BY <1>6, BookedKept DEF Retry, history
<1>7. CASE RunAgain
  BY <1>7, BookedKept DEF RunAgain, StartPass, row
<1>8. CASE RetriesExhausted
  BY <1>8, BookedLeft DEF RetriesExhausted, Fail
<1>9. CASE WallClock
  BY <1>9, BookedLeft DEF WallClock, Fail
<1>10. CASE Finish
  <2>1. Closed(log') /\ (~overflowed' => Succeeds(log', provider'))
    BY <1>10 DEF Finish, Booked, history
  <2> QED BY <1>10, <2>1, BookedLeft DEF Finish
<1>11. CASE FinishRaises
  BY <1>11, BookedLeft DEF FinishRaises, Fail
<1>12. CASE Decide
  BY <1>12 DEF Decide, Booked, loop
<1>13. CASE FenceRefuses
  BY <1>13 DEF FenceRefuses, Booked, loop, history
<1>14. CASE CooldownExpires
  BY <1>14 DEF CooldownExpires, Booked, row, loop, history
<1>15. CASE Restart
  <2>1. status' \notin {"running", "failed"} => status \notin {"running", "failed"}
    BY <1>15 DEF Restart, Over
  <2>2. status' # "succeeded"
    BY <1>15 DEF Restart, Over
  <2> QED BY <1>15, <2>1, <2>2, BookedLeft DEF Restart, Booked
<1>16. CASE UNCHANGED vars
  BY <1>16 DEF vars, Booked, row, loop, history
<1> QED
  BY <1>1, <1>2, <1>3, <1>4, <1>5, <1>6, <1>7, <1>8, <1>9, <1>10, <1>11, <1>12, <1>13,
     <1>14, <1>15, <1>16
     DEF Next, RetryStep

\* However failover, retries, overflow, parks and restarts interleave, a run that
\* ended its own way has no open attempt on its row, and one that succeeded within
\* the chain names the attempt that did it.
THEOREM AttemptsClosed == Spec => []AttemptsAreClosed
<1>1. Booked => AttemptsAreClosed
  BY DEF Booked, AttemptsAreClosed, Closed, Succeeds
<1> QED BY BookedInit, WitnessedInit, BookedStep, WitnessedStep, <1>1, PTL DEF Spec
=============================================================================
