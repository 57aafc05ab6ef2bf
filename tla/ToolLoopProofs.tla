---------------------------- MODULE ToolLoopProofs ----------------------------
(***************************************************************************)
(* The budget and the consent of module ToolLoop, for every number of      *)
(* rounds, calls and changes of the endpoint, and every budget.            *)
(*                                                                         *)
(* Every request costs one, so a conversation's requests are counted by    *)
(* its cost, wherever that is: in the loop while one runs, in the          *)
(* checkpoint while the run is parked.  What a conversation that was given *)
(* up has spent stays below a whole budget with its overshoot.             *)
(***************************************************************************)
EXTENDS ToolLoop, SequenceTheorems, TLAPS

Share  == Budget + Overshoot
GivenUp == restarts * Share   \* what earlier conversations may have spent

Running == {"start", "round", "calls", "resolve"}
Waiting == {"parked", "queued"}

CountersOK ==
  /\ requests \in Nat /\ restarts \in Nat
  /\ cost \in Nat /\ aux \in Nat /\ stored.cost \in Nat

\* While a loop runs, its cost accounts for every request of its conversation, and
\* leaves room for one more.
RunningPaced ==
  pc \in Running => cost < Share /\ requests <= GivenUp + cost

\* While none runs, the checkpoint's cost does, and a new loop would start at zero.
WaitingPaced ==
  pc \in Waiting => cost = 0 /\ stored.cost < Share /\ requests <= GivenUp + stored.cost

BudgetInv ==
  /\ CountersOK
  /\ RunningPaced
  /\ WaitingPaced
  /\ requests <= GivenUp + Share

-----------------------------------------------------------------------------

\* A share is a positive number, and one more conversation given up is one more share.
LEMMA Shares ==
  /\ Share \in Nat /\ Share >= 2
  /\ \A r \in Nat : /\ r * Share \in Nat
                    /\ (r + 1) * Share = r * Share + Share
<1>1. Share \in Nat /\ Share >= 2
  BY ConstantsAssumption DEF Share, Overshoot
<1>2. ASSUME NEW r \in Nat
      PROVE  r * Share \in Nat /\ (r + 1) * Share = r * Share + Share
  BY <1>1
<1> QED
  BY <1>1, <1>2

\* What is within a cost is within any bound of the cost.
LEMMA Within == \A x, y, z, w \in Nat : x <= y + z /\ z <= w => x <= y + w
OBVIOUS

\* The first loop starts with nothing spent.
LEMMA BudgetInvInit == Init => BudgetInv
  BY Shares DEF Init, BudgetInv, CountersOK, RunningPaced, WaitingPaced, GivenUp, Running, Waiting

\* A request that is not the last of its loop leaves room for one more.
LEMMA TurnPaced ==
  ASSUME BudgetInv, NEW text \in BOOLEAN, Turn(text), restarts' = restarts
  PROVE  /\ requests' \in Nat /\ cost' \in Nat
         /\ requests' <= GivenUp' + cost'
         /\ cost' <= Share
         /\ ~ForceAnswer => cost' < Share
<1>1. requests \in Nat /\ cost \in Nat /\ aux \in Nat /\ restarts \in Nat
  BY DEF BudgetInv, CountersOK
<1>2. cost < Share /\ requests <= GivenUp + cost
  BY DEF BudgetInv, RunningPaced, Turn, Running
<1>3. requests' = requests + 1 /\ cost' = cost + 1 /\ GivenUp' = GivenUp
  BY DEF Turn, GivenUp, Share
<1>4. GivenUp \in Nat /\ Share \in Nat
  BY Shares, <1>1 DEF GivenUp
<1>5. ~ForceAnswer => cost <= Budget
  BY <1>1, ConstantsAssumption DEF ForceAnswer, OverBudget
<1>6. Budget + 1 < Share
  BY ConstantsAssumption DEF Share, Overshoot
<1> QED
  BY <1>1, <1>2, <1>3, <1>4, <1>5, <1>6, ConstantsAssumption

\* A call spends no request.
LEMMA CallPaced == ASSUME BudgetInv, Call PROVE BudgetInv'
<1> USE DEF BudgetInv, CountersOK, RunningPaced, WaitingPaced, GivenUp, Share, Running, Waiting
<1>1. ASSUME Answers, pc \in {"calls", "resolve"}, aux' \in {aux, aux + 1}
      PROVE  BudgetInv'
  <2>1. pc' \in {"calls", "round"}
    BY <1>1 DEF Answers
  <2>2. cost' = cost /\ requests' = requests /\ restarts' = restarts /\ stored' = stored
    BY <1>1 DEF Answers, durable
  <2> QED
    BY <1>1, <2>1, <2>2
<1>2. CASE Runs
  BY <1>1, <1>2 DEF Runs
<1>3. CASE Refuses
  BY <1>1, <1>3 DEF Refuses
<1>4. CASE RunsApproved
  BY <1>1, <1>4 DEF RunsApproved
<1>5. CASE RunsPreApproved
  BY <1>1, <1>5 DEF RunsPreApproved
<1>6. CASE Parks
  <2>1. stored'.cost = cost
    BY <1>6 DEF Parks, Snapshot
  <2>2. pc = "calls" /\ pc' = "parked" /\ cost' = 0 /\ aux' = 0
        /\ requests' = requests /\ restarts' = restarts
    BY <1>6 DEF Parks
  <2> QED
    BY <2>1, <2>2
<1> QED
  BY <1>2, <1>3, <1>4, <1>5, <1>6 DEF Call

\* Every step keeps the accounts.
LEMMA BudgetInvNext == BudgetInv /\ [Next]_vars => BudgetInv'
<1> SUFFICES ASSUME BudgetInv, [Next]_vars PROVE BudgetInv'
  OBVIOUS
<1> USE DEF BudgetInv, CountersOK, RunningPaced, WaitingPaced, Running, Waiting
<1>1. CASE Start \/ NoCredentials \/ RequestFails
  BY <1>1 DEF Start, NoCredentials, RequestFails, locals, durable, history, GivenUp, Share
<1>2. CASE \E text \in BOOLEAN : Concludes(text)
  <2>1. PICK text \in BOOLEAN : Concludes(text)
    BY <1>2
  <2>2. Turn(text) /\ restarts' = restarts /\ pc' = "done" /\ aux' = aux /\ stored' = stored
    BY <2>1 DEF Concludes, durable
  <2>3. /\ requests' \in Nat /\ cost' \in Nat
        /\ requests' <= GivenUp' + cost' /\ cost' <= Share
    BY <2>2, TurnPaced
  <2>4. GivenUp' \in Nat /\ Share \in Nat
    BY <2>2, Shares DEF GivenUp, Share
  <2>5. requests' <= GivenUp' + Share
    BY <2>3, <2>4, Within
  <2>6. CountersOK'
    BY <2>2, <2>3
  <2> QED
    BY <2>2, <2>5, <2>6
<1>3. ASSUME NEW text \in BOOLEAN, Turn(text), ~ForceAnswer, restarts' = restarts,
             aux' = aux, stored' = stored, pc' \in {"round", "calls"}
      PROVE  BudgetInv'
  <2>1. /\ requests' \in Nat /\ cost' \in Nat
        /\ requests' <= GivenUp' + cost' /\ cost' <= Share /\ cost' < Share
    BY <1>3, TurnPaced
  <2>2. GivenUp' \in Nat /\ Share \in Nat
    BY <1>3, Shares DEF GivenUp, Share
  <2>3. requests' <= GivenUp' + Share
    BY <2>1, <2>2, Within
  <2>4. CountersOK'
    BY <1>3, <2>1
  <2>5. RunningPaced'
    BY <2>1 DEF Share
  <2> QED
    BY <1>3, <2>3, <2>4, <2>5
<1>4. CASE ComesEmpty
  BY <1>3, <1>4 DEF ComesEmpty, durable, Turn
<1>5. CASE \E text \in BOOLEAN, n \in 1..PerRound : Proposes(text, n)
  <2>1. PICK text \in BOOLEAN, n \in 1..PerRound : Proposes(text, n)
    BY <1>5
  <2> QED
    BY <1>3, <2>1 DEF Proposes, durable
<1>6. CASE Call
  BY <1>6, CallPaced
<1>7. CASE Decide
  BY <1>7 DEF Decide, locals, GivenUp, Share
<1>8. CASE Resume
  BY <1>8 DEF Resume, RestoredCost, durable, history, GivenUp, Share
<1>9. CASE StartOver
  <2>1. pc = "queued" /\ pc' = "round" /\ restarts' = restarts + 1 /\ requests' = requests
        /\ cost' = cost /\ aux' = aux /\ stored' = stored
    BY <1>9 DEF StartOver, locals, durable
  <2>2. GivenUp' = GivenUp + Share /\ GivenUp \in Nat /\ Share \in Nat /\ Share >= 2
        /\ Share' = Share
    BY <2>1, Shares DEF GivenUp, Share
  <2> QED
    BY <2>1, <2>2
<1>10. CASE Redirect
  BY <1>10 DEF Redirect, locals, GivenUp, Share
<1>11. CASE UNCHANGED vars
  BY <1>11 DEF vars, locals, durable, history, GivenUp, Share
<1> QED
  BY <1>1, <1>2, <1>4, <1>5, <1>6, <1>7, <1>8, <1>9, <1>10, <1>11 DEF Next, Step

\* A run that is parked and resumed any number of times spends its budget once,
\* with one overshoot, unless it starts over: then once for each time.
THEOREM BudgetAcrossParks == Spec => []BudgetIsCumulative
<1>1. BudgetInv => BudgetIsCumulative
  <2> SUFFICES ASSUME BudgetInv PROVE requests <= (restarts + 1) * Share
    BY DEF BudgetIsCumulative, Share
  <2>1. restarts \in Nat /\ requests <= GivenUp + Share
    BY DEF BudgetInv, CountersOK
  <2> QED
    BY <2>1, Shares DEF GivenUp
<1> QED
  BY <1>1, BudgetInvInit, BudgetInvNext, PTL DEF Spec

\* The bound on requests is never the reason why a loop stops: it binds only
\* when the run has started over more often than the endpoint was changed.
THEOREM RequestsSuffice == Spec => [](restarts <= MaxRedirects => requests < MaxRequests)
<1>1. BudgetInv => (restarts <= MaxRedirects => requests < MaxRequests)
  <2> SUFFICES ASSUME BudgetInv, restarts <= MaxRedirects PROVE requests < MaxRequests
    OBVIOUS
  <2>1. restarts \in Nat /\ requests \in Nat /\ requests <= restarts * Share + Share
    BY DEF BudgetInv, CountersOK, GivenUp
  <2>2. MaxRedirects \in Nat /\ Share \in Nat /\ MaxRequests = (MaxRedirects + 1) * Share + 1
    BY Shares, ConstantsAssumption DEF MaxRequests, Share
  <2>3. restarts * Share <= MaxRedirects * Share
    BY <2>1, <2>2
  <2>4. (MaxRedirects + 1) * Share = MaxRedirects * Share + Share
    BY <2>2, Shares
  <2>5. restarts * Share \in Nat /\ MaxRedirects * Share \in Nat
    BY <2>1, <2>2, Shares
  <2> QED
    BY <2>1, <2>2, <2>3, <2>4, <2>5
<1> QED
  BY <1>1, BudgetInvInit, BudgetInvNext, PTL DEF Spec

-----------------------------------------------------------------------------
(* Consent.                                                                 *)

\* Consent is held only while the call it was given for is resolved, and a positive
\* verdict is on that call from the decision on.
ConsentInv ==
  /\ acted \subseteq approved
  /\ consent => pc = "resolve" /\ stored.call \in approved
  /\ pc = "queued" /\ verdict => stored.call \in approved

\* A call ends with its consent taken back.
LEMMA AnswersTakesConsentBack ==
  ASSUME Answers, acted' \subseteq approved'
  PROVE  ConsentInv'
<1>1. consent' = FALSE
  BY DEF Answers, ConsentAfter
<1>2. pc' # "queued"
  BY DEF Answers
<1> QED
  BY <1>1, <1>2 DEF ConsentInv

LEMMA ConsentInvNext == ConsentInv /\ [Next]_vars => ConsentInv'
<1> SUFFICES ASSUME ConsentInv, [Next]_vars PROVE ConsentInv'
  OBVIOUS
<1>1. acted \subseteq approved
  BY DEF ConsentInv
<1>2. CASE Start \/ NoCredentials \/ RequestFails
  BY <1>2 DEF Start, NoCredentials, RequestFails, locals, durable, history, ConsentInv
<1>3. CASE \E text \in BOOLEAN : Concludes(text)
  BY <1>3 DEF Concludes, Turn, durable, ConsentInv
<1>4. CASE ComesEmpty
  BY <1>4 DEF ComesEmpty, Turn, durable, ConsentInv
<1>5. CASE \E text \in BOOLEAN, n \in 1..PerRound : Proposes(text, n)
  BY <1>5 DEF Proposes, Turn, durable, ConsentInv
<1>6. CASE Runs
  BY <1>1, <1>6, AnswersTakesConsentBack DEF Runs
<1>7. CASE Refuses
  BY <1>1, <1>7, AnswersTakesConsentBack DEF Refuses
<1>8. CASE RunsApproved
  BY <1>1, <1>8, AnswersTakesConsentBack DEF RunsApproved
<1>9. CASE RunsPreApproved
  <2>1. Current \in approved
    BY <1>9 DEF RunsPreApproved, Current, ConsentInv
  <2> QED
    BY <1>1, <1>9, <2>1, AnswersTakesConsentBack DEF RunsPreApproved
<1>10. CASE Parks
  BY <1>1, <1>10 DEF Parks, ConsentInv
<1>11. CASE Decide
  <2>1. consent' = consent /\ stored' = stored /\ acted' = acted /\ pc = "parked"
    BY <1>11 DEF Decide, locals
  <2>2. approved \subseteq approved' /\ (verdict' => stored.call \in approved')
    BY <1>11 DEF Decide
  <2>3. ~consent
    BY <2>1 DEF ConsentInv
  <2> QED
    BY <1>1, <2>1, <2>2, <2>3 DEF ConsentInv
<1>12. CASE Resume
  BY <1>12 DEF Resume, durable, history, ConsentInv
<1>13. CASE StartOver
  BY <1>13 DEF StartOver, locals, durable, ConsentInv
<1>14. CASE Redirect
  BY <1>14 DEF Redirect, locals, ConsentInv
<1>15. CASE UNCHANGED vars
  BY <1>15 DEF vars, locals, durable, history, ConsentInv
<1> QED
  BY <1>2, <1>3, <1>4, <1>5, <1>6, <1>7, <1>8, <1>9, <1>10, <1>11, <1>12, <1>13, <1>14, <1>15
  DEF Next, Step, Call

\* Of the tools that must ask, only calls an operator approved ever run, however
\* often the run was parked and whatever the resumed loop went on to propose.
THEOREM ConsentCoversOneCall == Spec => []ConsentIsForOneCall
<1>1. Init => ConsentInv
  BY DEF Init, ConsentInv
<1>2. ConsentInv => ConsentIsForOneCall
  BY DEF ConsentInv, ConsentIsForOneCall
<1> QED
  BY <1>1, <1>2, ConsentInvNext, PTL DEF Spec

-----------------------------------------------------------------------------
(* Results.                                                                 *)

Spots == Nat \X Nat

\* A call of another request, or of this one, that a park left without a result.
Excused(c, cuts, loop) ==
  /\ c \notin cuts
  /\ \E d \in cuts : d[1] = c[1] /\ (loop \in Appending => d[2] < c[2])

InTodo(c) == \E i \in 1..Len(todo) : todo[i] = c

SpotsOK ==
  /\ requests \in Nat
  /\ todo \in Seq(Spots) /\ proposed \subseteq Spots /\ parked \subseteq Spots
  /\ stored.proposed \subseteq Spots

\* No request has calls before it is made.
InPast ==
  /\ \A c \in proposed : c[1] <= requests
  /\ \A c \in parked : c[1] <= requests
  /\ \A c \in stored.proposed : c[1] <= requests

\* The calls of the current request that have no result in the conversation are those
\* still to do, in order, and those whose results are held back.
WhileCalling ==
  pc = "calls" =>
    /\ todo # <<>>
    /\ \A i \in 1..Len(todo) : todo[i][1] = requests
    /\ \A i, j \in 1..Len(todo) : i < j => todo[i][2] < todo[j][2]
    /\ path \in Appending => collected = {}
    /\ \A c \in collected : c[1] = requests
    /\ \A c \in parked : c[1] < requests
    /\ \A c \in proposed \ answered :
         InTodo(c) \/ c \in collected \/ (c[1] < requests /\ Excused(c, parked, path))

\* Between requests only what a park cut is without a result, and while a parked call
\* is decided and resolved, that call.
Elsewhere ==
  /\ pc # "calls" => todo = <<>> /\ collected = {}
  /\ pc \in Waiting => /\ proposed = {}
                       /\ \A c \in stored.proposed \ stored.answered :
                            c = stored.call \/ Excused(c, parked, path)
  /\ pc = "resolve" => \A c \in proposed \ answered :
                         c = stored.call \/ Excused(c, parked, path)
  /\ pc \in {"start", "round", "done"} => \A c \in proposed \ answered : Excused(c, parked, path)

CutInv == SpotsOK /\ InPast /\ WhileCalling /\ Elsewhere

\* A request's calls are all to do, and no call of an earlier one becomes less excused.
LEMMA ProposesCuts ==
  ASSUME CutInv, NEW text \in BOOLEAN, NEW n \in 1..PerRound, Proposes(text, n)
  PROVE  CutInv'
<1>1. /\ pc = "round" /\ pc' = "calls" /\ requests' = requests + 1
      /\ todo' = [i \in 1..n |-> <<requests + 1, i>>]
      /\ proposed' = proposed \cup {<<requests + 1, i>> : i \in 1..n}
      /\ answered' = answered /\ parked' = parked /\ path' = path /\ stored' = stored
      /\ collected' = collected
  BY DEF Proposes, Turn, durable
<1>2. /\ requests \in Nat /\ PerRound \in Nat /\ n \in Nat /\ n >= 1
      /\ proposed \subseteq Spots /\ parked \subseteq Spots /\ stored.proposed \subseteq Spots
      /\ collected = {}
  BY <1>1, ConstantsAssumption DEF CutInv, SpotsOK, Elsewhere
<1>3. todo' \in Seq(Spots) /\ Len(todo') = n /\ todo' # <<>>
      /\ \A i \in 1..n : todo'[i] = <<requests + 1, i>>
  <2>1. todo' \in [1..n -> Spots]
    BY <1>1, <1>2 DEF Spots
  <2>2. todo' \in Seq(Spots)
    BY <1>2, <2>1
  <2>3. DOMAIN todo' = 1..n /\ DOMAIN todo' = 1..Len(todo') /\ Len(todo') \in Nat
    BY <2>1, <2>2
  <2>4. Len(todo') = n
    BY <1>2, <2>3
  <2>5. todo' # <<>>
    BY <1>2, <2>4, EmptySeq
  <2>6. \A i \in 1..n : todo'[i] = <<requests + 1, i>>
    BY <1>1
  <2> QED
    BY <2>2, <2>4, <2>5, <2>6
<1>4. SpotsOK'
  BY <1>1, <1>2, <1>3 DEF SpotsOK, Spots
<1>5. InPast'
  BY <1>1, <1>2 DEF CutInv, InPast, Spots
<1>6. \A c \in proposed' \ answered' :
        InTodo(c)' \/ (c[1] < requests' /\ Excused(c, parked', path'))
  <2> SUFFICES ASSUME NEW c \in proposed' \ answered'
               PROVE  InTodo(c)' \/ (c[1] < requests' /\ Excused(c, parked', path'))
    OBVIOUS
  <2>1. CASE c \in proposed
    <3>1. Excused(c, parked, path) /\ c[1] <= requests /\ c[1] \in Nat
      BY <1>1, <1>2, <2>1 DEF CutInv, Elsewhere, InPast, Spots
    <3> QED
      BY <1>1, <1>2, <3>1
  <2>2. CASE \E i \in 1..n : c = <<requests + 1, i>>
    BY <1>3, <2>2 DEF InTodo
  <2> QED
    BY <1>1, <2>1, <2>2
<1>7. WhileCalling'
  <2>1. \A c \in parked' : c[1] < requests'
    BY <1>1, <1>2 DEF CutInv, InPast, Spots
  <2>2. /\ \A i \in 1..Len(todo') : todo'[i][1] = requests'
        /\ \A i, j \in 1..Len(todo') : i < j => todo'[i][2] < todo'[j][2]
    BY <1>1, <1>2, <1>3
  <2> QED
    BY <1>1, <1>2, <1>3, <1>6, <2>1, <2>2 DEF WhileCalling
<1>8. Elsewhere'
  BY <1>1 DEF Elsewhere, Waiting
<1> QED
  BY <1>4, <1>5, <1>7, <1>8 DEF CutInv

\* The result of a call joins the conversation at once, with those of its request, or
\* is held back for the next.
LEMMA AnswersCuts ==
  ASSUME CutInv, Answers, pc \in {"calls", "resolve"}
  PROVE  CutInv'
<1>1. /\ requests' = requests /\ proposed' = proposed /\ parked' = parked
      /\ path' = path /\ stored' = stored
      /\ answered' = answered \cup Joins
  BY DEF Answers, durable
<1>2. /\ requests \in Nat /\ todo \in Seq(Spots) /\ proposed \subseteq Spots
      /\ parked \subseteq Spots /\ stored.proposed \subseteq Spots
  BY DEF CutInv, SpotsOK
<1>3. InPast'
  BY <1>1 DEF CutInv, InPast
<1>4. CASE pc = "resolve"
  <2>1. todo = <<>> /\ collected = {} /\ Len(todo) = 0
    BY <1>4 DEF CutInv, Elsewhere
  <2>2. todo' = <<>> /\ collected' = {} /\ pc' = "round" /\ Joins = {stored.call}
    BY <1>4, <2>1 DEF Answers, Joins, Current
  <2>3. \A c \in proposed' \ answered' : Excused(c, parked', path')
    BY <1>1, <1>4, <2>2 DEF CutInv, Elsewhere
  <2>4. SpotsOK'
    BY <1>1, <1>2, <2>2 DEF SpotsOK
  <2>5. WhileCalling' /\ Elsewhere'
    BY <2>2, <2>3 DEF WhileCalling, Elsewhere, Waiting
  <2> QED
    BY <1>3, <2>4, <2>5 DEF CutInv
<1>5. CASE pc = "calls" /\ Len(todo) = 1
  <2>1. /\ todo # <<>> /\ (path \in Appending => collected = {})
        /\ \A c \in proposed \ answered :
             InTodo(c) \/ c \in collected \/ Excused(c, parked, path)
    BY <1>5 DEF CutInv, WhileCalling
  <2>2. Head(todo) = todo[1] /\ Tail(todo) = <<>>
    <3>1. Head(todo) = todo[1]
      BY <2>1
    <3>2. Tail(todo) \in Seq(Spots) /\ Len(Tail(todo)) = 0
      BY <1>2, <1>5, <2>1, HeadTailProperties
    <3> QED
      BY <3>1, <3>2, EmptySeq
  <2>3. todo' = <<>> /\ collected' = {} /\ pc' = "round"
    BY <1>5, <2>2 DEF Answers
  <2>4. Joins = IF path \in Appending THEN {todo[1]} ELSE collected \cup {todo[1]}
    BY <1>5, <2>2 DEF Joins, Current
  <2>5. \A c : InTodo(c) => c = todo[1]
    BY <1>2, <1>5 DEF InTodo
  <2>6. \A c \in proposed' \ answered' : Excused(c, parked', path')
    BY <1>1, <2>1, <2>4, <2>5
  <2>7. SpotsOK'
    BY <1>1, <1>2, <2>3 DEF SpotsOK
  <2>8. WhileCalling' /\ Elsewhere'
    BY <2>3, <2>6 DEF WhileCalling, Elsewhere, Waiting
  <2> QED
    BY <1>3, <2>7, <2>8 DEF CutInv
<1>6. CASE pc = "calls" /\ Len(todo) # 1
  <2>1. /\ todo # <<>> /\ (path \in Appending => collected = {})
        /\ \A i \in 1..Len(todo) : todo[i][1] = requests
        /\ \A i, j \in 1..Len(todo) : i < j => todo[i][2] < todo[j][2]
        /\ \A c \in collected : c[1] = requests
        /\ \A c \in parked : c[1] < requests
        /\ \A c \in proposed \ answered :
             InTodo(c) \/ c \in collected \/ (c[1] < requests /\ Excused(c, parked, path))
    BY <1>6 DEF CutInv, WhileCalling
  <2>2. Len(todo) \in Nat /\ Len(todo) > 1 /\ Head(todo) = todo[1]
    <3>1. Len(todo) \in Nat \ {0}
      BY <1>2, <2>1, EmptySeq
    <3>2. \A k \in Nat \ {0} : k # 1 => k > 1
      OBVIOUS
    <3>3. Len(todo) # 1
      BY <1>6
    <3>4. Len(todo) > 1
      BY <3>1, <3>2, <3>3
    <3>5. Head(todo) = todo[1]
      BY <2>1
    <3> QED
      BY <3>1, <3>4, <3>5
  <2>3. /\ todo' = Tail(todo) /\ pc' = "calls"
        /\ collected' = IF path \in Appending THEN {} ELSE collected \cup {todo[1]}
        /\ Joins = IF path \in Appending THEN {todo[1]} ELSE {}
    BY <1>6, <2>2 DEF Answers, Joins, Current
  <2>4. /\ todo' \in Seq(Spots) /\ Len(todo') = Len(todo) - 1
        /\ \A i \in 1..Len(todo') : todo'[i] = todo[i + 1] /\ i + 1 \in 1..Len(todo)
    BY <1>2, <2>2, <2>3
  <2>5. \A c : InTodo(c) => c = todo[1] \/ InTodo(c)'
    <3> SUFFICES ASSUME NEW c, NEW i \in 1..Len(todo), todo[i] = c, i # 1
                 PROVE  InTodo(c)'
      BY DEF InTodo
    <3>1. i - 1 \in 1..Len(todo') /\ todo'[i - 1] = todo[i]
      BY <2>2, <2>4
    <3> QED
      BY <3>1 DEF InTodo
  <2>6. \A c \in proposed' \ answered' :
          \/ InTodo(c)' \/ c \in collected'
          \/ c[1] < requests' /\ Excused(c, parked', path')
    BY <1>1, <2>1, <2>3, <2>5
  <2>7. /\ todo' # <<>>
        /\ \A i \in 1..Len(todo') : todo'[i][1] = requests'
        /\ \A i, j \in 1..Len(todo') : i < j => todo'[i][2] < todo'[j][2]
    <3>1. todo' # <<>>
      BY <2>2, <2>4, EmptySeq
    <3>2. \A i \in 1..Len(todo') : todo'[i][1] = requests'
      BY <1>1, <2>1, <2>4
    <3>3. ASSUME NEW i \in 1..Len(todo'), NEW j \in 1..Len(todo'), i < j
          PROVE  todo'[i][2] < todo'[j][2]
      <4>1. i + 1 \in 1..Len(todo) /\ j + 1 \in 1..Len(todo) /\ i + 1 < j + 1
        BY <2>2, <2>4, <3>3
      <4>2. todo[i + 1][2] < todo[j + 1][2]
        BY <2>1, <4>1
      <4> QED
        BY <2>4, <4>2
    <3> QED
      BY <3>1, <3>2, <3>3
  <2>8. \A c \in collected' : c[1] = requests'
    BY <1>1, <2>1, <2>2, <2>3
  <2>9. WhileCalling'
    BY <1>1, <2>1, <2>3, <2>6, <2>7, <2>8 DEF WhileCalling
  <2>10. SpotsOK' /\ Elsewhere'
    BY <1>1, <1>2, <2>3, <2>4 DEF SpotsOK, Elsewhere, Waiting
  <2> QED
    BY <1>3, <2>9, <2>10 DEF CutInv
<1> QED
  BY <1>4, <1>5, <1>6

\* A park leaves its call and the rest of the request: on the paths that hold results
\* back, what was held back too.
LEMMA ParksCuts == ASSUME CutInv, Parks PROVE CutInv'
<1>1. /\ pc = "calls" /\ pc' = "parked"
      /\ requests' = requests /\ path' = path
      /\ todo' = <<>> /\ collected' = {} /\ proposed' = {}
      /\ parked' = parked \cup {todo[1]}
      /\ stored'.proposed = proposed /\ stored'.answered = answered /\ stored'.call = todo[1]
  BY DEF Parks, Snapshot, Current, CutInv, SpotsOK, WhileCalling
<1>2. /\ requests \in Nat /\ todo \in Seq(Spots) /\ todo # <<>> /\ proposed \subseteq Spots
      /\ parked \subseteq Spots /\ (path \in Appending => collected = {})
      /\ \A i \in 1..Len(todo) : todo[i][1] = requests
      /\ \A i, j \in 1..Len(todo) : i < j => todo[i][2] < todo[j][2]
      /\ \A c \in collected : c[1] = requests
      /\ \A c \in parked : c[1] < requests
      /\ \A c \in proposed \ answered :
           InTodo(c) \/ c \in collected \/ (c[1] < requests /\ Excused(c, parked, path))
  BY <1>1 DEF CutInv, SpotsOK, WhileCalling
<1>3. 1 \in 1..Len(todo) /\ todo[1] \in Spots /\ todo[1][1] = requests
  BY <1>2
<1>4. SpotsOK'
  BY <1>1, <1>2, <1>3 DEF SpotsOK
<1>5. InPast'
  BY <1>1, <1>2, <1>3 DEF CutInv, InPast, Spots
<1>6. ASSUME NEW c \in proposed \ answered, c # todo[1]
      PROVE  Excused(c, parked', path)
  <2>1. CASE InTodo(c)
    <3>1. PICK i \in 1..Len(todo) : todo[i] = c
      BY <2>1 DEF InTodo
    <3>2. c[1] = requests /\ todo[1][2] < c[2]
      BY <1>2, <1>3, <1>6, <3>1
    <3>3. c \notin parked
      BY <1>2, <3>2
    <3> QED
      BY <1>1, <1>3, <1>6, <3>2, <3>3 DEF Excused
  <2>2. CASE c \in collected
    <3>1. c[1] = requests /\ path \notin Appending
      BY <1>2, <2>2
    <3>2. c \notin parked
      BY <1>2, <3>1
    <3> QED
      BY <1>1, <1>3, <1>6, <3>1, <3>2 DEF Excused
  <2>3. CASE Excused(c, parked, path)
    BY <1>1, <1>6, <2>3 DEF Excused
  <2> QED
    BY <1>2, <2>1, <2>2, <2>3
<1>7. WhileCalling' /\ Elsewhere'
  BY <1>1, <1>6 DEF WhileCalling, Elsewhere, Waiting
<1> QED
  BY <1>4, <1>5, <1>7 DEF CutInv

\* Every step keeps the account of results.
LEMMA CutInvNext == CutInv /\ [Next]_vars => CutInv'
<1> SUFFICES ASSUME CutInv, [Next]_vars PROVE CutInv'
  OBVIOUS
<1> USE DEF CutInv, SpotsOK, InPast, WhileCalling, Elsewhere, Waiting, InTodo
<1>1. CASE Start \/ NoCredentials \/ RequestFails
  BY <1>1 DEF Start, NoCredentials, RequestFails, locals, conversation, durable, history
<1>2. CASE \E text \in BOOLEAN : Concludes(text)
  BY <1>2 DEF Concludes, Turn, conversation, durable, Spots
<1>3. CASE ComesEmpty
  BY <1>3 DEF ComesEmpty, Turn, conversation, durable, Spots
<1>4. CASE \E text \in BOOLEAN, n \in 1..PerRound : Proposes(text, n)
  BY <1>4, ProposesCuts
<1>5. CASE Runs
  BY <1>5, AnswersCuts DEF Runs
<1>6. CASE Refuses
  BY <1>6, AnswersCuts DEF Refuses
<1>7. CASE RunsApproved
  BY <1>7, AnswersCuts DEF RunsApproved
<1>8. CASE RunsPreApproved
  BY <1>8, AnswersCuts DEF RunsPreApproved
<1>9. CASE Parks
  BY <1>9, ParksCuts
<1>10. CASE Decide
  BY <1>10 DEF Decide, locals, conversation
<1>11. CASE Resume
  BY <1>11 DEF Resume, durable, history
<1>12. CASE StartOver
  BY <1>12 DEF StartOver, locals, conversation, durable
<1>13. CASE Redirect
  BY <1>13 DEF Redirect, locals, conversation, Excused
<1>14. CASE UNCHANGED vars
  BY <1>14 DEF vars, locals, conversation, durable, history
<1> QED
  BY <1>1, <1>2, <1>3, <1>4, <1>5, <1>6, <1>7, <1>8, <1>9, <1>10, <1>11, <1>12, <1>13, <1>14
  DEF Next, Step, Call

\* Whenever the model is asked, in any loop and however often the run was parked, the calls
\* without a result are exactly of requests that a park cut.
THEOREM CutsAreAllThatIsLost == Spec => []UnansweredWereCut
<1>1. Init => CutInv
  BY DEF Init, CutInv, SpotsOK, InPast, WhileCalling, Elsewhere, Waiting
<1>2. CutInv => UnansweredWereCut
  BY DEF CutInv, Elsewhere, UnansweredWereCut, Excused
<1> QED
  BY <1>1, <1>2, CutInvNext, PTL DEF Spec
=============================================================================
