-------------------------- MODULE PlannerTurnsProofs --------------------------
(***************************************************************************)
(* Proofs about PlannerTurns: the contract of a planning turn, that none   *)
(* of its effects is late, that no sub-task is lost but for a cause, and   *)
(* that a verified one was verified.  All hold for any number of turns,    *)
(* calls, hand-offs, writers' steps and restarts.                          *)
(***************************************************************************)
EXTENDS PlannerTurns, TLAPS

-----------------------------------------------------------------------------
(* The row, the notes on it and the coroutine.                              *)

\* Where a coroutine may be while its row has, or had, a last status.
Past == {"none", "tail", "cleanup", "over"}

Verdicts == {"succeeded", "failed"}

\* The notes say what landed, the last status says what the notes say, and a turn
\* in the middle of a call is running.
Noting ==
  /\ status \in [Turns -> {"absent", "running"} \cup Settled]
  /\ pc \in [Turns -> Pcs]
  /\ call \in [Turns -> Tools \cup {NoTool}]
  /\ produced \in [Turns -> SUBSET Tools]
  /\ landed \in [Turns -> [Tools -> Nat]]
  /\ verdict \in [Turns -> Verdicts]
  /\ \A t \in Turns :
       /\ produced[t] = {k \in Tools : landed[t][k] > 0}
       /\ status[t] = "succeeded" => produced[t] # {}
       /\ status[t] = "no_proposals" => produced[t] = {}
       /\ status[t] # "running" => pc[t] \in Past

LEMMA NotingInit == Init => Noting
  BY DEF Init, Noting, Verdicts, Past, Pcs, Driven, Settled, Tools, NoTool

\* The coroutine moves on, and nothing lands.
LEMMA NotingMoves ==
  ASSUME Noting, NEW t \in Turns, NEW next \in Pcs,
         next \in Past \/ status[t] = "running",
         pc' = [pc EXCEPT ![t] = next],
         call' \in [Turns -> Tools \cup {NoTool}],
         verdict' \in [Turns -> Verdicts],
         UNCHANGED <<status, produced, landed>>
  PROVE  Noting'
  BY DEF Noting

\* So does its row.
LEMMA NotingSettles ==
  ASSUME Noting, NEW t \in Turns, NEW next \in Pcs, NEW last \in {"running"} \cup Settled,
         next \in Past \/ last = "running",
         last = "succeeded" => produced[t] # {},
         last = "no_proposals" => produced[t] = {},
         pc' = [pc EXCEPT ![t] = next], status' = [status EXCEPT ![t] = last],
         UNCHANGED <<call, produced, landed, verdict>>
  PROVE  Noting'
  BY DEF Noting

\* A call lands, and is noted.
LEMMA NotingLands ==
  ASSUME Noting, NEW t \in Turns, pc[t] = "calling", call[t] \in Tools,
         Returns(t), RecordProduced(t),
         landed' = [landed EXCEPT ![t][call[t]] = @ + 1],
         UNCHANGED <<status, verdict>>
  PROVE  Noting'
<1>1. status[t] = "running"
  BY DEF Noting, Past
<1>2. /\ pc' \in [Turns -> Pcs] /\ call' \in [Turns -> Tools \cup {NoTool}]
      /\ \A u \in Turns \ {t} : pc'[u] = pc[u]
  BY DEF Noting, Returns, Goto, Pcs, Driven
<1>3. /\ produced' \in [Turns -> SUBSET Tools]
      /\ produced'[t] = produced[t] \cup {call[t]}
      /\ \A u \in Turns \ {t} : produced'[u] = produced[u]
  BY DEF Noting, RecordProduced
<1>4. landed' \in [Turns -> [Tools -> Nat]]
  BY DEF Noting
<1>5. /\ \A u \in Turns \ {t} : landed'[u] = landed[u]
      /\ \A k \in Tools \ {call[t]} : landed'[t][k] = landed[t][k]
      /\ landed'[t][call[t]] = landed[t][call[t]] + 1
      /\ landed[t][call[t]] \in Nat
  BY DEF Noting
<1>6. produced'[t] = {k \in Tools : landed'[t][k] > 0}
  BY <1>3, <1>5 DEF Noting
<1>7. \A u \in Turns \ {t} : produced'[u] = {k \in Tools : landed'[u][k] > 0}
  BY <1>3, <1>5 DEF Noting
<1> QED
  BY <1>1, <1>2, <1>3, <1>4, <1>6, <1>7 DEF Noting

LEMMA NotingKept ==
  ASSUME Noting, UNCHANGED <<status, pc, call, produced, landed, verdict>>
  PROVE  Noting'
  BY DEF Noting

LEMMA NotingGoes ==
  ASSUME Noting, NEW t \in Turns, Goes(t)
  PROVE  Noting'
<1>1. CASE ScheduleDrive(t)
  BY <1>1, NotingMoves DEF ScheduleDrive, Goto, Noting, Verdicts, Past, Pcs, Driven, row
<1>2. CASE Drive(t)
  BY <1>2, NotingMoves DEF Drive, Conclude, Goto, Noting, Verdicts, Past, Pcs, Driven, row
<1>3. CASE ApplyNext(t)
  <2>1. call' \in [Turns -> Tools \cup {NoTool}] /\ status[t] = "running"
    BY <1>3 DEF ApplyNext, Applies, Allowed, Noting, Past, Tools
  <2>2. UNCHANGED <<status, produced, landed, verdict>>
    BY <1>3 DEF ApplyNext, row
  <2>3. pc' = [pc EXCEPT ![t] = "calling"] \/ UNCHANGED <<pc, call>>
    BY <1>3 DEF ApplyNext, Goto
  <2> QED BY <2>1, <2>2, <2>3, NotingMoves, NotingKept DEF Noting, Pcs, Driven
<1>4. CASE Applied(t)
  BY <1>4, NotingMoves DEF Applied, Conclude, Goto, Noting, Verdicts, Past, Pcs, Driven, row
<1>5. CASE Finish(t)
  <2>1. Contract(t) \in {"succeeded", "no_proposals", "failed"}
    BY DEF Contract, Noting, Verdicts
  <2>2. /\ Contract(t) = "succeeded" => produced[t] # {}
        /\ Contract(t) = "no_proposals" => produced[t] = {}
    BY DEF Contract, Noting, Verdicts
  <2>3. UNCHANGED <<call, produced, landed, verdict>>
    BY <1>5 DEF Finish
  <2>4. pc' = [pc EXCEPT ![t] = "tail"] /\ status' = [status EXCEPT ![t] = Contract(t)]
    BY <1>5 DEF Finish, Goto
  <2>5. Contract(t) \in {"running"} \cup Settled /\ "tail" \in Pcs /\ "tail" \in Past
    BY <2>1 DEF Settled, Pcs, Driven, Past
  <2> QED BY <2>2, <2>3, <2>4, <2>5, NotingSettles
<1>6. CASE Ends(t)
  BY <1>6, NotingMoves DEF Ends, Goto, Noting, Verdicts, Past, Pcs, row
<1>7. CASE Cleanup(t)
  BY <1>7, NotingSettles DEF Cleanup, Goto, Past, Pcs, Settled
<1> QED
  BY <1>1, <1>2, <1>3, <1>4, <1>5, <1>6, <1>7 DEF Goes

\* Steps of the checklist's other writers leave the rows alone.
Elsewhere ==
  \/ Look \/ AnswerPropose \/ AnswerSet \/ AnswerDispose
  \/ \E w \in Others, what \in {"propose", "set", "dispose", "verify", "preserve"} : Reads(w, what)
  \/ WorkerVerifies \/ WorkerPreserves

LEMMA ElsewhereTouchesNoTurn ==
  ASSUME Elsewhere
  PROVE  UNCHANGED <<status, pc, call, produced, landed, verdict>>
<1>1. CASE Look
  BY <1>1 DEF Look, row, coroutine
<1>2. CASE AnswerPropose
  BY <1>2 DEF AnswerPropose, Answers, row, coroutine
<1>3. CASE AnswerSet
  BY <1>3 DEF AnswerSet, Answers, row, coroutine
<1>4. CASE AnswerDispose
  BY <1>4 DEF AnswerDispose, Answers, row, coroutine
<1>5. CASE \E w \in Others, what \in {"propose", "set", "dispose", "verify", "preserve"} : Reads(w, what)
  BY <1>5 DEF Reads, row, coroutine
<1>6. CASE WorkerVerifies
  BY <1>6 DEF WorkerVerifies, Answers, row, coroutine
<1>7. CASE WorkerPreserves
  BY <1>7 DEF WorkerPreserves, Answers, row, coroutine
<1> QED
  BY <1>1, <1>2, <1>3, <1>4, <1>5, <1>6, <1>7 DEF Elsewhere

LEMMA NotingTurn ==
  ASSUME Noting, NEW t \in Turns,
         \/ Start(t) \/ Calls(t) \/ StreamResult(t) \/ StreamErrors(t)
         \/ ProposesSubtasks(t) \/ ProposesWork(t) \/ ProposesSchedule(t) \/ HandsOff(t)
         \/ Fails(t) \/ Interrupt(t) \/ Raises(t)
  PROVE  Noting'
<1>1. CASE Start(t)
  BY <1>1, NotingSettles DEF Start, Goto, Pcs, Driven
<1>2. CASE Calls(t)
  <2>1. status[t] = "running"
    BY <1>2 DEF Calls, Noting, Past
  <2> QED BY <1>2, <2>1, NotingMoves DEF Calls, Goto, Noting, Pcs, Driven, row
<1>3. CASE StreamResult(t)
  <2>1. status[t] = "running"
    BY <1>3 DEF StreamResult, Noting, Past
  <2>2. verdict' \in [Turns -> Verdicts] /\ UNCHANGED <<status, produced, landed, call>>
    BY <1>3 DEF StreamResult, Conclude, Noting, Verdicts, row
  <2>3. pc' = [pc EXCEPT ![t] = "finishing"] \/ pc' = [pc EXCEPT ![t] = "applying"]
    BY <1>3 DEF StreamResult, Conclude, Goto
  <2> QED BY <2>1, <2>2, <2>3, NotingMoves DEF Noting, Pcs, Driven
<1>4. CASE StreamErrors(t)
  <2>1. status[t] = "running"
    BY <1>4 DEF StreamErrors, Noting, Past
  <2>2. verdict' \in [Turns -> Verdicts] /\ UNCHANGED <<status, produced, landed, call>>
    BY <1>4 DEF StreamErrors, Conclude, Noting, Verdicts, row
  <2> QED BY <1>4, <2>1, <2>2, NotingMoves DEF StreamErrors, Conclude, Goto, Noting, Pcs, Driven
<1>5. CASE ProposesSubtasks(t)
  BY <1>5, NotingLands DEF ProposesSubtasks, Noted, Tools, ItemTools
<1>6. CASE ProposesWork(t)
  BY <1>6, NotingLands DEF ProposesWork, Noted, Tools, ItemTools, ProjectTools
<1>7. CASE ProposesSchedule(t)
  BY <1>7, NotingLands DEF ProposesSchedule, Noted, Tools, ProjectTools
<1>8. CASE HandsOff(t)
  BY <1>8, NotingLands DEF HandsOff, Noted, Tools, ProjectTools
<1>9. CASE Fails(t)
  <2>1. status[t] = "running"
    BY <1>9 DEF Fails, Noting, Past
  <2>2. call' \in [Turns -> Tools \cup {NoTool}]
    BY <1>9 DEF Fails, Returns, Noting
  <2>3. UNCHANGED <<status, produced, landed, verdict>>
    BY <1>9 DEF Fails, row
  <2>4. pc' = [pc EXCEPT ![t] = "streaming"] \/ pc' = [pc EXCEPT ![t] = "applying"]
    BY <1>9 DEF Fails, Returns, Goto
  <2> QED BY <2>1, <2>2, <2>3, <2>4, NotingMoves DEF Noting, Pcs, Driven
<1>10. CASE Interrupt(t)
  <2>1. call' \in [Turns -> Tools \cup {NoTool}]
    BY <1>10 DEF Interrupt, Handler, Noting
  <2>2. UNCHANGED <<status, produced, landed, verdict>>
    BY <1>10 DEF Interrupt, Handler
  <2> QED BY <1>10, <2>1, <2>2, NotingMoves DEF Interrupt, Handler, Goto, Noting, Past, Pcs
<1>11. CASE Raises(t)
  BY <1>11, NotingMoves DEF Raises, Goto, Noting, Past, Pcs, row
<1> QED
  BY <1>1, <1>2, <1>3, <1>4, <1>5, <1>6, <1>7, <1>8, <1>9, <1>10, <1>11

LEMMA NotingRestart ==
  ASSUME Noting, Restart
  PROVE  Noting'
<1>1. /\ status' \in [Turns -> {"absent", "running"} \cup Settled]
      /\ pc' \in [Turns -> Pcs] /\ call' \in [Turns -> Tools \cup {NoTool}]
      /\ \A t \in Turns : pc'[t] \in Past /\ status'[t] \in {status[t], "failed"}
  BY DEF Restart, Noting, Settled, Past, Pcs
<1> QED BY <1>1 DEF Restart, Noting

\* Which steps there are.
LEMMA StepsAre ==
  ASSUME [Next]_vars
  PROVE  \/ \E t \in Turns : Goes(t)
         \/ \E t \in Turns :
              \/ Start(t) \/ Calls(t) \/ StreamResult(t) \/ StreamErrors(t)
              \/ ProposesSubtasks(t) \/ ProposesWork(t) \/ ProposesSchedule(t) \/ HandsOff(t)
              \/ Fails(t) \/ Interrupt(t) \/ Raises(t)
         \/ Elsewhere \/ Restart \/ UNCHANGED vars
  BY Zenon DEF Next, Elsewhere, Others

LEMMA NotingStep == Noting /\ [Next]_vars => Noting'
<1> SUFFICES ASSUME Noting, [Next]_vars PROVE Noting' OBVIOUS
<1>1. UNCHANGED vars => Noting'
  BY NotingKept DEF vars, row, coroutine
<1> QED
  BY <1>1, StepsAre, NotingGoes, NotingTurn, NotingRestart, ElsewhereTouchesNoTurn, NotingKept

\* A planning turn says it succeeded only if something of its own landed, and that
\* it has no proposals only if nothing did.
THEOREM ContractHolds == Spec => []ContractIsOwn
<1>1. Noting => ContractIsOwn
  <2> SUFFICES ASSUME Noting, NEW t \in Turns
               PROVE  /\ status[t] = "succeeded" => \E k \in Tools : landed[t][k] > 0
                      /\ status[t] = "no_proposals" => \A k \in Tools : landed[t][k] = 0
    BY DEF ContractIsOwn
  <2>1. \A k \in Tools : landed[t][k] \in Nat
    BY DEF Noting
  <2> QED BY <2>1 DEF Noting
<1> QED BY NotingInit, NotingStep, <1>1, PTL DEF Spec

\* Only a call in progress lands.
LEMMA LandsInACall ==
  ASSUME [Next]_vars, NEW t \in Turns, landed'[t] # landed[t], Noting
  PROVE  pc[t] = "calling"
<1>1. ~ \E u \in Turns : Goes(u)
  BY DEF Goes, ScheduleDrive, Drive, ApplyNext, Applied, Finish, Ends, Cleanup
<1>2. ~Elsewhere /\ ~Restart /\ ~UNCHANGED vars
  BY ElsewhereTouchesNoTurn DEF Restart, vars
<1>3. PICK u \in Turns :
        \/ Start(u) \/ Calls(u) \/ StreamResult(u) \/ StreamErrors(u)
        \/ ProposesSubtasks(u) \/ ProposesWork(u) \/ ProposesSchedule(u) \/ HandsOff(u)
        \/ Fails(u) \/ Interrupt(u) \/ Raises(u)
  BY <1>1, <1>2, StepsAre
<1>4. ProposesSubtasks(u) \/ ProposesWork(u) \/ ProposesSchedule(u) \/ HandsOff(u)
  BY <1>3 DEF Start, Calls, StreamResult, StreamErrors, Fails, Interrupt, Raises
<1>5. pc[u] = "calling" /\ landed' = [landed EXCEPT ![u][call[u]] = @ + 1]
  BY <1>4 DEF ProposesSubtasks, ProposesWork, ProposesSchedule, HandsOff, Noted
<1> QED BY <1>5 DEF Noting

\* Whoever ends a turn, a clock, a cancel or a restart, nothing of it lands later.
THEOREM NothingIsLate == Spec => NothingLandsLate
<1>1. Noting /\ [Next]_vars
        => [\A t \in Turns : landed'[t] # landed[t] => status[t] = "running"]_vars
  <2> SUFFICES ASSUME Noting, [Next]_vars, NEW t \in Turns, landed'[t] # landed[t]
               PROVE  status[t] = "running"
    OBVIOUS
  <2> QED BY LandsInACall DEF Noting, Past
<1> QED BY NotingInit, NotingStep, <1>1, PTL DEF Spec, NothingLandsLate

-----------------------------------------------------------------------------
(* The checklist and those who are about to assign it.                      *)

Target == Targets \cup {NoTarget}

IsList(list) == list \in [DOMAIN list -> Item]

\* Every item said to be verified was, with this artifact, by a turn or run.
Grounds(list, base) ==
  \A i \in DOMAIN list : list[i].verified => <<i, list[i].target>> \in base

Sound(list, base) == IsList(list) /\ Grounds(list, base)

Grounded ==
  /\ Sound(checklist, grounded) /\ IsList(view)
  /\ loaded = [w \in Writers |-> loaded[w]]
  /\ \A w \in Writers : Sound(loaded[w], grounded)

LEMMA MadeItem ==
  ASSUME NEW target \in Target, NEW state \in Statuses
  PROVE  MakeItem(target, state) \in Item /\ ~MakeItem(target, state).verified
  BY DEF MakeItem, Item, Target

LEMMA SoundEmpty == \A base : Sound(Empty, base)
  BY DEF Sound, IsList, Grounds, Empty

\* A proposal adds an item that is not verified, and keeps the others.
LEMMA SoundAppend ==
  ASSUME NEW list, NEW base, Sound(list, base), NEW i, NEW target \in Target
  PROVE  Sound(AppendProposed(list, i, target), base)
<1> DEFINE new == AppendProposed(list, i, target)
           made == MakeItem(target, "proposed")
<1>1. made \in Item /\ ~made.verified
  BY MadeItem DEF Statuses
<1> HIDE DEF made
<1>2. new = [j \in DOMAIN list \cup {i} |-> IF j = i THEN made ELSE list[j]]
  BY DEF AppendProposed, made
<1>3. \A j \in DOMAIN list : list[j] \in Item
  BY DEF Sound, IsList
<1> HIDE DEF new
<1>4. DOMAIN new = DOMAIN list \cup {i}
  BY <1>2
<1>5. \A j \in DOMAIN new : (j = i /\ new[j] = made) \/ (j \in DOMAIN list /\ new[j] = list[j])
  BY <1>2, <1>4
<1>6. IsList(new)
  BY <1>1, <1>2, <1>3, <1>4 DEF IsList
<1>7. Grounds(new, base)
  BY <1>1, <1>5 DEF Grounds, Sound
<1> QED BY <1>6, <1>7 DEF Sound, new

\* The operator's list carries an item over only if its target is unchanged.
LEMMA SoundSet ==
  ASSUME NEW list, NEW base, Sound(list, base), NEW wishes,
         \A i \in DOMAIN wishes :
           wishes[i] \in [target : Target, status : Statuses, done : BOOLEAN]
  PROVE  Sound(SetItems(list, wishes), base) /\ DOMAIN SetItems(list, wishes) = DOMAIN wishes
<1> DEFINE new == SetItems(list, wishes)
<1>1. DOMAIN new = DOMAIN wishes
  BY DEF SetItems
<1>2. ASSUME NEW i \in DOMAIN wishes
      PROVE  /\ new[i] \in Item
             /\ new[i].verified => <<i, new[i].target>> \in base
  <2> DEFINE wish == wishes[i]
             kept == Carried(list, i, wish)
  <2>1. wish.target \in Target /\ wish.status \in Statuses /\ wish.done \in BOOLEAN
    OBVIOUS
  <2>2. kept \in Item /\ (kept.verified => <<i, kept.target>> \in base)
    <3>1. CASE i \in DOMAIN list /\ list[i].target = wish.target
      BY <3>1 DEF Carried, Sound, IsList, Grounds
    <3>2. CASE ~(i \in DOMAIN list /\ list[i].target = wish.target)
      BY <3>2, <2>1, MadeItem DEF Carried
    <3> QED BY <3>1, <3>2
  <2>3. new[i] = [kept EXCEPT !.status = wish.status,
                             !.done = @ \/ (wish.target = NoTarget /\ wish.done)]
    BY DEF SetItems
  <2> HIDE DEF kept, wish, new
  <2>4. new[i] = [target |-> kept.target, status |-> wish.status,
                  done |-> kept.done \/ (wish.target = NoTarget /\ wish.done),
                  verified |-> kept.verified, marker |-> kept.marker]
    BY <2>2, <2>3 DEF Item
  <2>5. new[i] \in Item
    BY <2>1, <2>2, <2>4 DEF Item
  <2> QED BY <2>2, <2>4, <2>5
<1>3. new = [i \in DOMAIN wishes |-> new[i]]
  BY <1>1 DEF SetItems
<1> HIDE DEF new
<1>4. IsList(new)
  BY <1>1, <1>2, <1>3 DEF IsList
<1> QED BY <1>1, <1>2, <1>4 DEF Sound, Grounds, new

\* A disposition says what was done of an item, and nothing of its verification.
LEMMA SoundDispose ==
  ASSUME NEW list, NEW base, Sound(list, base),
         NEW i \in DOMAIN list, NEW disposition \in Dispositions
  PROVE  Sound(Dispose(list, i, disposition), base)
         /\ DOMAIN Dispose(list, i, disposition) = DOMAIN list
<1> DEFINE new == Dispose(list, i, disposition)
           marked == IF disposition = "discard" THEN "none" ELSE disposition
<1>1. list = [j \in DOMAIN list |-> list[j]] /\ \A j \in DOMAIN list : list[j] \in Item
  BY DEF Sound, IsList
<1>2. new = [j \in DOMAIN list |->
               IF j = i THEN [[list[i] EXCEPT !.done = (disposition = "accept")] EXCEPT !.marker = marked]
               ELSE list[j]]
  BY <1>1 DEF Dispose
<1>3. marked \in {"none", "accept", "reopen"} /\ (disposition = "accept") \in BOOLEAN
  BY DEF Dispositions
<1> HIDE DEF new, marked
<1>4. DOMAIN new = DOMAIN list
  BY <1>2
<1>5. new[i] = [target |-> list[i].target, status |-> list[i].status,
                done |-> disposition = "accept", verified |-> list[i].verified, marker |-> marked]
  BY <1>1, <1>2 DEF Item
<1>6. new[i] \in Item
  BY <1>1, <1>3, <1>5 DEF Item
<1>7. \A j \in DOMAIN list \ {i} : new[j] = list[j]
  BY <1>2
<1>8. IsList(new)
  BY <1>1, <1>2, <1>4, <1>6, <1>7 DEF IsList
<1>9. Grounds(new, base)
  BY <1>4, <1>5, <1>7 DEF Sound, Grounds
<1> QED BY <1>4, <1>8, <1>9 DEF Sound, new

\* What is marked as preserved is not verified.
LEMMA SoundPreserved ==
  ASSUME NEW list, NEW base, Sound(list, base), NEW tree
  PROVE  Sound(MarkPreserved(list, tree), base) /\ DOMAIN MarkPreserved(list, tree) = DOMAIN list
<1> DEFINE new == MarkPreserved(list, tree)
<1>1. new = [i \in DOMAIN list |-> PreserveItem(list[i], tree)]
  BY DEF MarkPreserved
<1>2. ASSUME NEW x \in Item
      PROVE  /\ PreserveItem(x, tree) \in Item
             /\ PreserveItem(x, tree).verified = x.verified
             /\ PreserveItem(x, tree).target = x.target
  BY DEF PreserveItem, Item
<1>3. \A i \in DOMAIN list : list[i] \in Item
  BY DEF Sound, IsList
<1> HIDE DEF new
<1>4. DOMAIN new = DOMAIN list /\ \A i \in DOMAIN list : new[i] = PreserveItem(list[i], tree)
  BY <1>1
<1>5. IsList(new)
  BY <1>1, <1>2, <1>3, <1>4 DEF IsList
<1>6. Grounds(new, base)
  BY <1>2, <1>3, <1>4 DEF Sound, Grounds
<1> QED BY <1>4, <1>5, <1>6 DEF Sound, new

\* A tree verifies what it has, and that is what grounds it.
LEMMA SoundVerified ==
  ASSUME NEW list, NEW base, Sound(list, base), NEW tree, NEW wider,
         wider = base \cup {<<i, list[i].target>> :
                             i \in {j \in DOMAIN list : list[j].target \in tree}}
  PROVE  Sound(Verify(list, tree), wider) /\ DOMAIN Verify(list, tree) = DOMAIN list
<1> DEFINE new == Verify(list, tree)
<1>1. new = [i \in DOMAIN list |-> VerifyItem(list[i], tree)]
  BY DEF Verify
<1>2. ASSUME NEW x \in Item
      PROVE  /\ VerifyItem(x, tree) \in Item
             /\ VerifyItem(x, tree).target = x.target
             /\ VerifyItem(x, tree).verified => x.verified \/ x.target \in tree
  <2>1. CASE Verifiable(x) /\ x.target \in tree /\ ~x.verified
    <3>1. VerifyItem(x, tree) = [x EXCEPT !.verified = TRUE, !.done = TRUE, !.marker = "none"]
      BY <2>1 DEF VerifyItem
    <3> QED BY <2>1, <3>1 DEF Item
  <2>2. CASE Verifiable(x) /\ x.target \notin tree /\ x.verified
    <3>1. VerifyItem(x, tree) = [x EXCEPT !.verified = FALSE, !.done = FALSE]
      BY <2>2 DEF VerifyItem
    <3> QED BY <3>1 DEF Item
  <2>3. CASE ~(Verifiable(x) /\ (x.target \in tree <=> ~x.verified))
    <3>1. x.verified \in BOOLEAN
      BY DEF Item
    <3>2. VerifyItem(x, tree) = x
      BY <2>3, <3>1 DEF VerifyItem
    <3> QED BY <3>2
  <2>4. x.verified \in BOOLEAN
    BY DEF Item
  <2> QED BY <2>1, <2>2, <2>3, <2>4
<1>3. \A i \in DOMAIN list : list[i] \in Item
  BY DEF Sound, IsList
<1> HIDE DEF new
<1>4. DOMAIN new = DOMAIN list /\ \A i \in DOMAIN list : new[i] = VerifyItem(list[i], tree)
  BY <1>1
<1>5. IsList(new)
  BY <1>1, <1>2, <1>3, <1>4 DEF IsList
<1>6. ASSUME NEW i \in DOMAIN list, new[i].verified
      PROVE  <<i, new[i].target>> \in wider
  <2>1. new[i].target = list[i].target /\ (list[i].verified \/ list[i].target \in tree)
    BY <1>2, <1>3, <1>4, <1>6
  <2> QED BY <2>1 DEF Sound, Grounds
<1> QED BY <1>4, <1>5, <1>6 DEF Sound, Grounds, new

LEMMA SoundWider ==
  ASSUME NEW list, NEW base, NEW wider, Sound(list, base), base \subseteq wider
  PROVE  Sound(list, wider)
  BY DEF Sound, Grounds

LEMMA GroundedInit == Init => Grounded
<1> SUFFICES ASSUME Init PROVE Grounded OBVIOUS
<1>1. Sound(checklist, grounded)
  <2>1. ASSUME NEW i, NEW target \in Targets
        PROVE  Sound(OneItem(i, target), grounded)
    <3> DEFINE made == MakeItem(target, "confirmed")
    <3>1. made \in Item /\ ~made.verified
      BY MadeItem DEF Statuses, Target
    <3>2. OneItem(i, target) = [j \in {i} |-> made]
      BY DEF OneItem
    <3> HIDE DEF made
    <3> QED BY <3>1, <3>2 DEF Sound, IsList, Grounds
  <2> QED BY <2>1, SoundEmpty DEF Init
<1>2. IsList(view) /\ \A w \in Writers : Sound(loaded[w], grounded)
  BY SoundEmpty DEF Init, Sound
<1>3. loaded = [w \in Writers |-> loaded[w]]
  BY DEF Init
<1> QED BY <1>1, <1>2, <1>3 DEF Grounded

Fetches(w) == Load(w) \/ Unload(w) \/ UNCHANGED loaded

\* One writer reads, forgets or does nothing; the checklist it leaves is sound.
LEMMA GroundedKept ==
  ASSUME Grounded, NEW w \in Writers, Fetches(w),
         grounded \subseteq grounded', Sound(checklist', grounded'), IsList(view')
  PROVE  Grounded'
<1>1. loaded' = [v \in Writers |-> loaded'[v]]
  BY DEF Grounded, Fetches, Load, Unload
<1>2. ASSUME NEW v \in Writers PROVE Sound(loaded'[v], grounded)
  <2>1. loaded'[v] \in {loaded[v], checklist, Empty}
    BY DEF Grounded, Fetches, Load, Unload
  <2> QED BY <2>1, SoundEmpty DEF Grounded
<1>3. \A v \in Writers : Sound(loaded'[v], grounded')
  BY <1>2, SoundWider
<1> QED BY <1>1, <1>3 DEF Grounded

lists == <<checklist, view, appended, omitted, overlapped, grounded>>

\* Most steps of a turn leave the lists alone.
LEMMA TurnIsQuiet ==
  ASSUME NEW t \in Turns,
         \/ Goes(t)
         \/ Start(t) \/ Calls(t) \/ StreamResult(t) \/ StreamErrors(t)
         \/ ProposesWork(t) \/ ProposesSchedule(t) \/ HandsOff(t)
         \/ Fails(t) \/ Interrupt(t) \/ Raises(t)
  PROVE  UNCHANGED lists /\ Fetches(t)
<1> USE DEF lists, Fetches, item, story
<1>1. CASE Goes(t)
  BY <1>1 DEF Goes, ScheduleDrive, Drive, ApplyNext, LoadFor, Applied, Finish, Ends, Cleanup
<1>2. CASE Start(t) \/ StreamResult(t) \/ StreamErrors(t) \/ Raises(t)
  BY <1>2 DEF Start, StreamResult, StreamErrors, Raises
<1>3. CASE Calls(t)
  BY <1>3 DEF Calls, LoadFor
<1>4. CASE ProposesWork(t) \/ ProposesSchedule(t) \/ HandsOff(t)
  BY <1>4 DEF ProposesWork, ProposesSchedule, HandsOff, Noted, Returns
<1>5. CASE Fails(t)
  BY <1>5 DEF Fails, Returns
<1>6. CASE Interrupt(t)
  BY <1>6 DEF Interrupt, Handler
<1> QED BY <1>1, <1>2, <1>3, <1>4, <1>5, <1>6

LEMMA WishesAreTyped ==
  ASSUME IsList(view), NEW wishes \in WishLists
  PROVE  \A i \in DOMAIN wishes :
           wishes[i] \in [target : Target, status : Statuses, done : BOOLEAN]
<1> DEFINE Typed == [target : Target, status : Statuses, done : BOOLEAN]
<1>1. Unedited \in [DOMAIN view -> Typed]
  BY DEF Unedited, IsList, Item, Target
<1>2. \A wish \in Wish : wish \in Typed
  BY DEF Wish, Target
<1> HIDE DEF Typed
<1>3. \/ wishes = Unedited
      \/ \E i \in DOMAIN view, wish \in Wish : wishes = [Unedited EXCEPT ![i] = wish]
      \/ \E i \in DOMAIN view : wishes = [j \in DOMAIN view \ {i} |-> Unedited[j]]
  <2> DEFINE edited(i, wish) == [Unedited EXCEPT ![i] = wish]
             pruned(i) == [j \in DOMAIN view \ {i} |-> Unedited[j]]
  <2>1. WishLists = {Unedited} \cup {edited(i, wish) : i \in DOMAIN view, wish \in Wish}
                               \cup {pruned(i) : i \in DOMAIN view}
    BY DEF WishLists
  <2> HIDE DEF edited, pruned
  <2>2. \/ wishes = Unedited
        \/ \E i \in DOMAIN view, wish \in Wish : wishes = edited(i, wish)
        \/ \E i \in DOMAIN view : wishes = pruned(i)
    BY <2>1
  <2> QED BY <2>2 DEF edited, pruned
<1>4. \A i \in DOMAIN wishes : wishes[i] \in Typed
  BY <1>1, <1>2, <1>3
<1> QED BY <1>4 DEF Typed

\* What the checklist's writers assign is sound, and loses what they were told to.
LEMMA GroundedProposes ==
  ASSUME Grounded, NEW t \in Turns, ProposesSubtasks(t)
  PROVE  Grounded'
<1>1. PICK target \in Target : Appends(t, target)
  BY DEF ProposesSubtasks, Target
<1>2. checklist' = AppendProposed(loaded[t], NewId, target) /\ t \in Writers
  BY <1>1 DEF Appends, Assign, Writers
<1>3. Sound(checklist', grounded)
  BY <1>2, SoundAppend DEF Grounded
<1>4. UNCHANGED <<view, grounded>> /\ Fetches(t)
  BY DEF ProposesSubtasks, Noted, Returns, Fetches
<1> QED BY <1>2, <1>3, <1>4, GroundedKept DEF Grounded

LEMMA GroundedElsewhere ==
  ASSUME Grounded, Elsewhere
  PROVE  Grounded'
<1> USE DEF Writers, Others
<1>0. \A w \in Others : Answers(w) => Fetches(w) /\ IsList(view')
  BY SoundEmpty DEF Answers, Fetches, Grounded, Sound
<1>1. CASE Look
  <2>1. UNCHANGED <<checklist, grounded, loaded>> /\ view' = checklist
    BY <1>1 DEF Look, story
  <2> QED BY <2>1, GroundedKept DEF Grounded, Sound, Fetches
<1>2. CASE AnswerPropose
  <2>1. grounded' = grounded /\ Answers(Operator)
    BY <1>2 DEF AnswerPropose
  <2>2. checklist' = checklist \/ \E target \in Target :
                                   checklist' = AppendProposed(loaded[Operator], NewId, target)
    BY <1>2 DEF AnswerPropose, Appends, Assign, Target
  <2>3. Sound(checklist', grounded)
    BY <2>2, SoundAppend DEF Grounded
  <2> QED BY <1>0, <2>1, <2>3, GroundedKept
<1>3. CASE AnswerSet
  <2>1. grounded' = grounded /\ Answers(Operator)
    BY <1>3 DEF AnswerSet
  <2>2. PICK wishes \in WishLists : checklist' = SetItems(loaded[Operator], wishes)
    BY <1>3 DEF AnswerSet, Assign
  <2>3. Sound(checklist', grounded)
    BY <2>2, SoundSet, WishesAreTyped DEF Grounded
  <2> QED BY <1>0, <2>1, <2>3, GroundedKept
<1>4. CASE AnswerDispose
  <2>1. grounded' = grounded /\ Answers(Operator)
    BY <1>4 DEF AnswerDispose
  <2>2. checklist' = checklist \/ \E i \in DOMAIN loaded[Operator], d \in Dispositions :
                                   checklist' = Dispose(loaded[Operator], i, d)
    BY <1>4 DEF AnswerDispose, Assign
  <2>3. Sound(checklist', grounded)
    <3>1. Sound(loaded[Operator], grounded)
      BY DEF Grounded
    <3> QED BY <2>2, <3>1, SoundDispose DEF Grounded
  <2> QED BY <1>0, <2>1, <2>3, GroundedKept
<1>5. CASE \E w \in Others, what \in {"propose", "set", "dispose", "verify", "preserve"} : Reads(w, what)
  <2>1. PICK w \in Others, what \in {"propose", "set", "dispose", "verify", "preserve"} : Reads(w, what)
    BY <1>5
  <2>2. UNCHANGED <<checklist, view, grounded>> /\ Fetches(w)
    BY <2>1 DEF Reads, story, Fetches
  <2> QED BY <2>2, GroundedKept DEF Grounded
<1>6. CASE WorkerVerifies
  <2>1. Answers(Worker)
    BY <1>6 DEF WorkerVerifies
  <2>2. PICK tree \in SUBSET Targets :
          /\ AssignIfChanged(Verify(loaded[Worker], tree))
          /\ grounded' = grounded \cup
               {<<i, loaded[Worker][i].target>> :
                  i \in {j \in DOMAIN loaded[Worker] : loaded[Worker][j].target \in tree}}
    BY <1>6 DEF WorkerVerifies
  <2>3. checklist' = checklist \/ checklist' = Verify(loaded[Worker], tree)
    BY <2>2 DEF AssignIfChanged, Assign
  <2>4. grounded \subseteq grounded'
    BY <2>2
  <2>5. Sound(Verify(loaded[Worker], tree), grounded')
    BY <2>2, SoundVerified DEF Grounded
  <2>6. Sound(checklist', grounded')
    BY <2>3, <2>4, <2>5, SoundWider DEF Grounded
  <2> QED BY <1>0, <2>1, <2>4, <2>6, GroundedKept
<1>7. CASE WorkerPreserves
  <2>1. grounded' = grounded /\ Answers(Worker)
    BY <1>7 DEF WorkerPreserves
  <2>2. checklist' = checklist \/ \E tree \in SUBSET Targets :
                                   checklist' = MarkPreserved(loaded[Worker], tree)
    BY <1>7 DEF WorkerPreserves, AssignIfChanged, Assign
  <2>3. Sound(checklist', grounded)
    BY <2>2, SoundPreserved DEF Grounded
  <2> QED BY <1>0, <2>1, <2>3, GroundedKept
<1> QED
  BY <1>1, <1>2, <1>3, <1>4, <1>5, <1>6, <1>7 DEF Elsewhere

LEMMA GroundedRestart ==
  ASSUME Grounded, Restart
  PROVE  Grounded'
<1>1. loaded' = [w \in Writers |-> Empty] /\ view' = Empty /\ UNCHANGED <<checklist, grounded>>
  BY DEF Restart, story
<1>2. IsList(view') /\ \A w \in Writers : Sound(loaded'[w], grounded')
  BY <1>1, SoundEmpty DEF Sound
<1> QED BY <1>1, <1>2 DEF Grounded

LEMMA GroundedStep == Grounded /\ [Next]_vars => Grounded'
<1> SUFFICES ASSUME Grounded, [Next]_vars PROVE Grounded' OBVIOUS
<1>1. ASSUME NEW t \in Turns, UNCHANGED lists, Fetches(t) PROVE Grounded'
  BY <1>1, GroundedKept DEF lists, Grounded, Writers
<1>2. UNCHANGED vars => Grounded'
  BY DEF vars, item, story, Grounded
<1> QED
  BY <1>1, <1>2, StepsAre, TurnIsQuiet, GroundedProposes, GroundedElsewhere, GroundedRestart

\* However the checklist's writers overlap, an item is said to be verified only if a
\* turn or run that succeeded had its artifact.
THEOREM VerifiedWasVerified == Spec => []VerifiedIsGrounded
<1>1. Grounded => VerifiedIsGrounded
  BY DEF Grounded, Sound, Grounds, VerifiedIsGrounded
<1> QED BY GroundedInit, GroundedStep, <1>1, PTL DEF Spec

-----------------------------------------------------------------------------
(* No proposal is lost without a cause.                                     *)

\* Whoever assigns a list that has all of those it had read, or says what it left
\* out, loses none.
LEMMA AccountedAssigned ==
  ASSUME ProposalsAreAccounted, NEW w, NEW list, Assign(w, list),
         omitted \subseteq omitted',
         \A i \in appended' : \/ i \in DOMAIN list \/ i \in omitted'
                              \/ i \in appended /\ i \notin DOMAIN loaded[w]
  PROVE  ProposalsAreAccounted'
<1>1. checklist' = list /\ (overlapped' <=> (overlapped \/ loaded[w] # checklist))
  BY DEF Assign
<1>2. CASE overlapped \/ loaded[w] # checklist
  BY <1>1, <1>2 DEF ProposalsAreAccounted
<1>3. CASE ~overlapped /\ loaded[w] = checklist
  BY <1>1, <1>3 DEF ProposalsAreAccounted
<1> QED BY <1>2, <1>3

LEMMA AccountedKept ==
  ASSUME ProposalsAreAccounted, UNCHANGED <<checklist, appended, omitted, overlapped>>
  PROVE  ProposalsAreAccounted'
  BY DEF ProposalsAreAccounted

LEMMA AccountedAppends ==
  ASSUME ProposalsAreAccounted, NEW w, NEW target, Appends(w, target), UNCHANGED omitted
  PROVE  ProposalsAreAccounted'
<1> DEFINE list == AppendProposed(loaded[w], NewId, target)
<1>1. DOMAIN list = DOMAIN loaded[w] \cup {NewId}
  BY DEF AppendProposed
<1>2. Assign(w, list) /\ appended' = appended \cup {NewId}
  BY DEF Appends
<1> HIDE DEF list
<1> QED BY <1>1, <1>2, AccountedAssigned

LEMMA AccountedElsewhere ==
  ASSUME Grounded, ProposalsAreAccounted, Elsewhere
  PROVE  ProposalsAreAccounted'
<1> USE DEF Writers, Others
<1>1. CASE Look
  BY <1>1, AccountedKept DEF Look, story
<1>2. CASE AnswerPropose
  BY <1>2, AccountedKept, AccountedAppends DEF AnswerPropose
<1>3. CASE AnswerSet
  <2>1. PICK wishes \in WishLists :
          /\ Assign(Operator, SetItems(loaded[Operator], wishes))
          /\ omitted' = omitted \cup (appended \ DOMAIN wishes)
    BY <1>3 DEF AnswerSet
  <2>2. DOMAIN SetItems(loaded[Operator], wishes) = DOMAIN wishes
    BY DEF SetItems
  <2>3. appended' = appended
    BY <1>3 DEF AnswerSet
  <2> QED BY <2>1, <2>2, <2>3, AccountedAssigned
<1>4. CASE AnswerDispose
  <2>1. UNCHANGED <<appended, omitted>>
    BY <1>4 DEF AnswerDispose
  <2>2. CASE \E i \in DOMAIN loaded[Operator], d \in Dispositions :
               Assign(Operator, Dispose(loaded[Operator], i, d))
    <3>1. PICK i \in DOMAIN loaded[Operator], d \in Dispositions :
                 Assign(Operator, Dispose(loaded[Operator], i, d))
      BY <2>2
    <3>2. DOMAIN Dispose(loaded[Operator], i, d) = DOMAIN loaded[Operator]
      BY SoundDispose DEF Grounded
    <3> QED BY <2>1, <3>1, <3>2, AccountedAssigned
  <2>3. CASE UNCHANGED <<checklist, overlapped>>
    BY <2>1, <2>3, AccountedKept
  <2> QED BY <1>4, <2>2, <2>3 DEF AnswerDispose
<1>5. CASE \E w \in Others, what \in {"propose", "set", "dispose", "verify", "preserve"} : Reads(w, what)
  BY <1>5, AccountedKept DEF Reads, story
<1>6. CASE WorkerVerifies
  <2>1. PICK tree \in SUBSET Targets : AssignIfChanged(Verify(loaded[Worker], tree))
    BY <1>6 DEF WorkerVerifies
  <2>2. DOMAIN Verify(loaded[Worker], tree) = DOMAIN loaded[Worker]
    BY DEF Verify
  <2>3. UNCHANGED <<appended, omitted>>
    BY <1>6 DEF WorkerVerifies
  <2> QED BY <2>1, <2>2, <2>3, AccountedAssigned, AccountedKept DEF AssignIfChanged
<1>7. CASE WorkerPreserves
  <2>1. PICK tree \in SUBSET Targets : AssignIfChanged(MarkPreserved(loaded[Worker], tree))
    BY <1>7 DEF WorkerPreserves
  <2>2. DOMAIN MarkPreserved(loaded[Worker], tree) = DOMAIN loaded[Worker]
    BY DEF MarkPreserved
  <2>3. UNCHANGED <<appended, omitted>>
    BY <1>7 DEF WorkerPreserves
  <2> QED BY <2>1, <2>2, <2>3, AccountedAssigned, AccountedKept DEF AssignIfChanged
<1> QED
  BY <1>1, <1>2, <1>3, <1>4, <1>5, <1>6, <1>7 DEF Elsewhere

LEMMA AccountedStep ==
  Grounded /\ ProposalsAreAccounted /\ [Next]_vars => ProposalsAreAccounted'
<1> SUFFICES ASSUME Grounded, ProposalsAreAccounted, [Next]_vars
             PROVE  ProposalsAreAccounted'
  OBVIOUS
<1>1. UNCHANGED lists => ProposalsAreAccounted'
  BY AccountedKept DEF lists
<1>2. \A t \in Turns : ProposesSubtasks(t) => ProposalsAreAccounted'
  BY AccountedAppends DEF ProposesSubtasks, Noted
<1>3. Restart \/ UNCHANGED vars => UNCHANGED <<checklist, appended, omitted, overlapped>>
  BY DEF Restart, vars, item, story
<1> QED
  BY <1>1, <1>2, <1>3, StepsAre, TurnIsQuiet, AccountedElsewhere, AccountedKept

\* A proposed sub-task is on the checklist, unless the operator's list left it out or
\* two writers of the checklist overlapped.
THEOREM ProposalsStay == Spec => []ProposalsAreAccounted
<1>1. Init => ProposalsAreAccounted
  BY DEF Init, ProposalsAreAccounted
<1> QED BY <1>1, GroundedInit, GroundedStep, AccountedStep, PTL DEF Spec
=============================================================================
