---------------------------- MODULE PlannerTurns ----------------------------
(***************************************************************************)
(* Planning turns (app/planner.py, app/providers/tools/planner_tools.py)   *)
(* and the checklist of the work item they plan (module Checklist).        *)
(*                                                                         *)
(* A turn is a row and a coroutine under a wall clock.  Its tools land     *)
(* while the executor streams (lane "api") or, read from a block in the    *)
(* reply, after it (lane "protocol"); each lands in a transaction of its   *)
(* own together with a note on the turn's row, and the turn's last status  *)
(* is read off those notes.  Everybody who writes the checklist (a         *)
(* planner's tool, an operator's request, a turn or run that ends) reads   *)
(* it, and assigns the whole of it later.                                  *)
(***************************************************************************)
EXTENDS Checklist, Sequences, SequencesExt, FiniteSetsExt

CONSTANTS
  MaxTurns,     \* bound: planning turns
  MaxHandoffs,  \* _MAX_HANDOFFS_PER_TURN
  MaxCalls,     \* bound: calls that land in a turn, and calls in a reply
  MaxWrites,    \* bound: writes of operators and of turns that end
  MaxFaults     \* bound: restarts, and database calls that raise

ASSUME PlannerAssumption ==
  /\ MaxTurns \in Nat /\ MaxHandoffs \in Nat /\ MaxCalls \in Nat
  /\ MaxWrites \in Nat /\ MaxFaults \in Nat
  /\ Ids \subseteq Nat

Turns == 1..MaxTurns

\* set_next_action lands as decompose does, summarize_project as triage_signal does,
\* and list_projects lands nothing.
ItemTools    == {"propose_subtasks", "decompose"}
ProjectTools == {"triage_signal", "propose_schedule", "handoff"}
Tools        == ItemTools \cup ProjectTools
NoTool       == "none"
Empty        == [i \in {} |-> MakeItem(NoTarget, "proposed")]
OneItem(i, target) == [j \in {i} |-> MakeItem(target, "confirmed")]

VARIABLES
  \* --- rows of planner_runs ---
  status, produced, sent,
  \* --- coroutines ---
  pc, scope, lane, reply, seen, call, verdict,
  \* --- work_items.subtasks, and those who are about to assign it ---
  checklist, loaded, view, task,
  \* --- history, read by properties only ---
  landed, raised, appended, omitted, overlapped, grounded, writes, faults

row       == <<status, produced, sent>>
coroutine == <<pc, scope, lane, reply, seen, call, verdict>>
item      == <<checklist, loaded, view, task>>
story     == <<appended, omitted, overlapped, grounded>>
bounds    == <<writes, faults>>
vars      == <<row, coroutine, item, landed, raised, story, bounds>>

\* Who may be about to assign the checklist: the turns, a request of the operator, a
\* session turn or run that ends.
Operator == 0
Worker   == -1
Others   == {Operator, Worker}
Writers  == Turns \cup Others
Settled == {"succeeded", "no_proposals", "failed"}
Driven  == {"driving", "streaming", "calling", "applying", "finishing", "tail"}
Pcs     == {"none", "created", "cleanup", "over"} \cup Driven

TypeOK ==
  /\ status \in [Turns -> {"absent", "running"} \cup Settled]
  /\ produced \in [Turns -> SUBSET Tools]
  /\ sent \in [Turns -> 0..MaxHandoffs]
  /\ pc \in [Turns -> Pcs]
  /\ scope \in [Turns -> {"item", "project"}]
  /\ lane \in [Turns -> {"api", "protocol"}]
  /\ reply \in [Turns -> Seq(Tools)] /\ seen \in [Turns -> SUBSET Tools]
  /\ call \in [Turns -> Tools \cup {NoTool}]
  /\ verdict \in [Turns -> {"succeeded", "failed"}]
  /\ checklist \in Checklists /\ view \in Checklists
  /\ loaded \in [Writers -> Checklists]
  /\ task \in [Others -> {"none", "edit", "propose", "set", "dispose", "verify", "preserve"}]
  /\ landed \in [Turns -> [Tools -> 0..MaxCalls]]
  /\ raised \in [Turns -> BOOLEAN]
  /\ appended \subseteq Ids /\ omitted \subseteq Ids /\ overlapped \in BOOLEAN
  /\ grounded \subseteq Ids \X Targets
  /\ writes \in 0..MaxWrites /\ faults \in 0..MaxFaults
  /\ \A t \in Turns : /\ status[t] = "absent" <=> pc[t] = "none"
                      /\ pc[t] = "calling" => call[t] # NoTool
  /\ DOMAIN checklist \subseteq appended

Init ==
  /\ status = [t \in Turns |-> "absent"] /\ produced = [t \in Turns |-> {}]
  /\ sent = [t \in Turns |-> 0]
  /\ pc = [t \in Turns |-> "none"]
  /\ scope = [t \in Turns |-> "item"] /\ lane = [t \in Turns |-> "api"]
  /\ reply = [t \in Turns |-> <<>>] /\ seen = [t \in Turns |-> {}]
  /\ call = [t \in Turns |-> NoTool] /\ verdict = [t \in Turns |-> "failed"]
  /\ checklist \in {Empty} \cup {OneItem(i, target) : i \in {1} \cap Ids, target \in Targets}
  /\ view = Empty /\ loaded = [w \in Writers |-> Empty]
  /\ task = [w \in Others |-> "none"]
  /\ landed = [t \in Turns |-> [k \in Tools |-> 0]] /\ raised = [t \in Turns |-> FALSE]
  /\ appended = DOMAIN checklist /\ omitted = {} /\ overlapped = FALSE /\ grounded = {}
  /\ writes = 0 /\ faults = 0

-----------------------------------------------------------------------------
(* Reading and assigning the checklist.                                     *)

Goto(t, next) == pc' = [pc EXCEPT ![t] = next]

Load(w)   == loaded' = [loaded EXCEPT ![w] = checklist]
\* Only one tool reads the checklist.
LoadFor(t, k) == IF k = "propose_subtasks" THEN Load(t) ELSE UNCHANGED loaded
Unload(w) == loaded' = [loaded EXCEPT ![w] = Empty]

\* w assigns what it made of the list it had loaded; somebody else may have written
\* in between.
Assign(w, list) ==
  /\ checklist' = list
  /\ overlapped' = (overlapped \/ loaded[w] # checklist)

Fresh == Ids \ appended
NewId == CHOOSE i \in Fresh : \A j \in Fresh : i <= j

Appends(w, target) ==
  /\ Fresh # {} /\ ~Overflows(loaded[w])
  /\ Assign(w, AppendProposed(loaded[w], NewId, target))
  /\ appended' = appended \cup {NewId}

-----------------------------------------------------------------------------
(* A turn: the row is committed, then the coroutine is spawned.             *)

Start(t) ==
  /\ pc[t] = "none"
  /\ scope' \in {[scope EXCEPT ![t] = s] : s \in {"item", "project"}}
  /\ lane' \in {[lane EXCEPT ![t] = l] : l \in {"api", "protocol"}}
  /\ status' = [status EXCEPT ![t] = "running"]
  /\ Goto(t, "created")
  /\ UNCHANGED <<produced, sent, reply, seen, call, verdict, item, landed, raised, story, bounds>>

ScheduleDrive(t) ==
  /\ pc[t] = "created"
  /\ Goto(t, "driving")
  /\ UNCHANGED <<row, scope, lane, reply, seen, call, verdict, item, landed, raised, story, bounds>>

\* The turn goes on to its last write, with this verdict.
Conclude(t, how) ==
  /\ Goto(t, "finishing")
  /\ verdict' = [verdict EXCEPT ![t] = how]

\* _drive finds an executor, or none.
Drive(t) ==
  /\ pc[t] = "driving"
  /\ \/ Goto(t, "streaming") /\ UNCHANGED verdict
     \/ Conclude(t, "failed")
  /\ UNCHANGED <<row, scope, lane, reply, seen, call, item, landed, raised, story, bounds>>

\* The tools that a scope may use.
Allowed(t) == IF scope[t] = "item" THEN ItemTools ELSE ProjectTools

CallsOf(t) == MapThenSumSet(LAMBDA k : landed[t][k], Tools)

\* A call of the stream; the dispatcher takes any name the model comes up with.
Calls(t) ==
  /\ pc[t] = "streaming" /\ lane[t] = "api"
  /\ CallsOf(t) < MaxCalls
  /\ \E k \in Tools : call' = [call EXCEPT ![t] = k] /\ LoadFor(t, k)
  /\ Goto(t, "calling")
  /\ UNCHANGED <<row, scope, lane, reply, seen, verdict, checklist, view, task, landed, raised,
                 story, bounds>>

StreamResult(t) ==
  /\ pc[t] = "streaming"
  /\ IF lane[t] = "api"
     THEN Conclude(t, "succeeded") /\ UNCHANGED reply
     ELSE /\ Goto(t, "applying")
          /\ \E calls \in BoundedSeq(Tools, MaxCalls) : reply' = [reply EXCEPT ![t] = calls]
          /\ UNCHANGED verdict
  /\ UNCHANGED <<row, scope, lane, seen, call, item, landed, raised, story, bounds>>

StreamErrors(t) ==
  /\ pc[t] = "streaming"
  /\ Conclude(t, "failed")
  /\ UNCHANGED <<row, scope, lane, reply, seen, call, item, landed, raised, story, bounds>>

\* _apply_protocol_calls: a call outside the scope is refused and a repeated one
\* passed over.
Applies(t, k) == k \in Allowed(t) /\ k \notin seen[t]

ApplyNext(t) ==
  /\ pc[t] = "applying" /\ reply[t] # <<>>
  /\ reply' = [reply EXCEPT ![t] = Tail(@)]
  /\ LET k == Head(reply[t])
     IN  IF Applies(t, k)
         THEN /\ seen' = [seen EXCEPT ![t] = @ \cup {k}]
              /\ call' = [call EXCEPT ![t] = k]
              /\ LoadFor(t, k)
              /\ Goto(t, "calling")
         ELSE UNCHANGED <<seen, call, loaded, pc>>
  /\ UNCHANGED <<row, scope, lane, verdict, checklist, view, task, landed, raised, story, bounds>>

Applied(t) ==
  /\ pc[t] = "applying" /\ reply[t] = <<>>
  /\ Conclude(t, "succeeded")
  /\ seen' = [seen EXCEPT ![t] = {}]
  /\ UNCHANGED <<row, scope, lane, reply, call, item, landed, raised, story, bounds>>

\* Where the coroutine goes when a call returns.
Returns(t) ==
  /\ Goto(t, IF lane[t] = "api" THEN "streaming" ELSE "applying")
  /\ call' = [call EXCEPT ![t] = NoTool]
  /\ Unload(t)

\* What a tool notes on the turn's row, in the transaction of its effect.
RecordProduced(t) == produced' = [produced EXCEPT ![t] = @ \cup {call[t]}]

Noted(t) ==
  /\ RecordProduced(t)
  /\ landed' = [landed EXCEPT ![t][call[t]] = @ + 1]
  /\ Returns(t)
  /\ UNCHANGED <<status, scope, lane, reply, seen, verdict, view, task, raised, omitted, grounded,
                 bounds>>

\* propose_subtasks; the tools of an item need one.
ProposesSubtasks(t) ==
  /\ pc[t] = "calling" /\ call[t] = "propose_subtasks" /\ scope[t] = "item"
  /\ \E target \in Targets \cup {NoTarget} : Appends(t, target)
  /\ Noted(t) /\ UNCHANGED sent

\* decompose and triage_signal: work items in the state "proposed".
ProposesWork(t) ==
  /\ pc[t] = "calling"
  /\ call[t] = "triage_signal" \/ (call[t] = "decompose" /\ scope[t] = "item")
  /\ Noted(t) /\ UNCHANGED <<sent, checklist, appended, overlapped>>

\* propose_schedule: a pending approval, and no schedule.
ProposesSchedule(t) ==
  /\ pc[t] = "calling" /\ call[t] = "propose_schedule"
  /\ Noted(t) /\ UNCHANGED <<sent, checklist, appended, overlapped>>

\* A turn hands off so many times.
MayHandOff(t) == sent[t] < MaxHandoffs

HandsOff(t) ==
  /\ pc[t] = "calling" /\ call[t] = "handoff" /\ MayHandOff(t)
  /\ sent' = [sent EXCEPT ![t] = @ + 1]
  /\ Noted(t) /\ UNCHANGED <<checklist, appended, overlapped>>

\* Bad arguments, a full checklist, no item bound, or a database call that raises:
\* the dispatcher answers with a text.
Fails(t) ==
  /\ pc[t] = "calling"
  /\ Returns(t)
  /\ UNCHANGED <<row, scope, lane, reply, seen, verdict, checklist, view, task, landed, raised,
                 story, bounds>>

-----------------------------------------------------------------------------
(* The last write.                                                          *)

\* The contract: success is having produced something in this turn.  Mutant: a
\* roll-up of the item's checklist will do.
ContractByRollUp(t) ==
  IF verdict[t] = "succeeded" /\ produced[t] = {} /\ checklist = Empty
  THEN "no_proposals" ELSE verdict[t]
Contract(t) ==
  IF verdict[t] = "succeeded" /\ produced[t] = {} THEN "no_proposals" ELSE verdict[t]

\* _finish looks at no status; the clock may still expire after its commit.
Finish(t) ==
  /\ pc[t] = "finishing"
  /\ status' = [status EXCEPT ![t] = Contract(t)]
  /\ Goto(t, "tail")
  /\ UNCHANGED <<produced, sent, scope, lane, reply, seen, call, verdict, item, landed, raised,
                 story, bounds>>

Ends(t) ==
  /\ pc[t] = "tail"
  /\ Goto(t, "over")
  /\ UNCHANGED <<row, scope, lane, reply, seen, call, verdict, item, landed, raised, story, bounds>>

\* The stretch of code the clock and a cancel interrupt.  Mutant: not a call of a tool.
InterruptedUnlessCalling(t) == pc[t] \in Driven \ {"calling"}
Interruptible(t) == pc[t] \in Driven

\* The wall clock, or a shutdown that cancels the task, or an exception: what is in
\* flight is over before the handler writes.  Mutant: the handler writes first.
HandlerFirst(t) ==
  /\ status' = [status EXCEPT ![t] = "failed"]
  /\ UNCHANGED <<pc, reply, seen, call, loaded>>
Handler(t) ==
  /\ Goto(t, "cleanup")
  /\ reply' = [reply EXCEPT ![t] = <<>>] /\ seen' = [seen EXCEPT ![t] = {}]
  /\ call' = [call EXCEPT ![t] = NoTool]
  /\ Unload(t)
  /\ UNCHANGED status

Interrupt(t) ==
  /\ Interruptible(t)
  /\ Handler(t)
  /\ UNCHANGED <<produced, sent, scope, lane, verdict, checklist, view, task, landed,
                 raised, story, bounds>>

Cleanup(t) ==
  /\ pc[t] = "cleanup"
  /\ status' = [status EXCEPT ![t] = "failed"]
  /\ Goto(t, "over")
  /\ UNCHANGED <<produced, sent, scope, lane, reply, seen, call, verdict, item, landed, raised,
                 story, bounds>>

\* The request dies before it has spawned the coroutine, or the handler's own write
\* raises.
Raises(t) ==
  /\ faults < MaxFaults
  /\ pc[t] \in {"created", "cleanup"}
  /\ Goto(t, "over")
  /\ raised' = [raised EXCEPT ![t] = TRUE]
  /\ faults' = faults + 1
  /\ UNCHANGED <<row, scope, lane, reply, seen, call, verdict, item, landed, story, writes>>

\* reap_orphaned_planner_runs.
Restart ==
  /\ faults < MaxFaults
  /\ faults' = faults + 1
  /\ status' = [t \in Turns |-> IF status[t] = "running" THEN "failed" ELSE status[t]]
  /\ pc' = [t \in Turns |-> IF pc[t] = "none" THEN "none" ELSE "over"]
  /\ reply' = [t \in Turns |-> <<>>] /\ seen' = [t \in Turns |-> {}]
  /\ call' = [t \in Turns |-> NoTool]
  /\ loaded' = [w \in Writers |-> Empty]
  /\ task' = [w \in Others |-> "none"] /\ view' = Empty
  /\ UNCHANGED <<produced, sent, scope, lane, verdict, checklist, landed, raised, story, writes>>

-----------------------------------------------------------------------------
(* The operator, who looks at the checklist and later sends requests.       *)

Look ==
  /\ task[Operator] = "none" /\ writes < MaxWrites
  /\ task' = [task EXCEPT ![Operator] = "edit"]
  /\ view' = checklist
  /\ UNCHANGED <<row, coroutine, checklist, loaded, landed, raised, story, bounds>>

\* A request, or a turn or run that ends, reads the item.
Reads(w, what) ==
  /\ task[w] = IF what = "set" THEN "edit" ELSE "none"
  /\ writes < MaxWrites
  /\ task' = [task EXCEPT ![w] = what]
  /\ Load(w)
  /\ writes' = writes + 1
  /\ UNCHANGED <<row, coroutine, checklist, view, landed, raised, story, faults>>

\* It has answered, whether or not it wrote.
Answers(w) ==
  /\ task' = [task EXCEPT ![w] = "none"]
  /\ Unload(w)
  /\ view' = IF w = Operator THEN Empty ELSE view
  /\ UNCHANGED <<row, coroutine, landed, raised, bounds>>

AnswerPropose ==
  /\ task[Operator] = "propose"
  /\ \/ \E target \in Targets \cup {NoTarget} : Appends(Operator, target)
     \/ Overflows(loaded[Operator]) /\ UNCHANGED <<checklist, appended, overlapped>>
  /\ Answers(Operator)
  /\ UNCHANGED <<omitted, grounded>>

\* The operator's list: what she sees, with one item edited or left out.
Unedited == [i \in DOMAIN view |->
               [target |-> view[i].target, status |-> view[i].status, done |-> view[i].done]]
WishLists ==
  {Unedited} \cup
  {[Unedited EXCEPT ![i] = wish] : i \in DOMAIN view, wish \in Wish} \cup
  {[j \in DOMAIN view \ {i} |-> Unedited[j]] : i \in DOMAIN view}

AnswerSet ==
  /\ task[Operator] = "set"
  /\ \E wishes \in WishLists :
       /\ Assign(Operator, SetItems(loaded[Operator], wishes))
       /\ omitted' = omitted \cup (appended \ DOMAIN wishes)
  /\ Answers(Operator)
  /\ UNCHANGED <<appended, grounded>>

AnswerDispose ==
  /\ task[Operator] = "dispose"
  /\ \/ \E i \in DOMAIN loaded[Operator], d \in Dispositions :
          /\ loaded[Operator][i].marker = "pending"
          /\ Assign(Operator, Dispose(loaded[Operator], i, d))
     \/ /\ \A i \in DOMAIN loaded[Operator] : loaded[Operator][i].marker # "pending"
        /\ UNCHANGED <<checklist, overlapped>>
  /\ Answers(Operator)
  /\ UNCHANGED <<appended, omitted, grounded>>

-----------------------------------------------------------------------------
(* A session turn or a run ends, with a tree of its own; nothing is         *)
(* assigned if nothing changes.                                             *)

AssignIfChanged(list) ==
  IF list = loaded[Worker] THEN UNCHANGED <<checklist, overlapped>> ELSE Assign(Worker, list)

WorkerVerifies ==
  /\ task[Worker] = "verify"
  /\ \E tree \in SUBSET Targets :
       /\ AssignIfChanged(Verify(loaded[Worker], tree))
       /\ grounded' = grounded \cup
            {<<i, loaded[Worker][i].target>> :
               i \in {j \in DOMAIN loaded[Worker] : loaded[Worker][j].target \in tree}}
  /\ Answers(Worker)
  /\ UNCHANGED <<appended, omitted>>

WorkerPreserves ==
  /\ task[Worker] = "preserve"
  /\ \E tree \in SUBSET Targets : AssignIfChanged(MarkPreserved(loaded[Worker], tree))
  /\ Answers(Worker)
  /\ UNCHANGED <<appended, omitted, grounded>>

-----------------------------------------------------------------------------

\* What the turn does by itself, whatever the provider does.
Goes(t) ==
  \/ ScheduleDrive(t) \/ Drive(t) \/ ApplyNext(t) \/ Applied(t)
  \/ Finish(t) \/ Ends(t) \/ Cleanup(t)

Next ==
  \/ \E t \in Turns :
       \/ Start(t) \/ Goes(t)
       \/ Calls(t) \/ StreamResult(t) \/ StreamErrors(t)
       \/ ProposesSubtasks(t) \/ ProposesWork(t) \/ ProposesSchedule(t) \/ HandsOff(t)
       \/ Fails(t)
       \/ Interrupt(t) \/ Raises(t)
  \/ Look
  \/ \E what \in {"propose", "set", "dispose"} : Reads(Operator, what)
  \/ AnswerPropose \/ AnswerSet \/ AnswerDispose
  \/ \E what \in {"verify", "preserve"} : Reads(Worker, what)
  \/ WorkerVerifies \/ WorkerPreserves
  \/ Restart

Spec == Init /\ [][Next]_vars

\* The event loop runs a coroutine that can go on, and asyncio.timeout expires.
FairSpec == Spec /\ \A t \in Turns : WF_vars(Goes(t)) /\ WF_vars(Interrupt(t))

-----------------------------------------------------------------------------
(* Properties.                                                              *)

\* P-0080: a turn is "succeeded" if and only if something of its own landed; the
\* work of an earlier turn or of the operator does not count, and none of its own is
\* forgotten.
ContractIsOwn ==
  \A t \in Turns :
    /\ status[t] = "succeeded" => \E k \in Tools : landed[t][k] > 0
    /\ status[t] = "no_proposals" => \A k \in Tools : landed[t][k] = 0

\* Nothing of a turn lands after its row has a last status, however it came by it:
\* clock, cancel, restart.
NothingLandsLate == [][\A t \in Turns : landed'[t] # landed[t] => status[t] = "running"]_vars

\* A sub-task that was appended is on the checklist unless an operator's list left
\* it out, or two writers of the checklist overlapped.
ProposalsAreAccounted ==
  \A i \in appended : i \in DOMAIN checklist \/ i \in omitted \/ overlapped

\* "Verified" always goes back to a turn or run that succeeded and had this artifact:
\* no edit, disposition, cancelled turn or stale write makes an item verified.
VerifiedIsGrounded ==
  \A i \in DOMAIN checklist :
    checklist[i].verified => <<i, checklist[i].target>> \in grounded

\* Every turn reaches a last status, whatever its provider does, unless the request
\* dies before the coroutine exists or the handler's own write raises.
PlanningEnds ==
  \A t \in Turns : status[t] = "running" ~> status[t] \in Settled \/ raised[t]
=============================================================================
