----------------------------- MODULE SessionTurns -----------------------------
(***************************************************************************)
(* The turns of one build session (app/sessions/orchestrator.py) and the   *)
(* git workspace they share (app/sessions/workspace.py): a request creates *)
(* the row and dispatches a coroutine, which drives the executor under a   *)
(* wall clock and a budget, commits the workspace as a version and writes  *)
(* the row's last status.  A turn can be cancelled at any await, the web   *)
(* terminal captures versions of its own, and nothing keeps two turns of   *)
(* a session apart.                                                        *)
(*                                                                         *)
(* A version is the set of turns whose edits it introduced.  Money is      *)
(* counted in rounds of the executor.                                      *)
(***************************************************************************)
EXTENDS Integers, FiniteSets, FiniteSetsExt

CONSTANTS
  MaxTurns,   \* bound: turns of the session
  Cap,        \* the session's budget, in rounds
  MaxFaults   \* bound: restarts, and database calls that raise

ASSUME ConstantsAssumption ==
  /\ MaxTurns \in Nat /\ Cap \in Nat /\ MaxFaults \in Nat

Turns == 1..MaxTurns
Versions == 1..MaxTurns + 1   \* the first is the one the session starts with
Overshoot == 2                \* a round over the budget, and the synthesis

VARIABLES
  \* --- rows of session_turns ---
  status, lane, seq, cost, version,
  \* --- coroutines: _turn_cancel_handles and their locals ---
  pc, why, budget, spent, sha,
  \* --- the workspace ---
  tree, index, head, content,
  \* --- history, read by properties only ---
  cancelled, raised, alone, maker, faults

row       == <<status, lane, seq, cost, version>>
coroutine == <<pc, why, budget, spent, sha>>
workspace == <<tree, index, head, content, maker>>
history   == <<cancelled, raised, alone, faults>>
vars == <<row, coroutine, workspace, history>>

GitPcs  == {"stage", "diff", "commit", "head"}
LivePcs == {"prelude", "streaming", "preserve", "write"} \cup GitPcs
TurnPcs == {"none", "number", "insert", "created", "over"} \cup LivePcs
Reasons == {"none", "result", "error", "cancelled", "timeout", "capture"}
Settled == {"succeeded", "failed", "cancelled"}

TypeOK ==
  /\ status \in [Turns -> {"absent", "running"} \cup Settled]
  /\ lane \in [Turns -> {"none", "agent", "terminal"}]
  /\ seq \in [Turns -> 0..MaxTurns]
  /\ cost \in [Turns -> Nat]
  /\ version \in [Turns -> Versions \cup {0}]
  /\ pc \in [Turns -> TurnPcs] /\ why \in [Turns -> Reasons]
  /\ budget \in [Turns -> 0..Cap]
  /\ spent \in [Turns -> Nat]
  /\ sha \in [Turns -> Versions \cup {0}]
  /\ tree \subseteq Turns /\ index \subseteq Turns
  /\ head \in Versions
  /\ content \in [Versions -> SUBSET Turns] /\ maker \in [Versions -> Turns \cup {0}]
  /\ cancelled \in [Turns -> BOOLEAN] /\ raised \in [Turns -> BOOLEAN]
  /\ alone \in [Turns -> BOOLEAN]
  /\ faults \in 0..MaxFaults
  /\ \A t \in Turns : status[t] = "running" => pc[t] \in LivePcs \cup {"created", "over"}

Init ==
  /\ status = [t \in Turns |-> "absent"] /\ lane = [t \in Turns |-> "none"]
  /\ seq = [t \in Turns |-> 0] /\ cost = [t \in Turns |-> 0]
  /\ version = [t \in Turns |-> 0]
  /\ pc = [t \in Turns |-> "none"] /\ why = [t \in Turns |-> "none"]
  /\ budget = [t \in Turns |-> 0] /\ spent = [t \in Turns |-> 0]
  /\ sha = [t \in Turns |-> 0]
  /\ tree = {} /\ index = {} /\ head = 1
  /\ content = [v \in Versions |-> {}] /\ maker = [v \in Versions |-> 0]
  /\ cancelled = [t \in Turns |-> FALSE] /\ raised = [t \in Turns |-> FALSE]
  /\ alone = [t \in Turns |-> TRUE]
  /\ faults = 0

-----------------------------------------------------------------------------
(* Pieces.                                                                  *)

Goto(t, next) == pc' = [pc EXCEPT ![t] = next]

\* The coroutine is gone, and its locals with it.
End(t) ==
  /\ Goto(t, "over")
  /\ why' = [why EXCEPT ![t] = "none"]
  /\ budget' = [budget EXCEPT ![t] = 0]
  /\ sha' = [sha EXCEPT ![t] = 0]

\* The coroutine goes on to the workspace, for this reason.
Commit(t, reason) ==
  /\ Goto(t, "stage")
  /\ why' = [why EXCEPT ![t] = reason]

\* _next_turn_seq.
NextSeq ==
  LET rows == {t \in Turns : status[t] # "absent"}
  IN  IF rows = {} THEN 0 ELSE Max({seq[t] : t \in rows}) + 1

\* Which requests and coroutines t overlaps with, from here on.
Joins(t) ==
  LET others == {u \in Turns \ {t} : pc[u] \notin {"none", "over"}}
  IN  alone' = [u \in Turns |->
                  IF others # {} /\ u \in others \cup {t} THEN FALSE ELSE alone[u]]

Unused(t) == pc[t] = "none" /\ \A u \in Turns : u < t => pc[u] # "none"

-----------------------------------------------------------------------------
(* POST /turns: create_turn_record, then dispatch_turn.                     *)

Create(t) ==
  /\ Unused(t)
  /\ lane' = [lane EXCEPT ![t] = "agent"]
  /\ seq' = [seq EXCEPT ![t] = NextSeq]
  /\ Goto(t, "insert")
  /\ Joins(t)
  /\ UNCHANGED <<status, cost, version, why, budget, spent, sha, workspace, cancelled, raised, faults>>

Insert(t) ==
  /\ pc[t] = "insert" /\ lane[t] # "terminal"
  /\ status' = [status EXCEPT ![t] = "running"]
  /\ Goto(t, "created")
  /\ UNCHANGED <<lane, seq, cost, version, why, budget, spent, sha, workspace, history>>

\* From here on there is a handle to cancel.
Dispatch(t) ==
  /\ pc[t] = "created"
  /\ Goto(t, "prelude")
  /\ UNCHANGED <<row, why, budget, spent, sha, workspace, history>>

-----------------------------------------------------------------------------
(* run_turn_background up to the executor.                                  *)

\* The session's budget less what earlier turns that succeeded were billed.
Billed(t) ==
  MapThenSumSet(LAMBDA u : cost[u],
                {u \in Turns : status[u] = "succeeded" /\ seq[u] < seq[t]})
\* Mutant: every turn gets the whole budget.
WholeCap(t) == IF Billed(t) >= 0 THEN Cap ELSE 0
Remaining(t) == IF Billed(t) >= Cap THEN 0 ELSE Cap - Billed(t)

Prelude(t) ==
  /\ pc[t] = "prelude"
  /\ budget' = [budget EXCEPT ![t] = Remaining(t)]
  /\ Goto(t, "streaming")
  /\ UNCHANGED <<row, why, spent, sha, workspace, history>>

ProviderGone(t) ==
  /\ pc[t] = "prelude"
  /\ status' = [status EXCEPT ![t] = "failed"]
  /\ End(t)
  /\ UNCHANGED <<lane, seq, cost, version, spent, workspace, history>>

-----------------------------------------------------------------------------
(* The executor.                                                            *)

\* The loop of an API provider asks once more after it went over the budget, for
\* a synthesis.
MayGoOn(t) == spent[t] <= budget[t] + 1

\* A round, which may edit the workspace.
Round(t) ==
  /\ pc[t] = "streaming" /\ MayGoOn(t)
  /\ spent' = [spent EXCEPT ![t] = @ + 1]
  /\ tree' \in {tree, tree \cup {t}}
  /\ UNCHANGED <<row, pc, why, budget, sha, index, head, content, maker, history>>

StreamResult(t) ==
  /\ pc[t] = "streaming"
  /\ Commit(t, "result")
  /\ UNCHANGED <<row, budget, spent, sha, workspace, history>>

\* An error event, an exception, or a stream without a result: no version.
StreamErrors(t) ==
  /\ pc[t] = "streaming"
  /\ Goto(t, "write")
  /\ why' = [why EXCEPT ![t] = "error"]
  /\ UNCHANGED <<row, budget, spent, sha, workspace, history>>

\* Where asyncio.timeout can expire.  Mutant: once something was spent only.
ClockedIfSpent(t) == pc[t] = "streaming" /\ spent[t] > 0
Clocked(t) == pc[t] = "streaming"

Timeout(t) ==
  /\ Clocked(t)
  /\ Commit(t, "timeout")
  /\ UNCHANGED <<row, budget, spent, sha, workspace, history>>

\* Where the handler of a cancel leads.
Interrupt(t) == Commit(t, "cancelled")

\* POST /cancel: the task has a handler while it streams, and just ends
\* anywhere else, a first cancel's handler included.
Cancel(t) ==
  /\ pc[t] \in LivePcs /\ lane[t] # "terminal"
  /\ cancelled' = [cancelled EXCEPT ![t] = TRUE]
  /\ \/ pc[t] = "streaming" /\ Interrupt(t) /\ UNCHANGED <<budget, sha>>
     \/ pc[t] # "streaming" /\ End(t)
  /\ UNCHANGED <<row, spent, workspace, raised, alone, faults>>

-----------------------------------------------------------------------------
(* commit_turn and commit_snapshot: four git commands, each of which is     *)
(* logged and passed over when it fails.                                    *)

\* Another command may hold the lock of the index.
Contended(t) == \E u \in Turns \ {t} : pc[u] \in GitPcs

\* POST /capture: what the terminal left in the workspace.
CaptureStarts(t) ==
  /\ Unused(t)
  /\ lane' = [lane EXCEPT ![t] = "terminal"]
  /\ tree' \in {tree, tree \cup {t}}
  /\ Commit(t, "capture")
  /\ Joins(t)
  /\ UNCHANGED <<status, seq, cost, version, budget, spent, sha, index, head, content, maker,
                 cancelled, raised, faults>>

Stage(t) ==
  /\ pc[t] = "stage"
  /\ \/ index' = index \cup tree /\ tree' = {}
     \/ Contended(t) /\ UNCHANGED <<index, tree>>
  /\ Goto(t, "diff")
  /\ UNCHANGED <<row, why, budget, spent, sha, head, content, maker, history>>

AfterGit(t) == CASE why[t] = "result"  -> "write"
              [] why[t] = "capture" -> "number"
              [] OTHER              -> "preserve"

\* Mutant: committed whether or not anything is staged.
CheckNothing(t) ==
  /\ pc[t] = "diff"
  /\ Goto(t, "commit")
  /\ UNCHANGED <<row, why, budget, spent, sha, workspace, history>>

\* Nothing staged: no version, and nothing to capture.
CheckStaged(t) ==
  /\ pc[t] = "diff"
  /\ \/ /\ index = {} /\ why[t] = "capture"
        /\ End(t)
     \/ /\ index # {} \/ why[t] # "capture"
        /\ Goto(t, IF index # {} THEN "commit" ELSE AfterGit(t))
        /\ UNCHANGED <<why, budget, sha>>
  /\ UNCHANGED <<row, spent, workspace, history>>

\* Refused, too, when another turn has committed what was staged.
CommitStaged(t) ==
  /\ pc[t] = "commit"
  /\ \/ /\ index # {}
        /\ head' = head + 1
        /\ content' = [content EXCEPT ![head + 1] = index]
        /\ maker' = [maker EXCEPT ![head + 1] = t]
        /\ index' = {}
     \/ /\ index = {} \/ Contended(t)
        /\ UNCHANGED <<head, content, maker, index>>
  /\ Goto(t, "head")
  /\ UNCHANGED <<row, why, budget, spent, sha, tree, history>>

\* The version is whatever HEAD is now.
ReadHead(t) ==
  /\ pc[t] = "head"
  /\ sha' = [sha EXCEPT ![t] = head]
  /\ Goto(t, AfterGit(t))
  /\ UNCHANGED <<row, why, budget, spent, workspace, history>>

-----------------------------------------------------------------------------
(* The row's last writes.                                                   *)

RecordVersion(t) == version' = [version EXCEPT ![t] = sha[t]]

\* _snapshot_interrupted_turn commits the version before the status is written.
Preserve(t) ==
  /\ pc[t] = "preserve"
  /\ RecordVersion(t)
  /\ Goto(t, "write")
  /\ UNCHANGED <<status, lane, seq, cost, why, budget, spent, sha, workspace, history>>

Verdict(t) == CASE why[t] = "result"    -> "succeeded"
                [] why[t] = "cancelled" -> "cancelled"
                [] OTHER                -> "failed"

\* A result is billed; no other end is.
WriteStatus(t) ==
  /\ pc[t] = "write"
  /\ status' = [status EXCEPT ![t] = Verdict(t)]
  /\ cost' = [cost EXCEPT ![t] = IF why[t] = "result" THEN spent[t] ELSE @]
  /\ RecordVersion(t)
  /\ End(t)
  /\ UNCHANGED <<lane, seq, spent, workspace, history>>

\* capture_terminal_snapshot numbers its row after the commit.
NumberCapture(t) ==
  /\ pc[t] = "number"
  /\ seq' = [seq EXCEPT ![t] = NextSeq]
  /\ Goto(t, "insert")
  /\ UNCHANGED <<status, lane, cost, version, why, budget, spent, sha, workspace, history>>

InsertCapture(t) ==
  /\ pc[t] = "insert" /\ lane[t] = "terminal"
  /\ status' = [status EXCEPT ![t] = "succeeded"]
  /\ RecordVersion(t)
  /\ End(t)
  /\ UNCHANGED <<lane, seq, cost, spent, workspace, history>>

-----------------------------------------------------------------------------
(* Faults.                                                                  *)

\* A database call outside the handlers raises: the task ends with it.
Raises(t) ==
  /\ faults < MaxFaults
  /\ pc[t] \in {"prelude", "preserve", "write"}
  /\ faults' = faults + 1
  /\ raised' = [raised EXCEPT ![t] = TRUE]
  /\ End(t)
  /\ UNCHANGED <<row, spent, workspace, cancelled, alone>>

\* The rows a restart leaves: reap_orphaned_turns.
Orphaned(t) == status[t] = "running"

Restart ==
  /\ faults < MaxFaults
  /\ faults' = faults + 1
  /\ status' = [t \in Turns |-> IF Orphaned(t) THEN "failed" ELSE status[t]]
  /\ pc' = [t \in Turns |-> IF pc[t] = "none" THEN "none" ELSE "over"]
  /\ why' = [t \in Turns |-> "none"]
  /\ budget' = [t \in Turns |-> 0] /\ sha' = [t \in Turns |-> 0]
  /\ UNCHANGED <<lane, seq, cost, version, spent, workspace, cancelled, raised, alone>>

-----------------------------------------------------------------------------

GitStep(t) == Stage(t) \/ CheckStaged(t) \/ CommitStaged(t) \/ ReadHead(t)

\* What the coroutine does by itself, whatever the executor does.
Goes(t) ==
  \/ Insert(t) \/ Dispatch(t) \/ Prelude(t) \/ ProviderGone(t)
  \/ Timeout(t)
  \/ GitStep(t) \/ Preserve(t) \/ WriteStatus(t)
  \/ NumberCapture(t) \/ InsertCapture(t)

Next ==
  \/ \E t \in Turns :
       \/ Create(t) \/ CaptureStarts(t)
       \/ Goes(t)
       \/ Round(t) \/ StreamResult(t) \/ StreamErrors(t)
       \/ Cancel(t) \/ Raises(t)
  \/ Restart

Spec == Init /\ [][Next]_vars

\* The event loop runs every coroutine that can go on, and the wall clock runs
\* out on an executor that goes on for ever or says nothing.
FairSpec == Spec /\ \A t \in Turns : WF_vars(Goes(t))

-----------------------------------------------------------------------------
(* Properties.                                                              *)

SpentByAll == MapThenSumSet(LAMBDA t : spent[t], Turns)

\* Engine-owned commits, if nothing else went on in the session: whatever a turn
\* that succeeded or was cancelled did to the workspace is in some version, and
\* the version on a row is one the turn made, so that no turn shows another's
\* diff as its own.
VersionsTellTurns ==
  \A t \in Turns : alone[t] =>
    /\ status[t] \in {"succeeded", "cancelled"} => t \notin tree \cup index
    /\ version[t] # 0 => maker[version[t]] = t

\* Where turns run one after the other and succeed, the session spends its
\* budget and no more than each turn's overshoot.
SpendIsPaced ==
  (\A t \in Turns : alone[t] /\ (spent[t] > 0 => pc[t] # "over" \/ status[t] = "succeeded"))
  => SpentByAll <= Cap + Overshoot * Cardinality({t \in Turns : spent[t] > 0})

\* Every turn reaches a last status, whatever its executor does, unless it was
\* cancelled outside the stream or the database failed under it: no other way
\* out of run_turn_background forgets the row, and a restart leaves none.
TurnsSettle ==
  \A t \in Turns : status[t] = "running" ~> status[t] \in Settled \/ cancelled[t] \/ raised[t]
=============================================================================
