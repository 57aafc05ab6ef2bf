----------------------------- MODULE TaskFiles -----------------------------
(***************************************************************************)
(* The files of one task's runs (task_workspace.py, task_assets.py and the *)
(* post-processing tail of orchestrator._do_execute): the scratch current/ *)
(* that every run of the task empties and writes, the outputs directory of *)
(* each run, the read-only history the next run is told of, the RunAsset   *)
(* rows that account for stored files, the retention caps of the task, and *)
(* the operator who deletes and clears while runs are in their tail.       *)
(*                                                                         *)
(* Nothing serializes two runs of one task.  Each run's tail is cut at its *)
(* awaits: the flush that takes SQLite's write lock, the query of the      *)
(* retention pass and the commit.  Files change at once; rows change only  *)
(* at a commit, so a tail that is cut leaves the two apart.                *)
(***************************************************************************)
EXTENDS Integers, Sequences, FiniteSets, SequencesExt, FiniteSetsExt, Lists

CONSTANTS
  TaskRuns,    \* the runs of the task; a later run has a larger number
  Weight,      \* Weight[n]: size of the file with the n-th path in path order
  Sub,         \* paths under assets/ or data/, the directories clear removes
  Referenced,  \* paths a report can reference outside its scratch
  CaptureMax,  \* _ASSET_CAPTURE_MAX
  Caps,        \* the caps an operator gives the task: [count, bytes]
  MaxWrites    \* bound: files one start of a run writes

Names == 1 .. Len(Weight)
Unlimited == -1                        \* a NULL cap
Idle == [kind |-> "idle", rows |-> {}]

ASSUME FilesAssumption ==
  /\ TaskRuns \subseteq Nat \ {0} /\ IsFiniteSet(TaskRuns)
  /\ Weight \in Seq(Nat \ {0})
  /\ Referenced \subseteq Sub /\ Sub \subseteq Names
  /\ CaptureMax \in Nat /\ MaxWrites \in Nat
  /\ Caps \subseteq [count : Nat \cup {Unlimited}, bytes : Nat \cup {Unlimited}]

VARIABLES
  caps,     \* the task's retention caps
  pc,       \* pc[r]: how far run r is
  cap,      \* cap[r]: the caps of the Task object run r loaded
  told,     \* told[r]: the run whose output is in r's prompt, 0 if none
  scratch,  \* scratch[n]: the run that wrote current/n, 0 if there is none
  outputs,  \* outputs[r][n]: the run that wrote outputs/run_r/n, 0 if none
  history,  \* history[r][n]: the same in history/run_r
  reports,  \* the runs with an output.md in history
  assets,   \* the committed RunAsset rows in id order: <<run, path>>
  new,      \* new[r]: the paths run r has captured, in the order of its rows
  gone,     \* gone[r]: the rows r's retention pass has marked deleted
  lock,     \* who holds the database's write lock: a run, -1 the operator, 0
  op,       \* the operator's request in progress
  story     \* history variables: see Init

files == <<scratch, outputs, history, reports>>
tail == <<pc, cap, told, new, gone>>
store == <<assets, lock>>
desk == <<caps, op>>
filesVars == <<tail, files, store, desk, story>>

Using == {"working", "imported"}                   \* between prepare and capture
InTail == {"imported", "captured", "recorded", "pruned"}
Ended == {"succeeded", "failed", "cancelled"}
Pcs == {"queued", "loaded", "working", "parked"} \cup InTail \cup Ended

FilesTypeOK ==
  /\ caps \in Caps /\ pc \in [TaskRuns -> Pcs] /\ cap \in [TaskRuns -> Caps]
  /\ told \in [TaskRuns -> TaskRuns \cup {0}]
  /\ scratch \in [Names -> TaskRuns \cup {0}]
  /\ outputs \in [TaskRuns -> [Names -> TaskRuns \cup {0}]]
  /\ history \in [TaskRuns -> [Names -> TaskRuns \cup {0}]]
  /\ reports \subseteq TaskRuns
  /\ assets \in Seq(TaskRuns \X Names) /\ IsInjective(assets)
  /\ new \in [TaskRuns -> Seq(Names)] /\ \A r \in TaskRuns : IsInjective(new[r])
  /\ gone \in [TaskRuns -> SUBSET (TaskRuns \X Names)]
  /\ lock \in TaskRuns \cup {0, -1}
  /\ \A r \in TaskRuns : lock = r => pc[r] \in {"recorded", "pruned"}
  /\ op \in [kind : {"idle", "delete", "clear", "cleared"},
             rows : SUBSET (TaskRuns \X Names)]

Nothing == [n \in Names |-> 0]

FilesInit ==
  /\ caps \in Caps
  /\ pc = [r \in TaskRuns |-> "queued"] /\ cap = [r \in TaskRuns |-> caps]
  /\ told = [r \in TaskRuns |-> 0]
  /\ scratch = Nothing /\ reports = {}
  /\ outputs = [r \in TaskRuns |-> Nothing] /\ history = [r \in TaskRuns |-> Nothing]
  /\ assets = <<>> /\ new = [r \in TaskRuns |-> <<>>] /\ gone = [r \in TaskRuns |-> {}]
  /\ lock = 0 /\ op = Idle
  /\ story = [wrote |-> [r \in TaskRuns |-> {}],  \* files r wrote since its last start
              mixed |-> {},    \* runs that shared current/ with another
              lost |-> {}]     \* rows whose file a cut commit or a clear took

-----------------------------------------------------------------------------
\* What the helpers compute.

Bytes(s) == FoldSeq(LAMBDA row, sum : Weight[row[2]] + sum, 0, s)

Fits(s, c) ==
  /\ c.count = Unlimited \/ Len(s) <= c.count
  /\ c.bytes = Unlimited \/ Bytes(s) <= c.bytes

(* enforce_retention: whole rows, oldest first, until both caps hold. *)
Pruned(s, c) ==
  LET k == Min({j \in 0 .. Len(s) : Fits(SubSeq(s, j + 1, Len(s)), c)})
  IN  ToSet(SubSeq(s, 1, k))

(* capture_assets keeps the largest files, the earlier path on a tie. *)
Ahead(m, n) == Weight[m] > Weight[n] \/ (Weight[m] = Weight[n] /\ m < n)
Largest(S) == {n \in S : Cardinality({m \in S : Ahead(m, n)}) < CaptureMax}
InOrder(S) == Only([n \in Names |-> n], S)

RowsOf(r) == [i \in 1 .. Len(new[r]) |-> <<r, new[r][i]>>]
Without(s, S) == Only(s, ToSet(s) \ S)
Unlinked(dir, S) ==
  [r \in TaskRuns |-> [n \in Names |-> IF <<r, n>> \in S THEN 0 ELSE dir[r][n]]]

Newest == IF reports = {} THEN 0 ELSE Max(reports)

-----------------------------------------------------------------------------
\* A run, up to its tail.

(* execute_run loads the Task and closes the session: the run keeps the    *)
(* caps it read here, whatever the operator sets later.                    *)
Load(r) ==
  /\ pc[r] \in {"queued", "parked"}       \* parked: the operator's decision
  /\ pc' = [pc EXCEPT ![r] = "loaded"] /\ cap' = [cap EXCEPT ![r] = caps]
  /\ UNCHANGED <<told, new, gone, files, store, desk, story>>

\* Mutant: prepare_current keeps the directory it finds.
BeginAmidLeftovers(r) ==
  /\ pc[r] = "loaded"
  /\ pc' = [pc EXCEPT ![r] = "working"]
  /\ told' = [told EXCEPT ![r] = Newest]
  /\ story' = [story EXCEPT !.wrote[r] = {},
       !.mixed = (@ \ {r}) \cup {s \in TaskRuns : \E q \in TaskRuns \ {r} :
                                   pc[q] \in Using /\ s \in {q, r}}]
  /\ UNCHANGED <<cap, new, gone, files, store, desk>>

(* The prompt is built from the newest output in history, then            *)
(* prepare_current empties the scratch, whoever else is using it.          *)
Begin(r) ==
  LET others == {s \in TaskRuns \ {r} : pc[s] \in Using} IN
  /\ pc[r] = "loaded"
  /\ pc' = [pc EXCEPT ![r] = "working"]
  /\ told' = [told EXCEPT ![r] = Newest]
  /\ scratch' = Nothing
  /\ story' = [story EXCEPT !.wrote[r] = {},
                 !.mixed = (@ \ {r}) \cup (IF others = {} THEN {} ELSE others \cup {r})]
  /\ UNCHANGED <<cap, new, gone, outputs, history, reports, store, desk>>

Work(r, n) ==
  /\ pc[r] = "working" /\ n \notin story.wrote[r]
  /\ Cardinality(story.wrote[r]) < MaxWrites
  /\ scratch' = [scratch EXCEPT ![n] = r]
  /\ story' = [story EXCEPT !.wrote[r] = @ \cup {n}]
  /\ UNCHANGED <<tail, outputs, history, reports, store, desk>>

(* The run waits for a decision, or ends without a result. *)
Leave(r, how) ==
  /\ pc[r] = "working" /\ how \in {"parked", "failed"}
  /\ pc' = [pc EXCEPT ![r] = how]
  /\ UNCHANGED <<cap, told, new, gone, files, store, desk, story>>

-----------------------------------------------------------------------------
\* The tail: a candidate has answered.

(* import_referenced_assets copies what the report references by an       *)
(* absolute path, file by file, into the run's outputs.                   *)
Import(r, S) ==
  /\ pc[r] = "working"
  /\ pc' = [pc EXCEPT ![r] = "imported"]
  /\ new' = [new EXCEPT ![r] = InOrder(S)]
  /\ outputs' = [outputs EXCEPT ![r] = [n \in Names |-> IF n \in S THEN r ELSE @[n]]]
  /\ UNCHANGED <<cap, told, gone, scratch, history, reports, store, desk, story>>

(* capture_assets copies what is in current/ now, whoever wrote it; a      *)
(* referenced asset at the same path is overwritten and recorded once.     *)
Capture(r) ==
  LET captured == Largest({n \in Names : scratch[n] # 0}) IN
  /\ pc[r] = "imported"
  /\ pc' = [pc EXCEPT ![r] = "captured"]
  /\ new' = [new EXCEPT ![r] =
               InOrder(captured) \o Without(@, captured)]
  /\ outputs' = [outputs EXCEPT ![r] =
                   [n \in Names |-> IF n \in captured THEN scratch[n] ELSE @[n]]]
  /\ UNCHANGED <<cap, told, gone, scratch, history, reports, store, desk, story>>

(* The rows are flushed, which waits for the write lock when there are     *)
(* any, and promote copies the outputs into history.                       *)
Record(r) ==
  /\ pc[r] = "captured"
  /\ new[r] # <<>> => lock = 0
  /\ lock' = IF new[r] = <<>> THEN lock ELSE r
  /\ pc' = [pc EXCEPT ![r] = "recorded"]
  /\ history' = [history EXCEPT ![r] = outputs[r]]
  /\ reports' = reports \cup {r}
  /\ UNCHANGED <<cap, told, new, gone, scratch, outputs, assets, desk, story>>

\* Mutant: the retention pass runs before the flush.
VisibleCommitted(r) == assets

(* enforce_retention: the files go at once, the rows with the commit. *)
Visible(r) == IF lock = r THEN assets \o RowsOf(r) ELSE assets

\* Mutant: the copy in history is not unlinked.
RetainBesideHistory(r) ==
  LET pruned == Pruned(Visible(r), cap[r]) IN
  /\ pc[r] = "recorded"
  /\ pc' = [pc EXCEPT ![r] = "pruned"]
  /\ gone' = [gone EXCEPT ![r] = pruned]
  /\ outputs' = Unlinked(outputs, pruned)
  /\ UNCHANGED <<cap, told, new, scratch, history, reports, store, desk, story>>

Retain(r) ==
  LET pruned == Pruned(Visible(r), cap[r]) IN
  /\ pc[r] = "recorded"
  /\ pc' = [pc EXCEPT ![r] = "pruned"]
  /\ gone' = [gone EXCEPT ![r] = pruned]
  /\ outputs' = Unlinked(outputs, pruned) /\ history' = Unlinked(history, pruned)
  /\ UNCHANGED <<cap, told, new, scratch, reports, store, desk, story>>

Commit(r) ==
  /\ pc[r] = "pruned" /\ lock \in {0, r}
  /\ pc' = [pc EXCEPT ![r] = "succeeded"]
  /\ assets' = Without(assets \o RowsOf(r), gone[r])
  /\ lock' = 0
  /\ gone' = [gone EXCEPT ![r] = {}] /\ new' = [new EXCEPT ![r] = <<>>]
  /\ UNCHANGED <<cap, told, files, desk, story>>

(* What every way out of an unfinished run leaves: its rows are rolled     *)
(* back, and what its retention pass unlinked stays unlinked.              *)
Cut(S, how) ==
  /\ pc' = [r \in TaskRuns |-> IF r \in S THEN how ELSE pc[r]]
  /\ new' = [r \in TaskRuns |-> IF r \in S THEN <<>> ELSE new[r]]
  /\ gone' = [r \in TaskRuns |-> IF r \in S THEN {} ELSE gone[r]]
  /\ UNCHANGED <<cap, told, files, assets, caps>>

(* busy_timeout ends the wait for the write lock: the run fails. *)
Locked(r) ==
  /\ \/ pc[r] = "captured" /\ new[r] # <<>>
     \/ pc[r] = "pruned"
  /\ lock \notin {0, r}
  /\ Cut({r}, "failed")
  /\ story' = [story EXCEPT !.lost = @ \cup gone[r]]
  /\ UNCHANGED <<lock, op>>

(* cancel_run, at any of the run's awaits; a parked run has none. *)
Cancel(r) ==
  /\ pc[r] \notin Ended
  /\ Cut({r}, "cancelled")
  /\ lock' = IF lock = r THEN 0 ELSE lock
  /\ story' = [story EXCEPT !.lost = @ \cup gone[r]]
  /\ UNCHANGED op

-----------------------------------------------------------------------------
\* The operator, and the end of the process.

SetCaps(c) ==
  /\ c # caps /\ caps' = c
  /\ UNCHANGED <<tail, files, store, op, story>>

Request(kind, S) ==
  /\ op = Idle /\ S # {}
  /\ op' = [kind |-> kind, rows |-> S]
  /\ outputs' = Unlinked(outputs, S) /\ history' = Unlinked(history, S)
  /\ UNCHANGED <<tail, scratch, reports, assets, caps, story>>

(* delete_run_assets unlinks the files of one run's rows, then commits. *)
DeleteRun(r) ==
  /\ Request("delete", {row \in ToSet(assets) : row[1] = r})
  /\ UNCHANGED lock

(* clear_task_assets does so run by run; the query for the next run       *)
(* flushes the deletions of the one before and takes the write lock.      *)
Clear ==
  LET earlier == {row \in ToSet(assets) : \E r \in TaskRuns : r > row[1]} IN
  /\ Request("clear", ToSet(assets))
  /\ earlier # {} => lock = 0
  /\ lock' = IF earlier # {} THEN -1 ELSE lock

(* Then it removes assets/ and data/ of every run of the task, one in its *)
(* tail included.                                                         *)
ClearDirs ==
  LET swept == {row \in TaskRuns \X Sub : outputs[row[1]][row[2]] # 0} IN
  /\ op.kind = "clear"
  /\ op' = [op EXCEPT !.kind = "cleared"]
  /\ outputs' = Unlinked(outputs, swept)
  /\ story' = [story EXCEPT !.lost = @ \cup swept]
  /\ UNCHANGED <<tail, scratch, history, reports, store, caps>>

OperatorCommit ==
  /\ op.kind \in {"delete", "cleared"} /\ lock \in {0, -1}
  /\ assets' = Without(assets, op.rows)
  /\ lock' = 0 /\ op' = Idle
  /\ UNCHANGED <<tail, files, caps, story>>

OperatorLocked ==
  /\ op.kind \in {"delete", "cleared"} /\ lock \in TaskRuns
  /\ op' = Idle /\ story' = [story EXCEPT !.lost = @ \cup op.rows]
  /\ UNCHANGED <<tail, files, store, caps>>

(* The process dies: the runs it drove are failed at the next boot. *)
Crash ==
  LET driven == {r \in TaskRuns : pc[r] \in {"loaded", "working"} \cup InTail} IN
  /\ driven # {} \/ op # Idle
  /\ Cut(driven, "failed")
  /\ lock' = 0 /\ op' = Idle
  /\ story' = [story EXCEPT !.lost =
                 @ \cup op.rows \cup UNION {gone[r] : r \in driven}]

FilesNext ==
  \/ \E r \in TaskRuns : \/ Load(r) \/ Begin(r) \/ Capture(r) \/ Record(r)
                         \/ Retain(r) \/ Commit(r) \/ Locked(r) \/ Cancel(r)
                         \/ DeleteRun(r)
                         \/ \E n \in Names : Work(r, n)
                         \/ \E how \in {"parked", "failed"} : Leave(r, how)
                         \/ \E n \in Referenced : Import(r, {n})
                         \/ Import(r, {})
  \/ \E c \in Caps : SetCaps(c)
  \/ Clear \/ ClearDirs \/ OperatorCommit \/ OperatorLocked
  \/ Crash

FilesSpec == FilesInit /\ [][FilesNext]_filesVars

-----------------------------------------------------------------------------
\* What a correct store of assets promises.

(* Retention drops what it must and no more: the commit of a run keeps no  *)
(* row older than one it drops; and where the run holds the write lock,    *)
(* with deletions, clears and other tails before and after, the rows fit   *)
(* the caps it started with and one row more would not.                    *)
RetentionIsExact ==
  [][\A r \in TaskRuns : Commit(r) =>
       LET all == assets \o RowsOf(r)
           k == Len(all) - Len(assets')
       IN /\ \A i, j \in 1 .. Len(all) :
               i < j /\ all[j] \in gone[r] => all[i] \in gone[r]
          /\ lock = r => /\ Fits(assets', cap[r])
                         /\ k > 0 => ~ Fits(SubSeq(all, k, Len(all)), cap[r])]_filesVars

(* Rows and files agree.  A row without its file has lost it to a commit   *)
(* that never came (cancel, crash, lock timeout after the unlink) or to a  *)
(* clear that swept a run in its tail; and every stored file of a          *)
(* succeeded run has its row, so storage_usage counts all of them.         *)
RowsMatchFiles ==
  LET leaving == op.rows \cup UNION {gone[r] : r \in TaskRuns} IN
  /\ \A row \in ToSet(assets) \ (leaving \cup story.lost) :
       outputs[row[1]][row[2]] # 0
  /\ \A r \in TaskRuns, n \in Names :
       pc[r] = "succeeded" /\ (outputs[r][n] # 0 \/ history[r][n] # 0)
         => <<r, n>> \in ToSet(assets)

(* A run whose use of current/ overlapped no other run's captures what it *)
(* wrote since its last start, all of it up to the limit, and no file of   *)
(* another run: what an earlier run left behind is never taken for its own.*)
CapturesItsOwn ==
  \A r \in TaskRuns \ story.mixed :
    pc[r] \in {"captured", "recorded"} =>
      /\ Largest(story.wrote[r]) \subseteq ToSet(new[r])
      /\ ToSet(new[r]) \subseteq Largest(story.wrote[r]) \cup Referenced
      /\ \A n \in Names : outputs[r][n] \in {0, r}
=============================================================================
