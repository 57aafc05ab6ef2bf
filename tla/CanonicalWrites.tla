--------------------------- MODULE CanonicalWrites ---------------------------
(***************************************************************************)
(* Writes to a project's context root (app/canonical.py), the requests     *)
(* that decide them (app/main.py, decide_approval and                      *)
(* batch_decide_approvals) and what executions are then shown of the root  *)
(* (app/project_context.py).                                               *)
(*                                                                         *)
(* A proposal is a row.  A decision loads the row, stamps it in a          *)
(* transaction that from then on holds SQLite's write lock, writes the     *)
(* file, declares it as a source and commits.  The file is outside of that *)
(* transaction; the row was loaded before it.                              *)
(***************************************************************************)
EXTENDS Integers, Sequences, FiniteSets, SequencesExt, FiniteSetsExt

CONSTANTS
  Proposals,   \* ids of proposals, numbers from 1
  Paths,       \* files of the root
  Folder,      \* a directory of the root that may be declared as a source
  Inside,      \* the files of that directory
  Manifest,    \* the files that the manifest reads first, in order
  Deciders,    \* decide requests
  BatchMax,    \* approval_batch_max
  Budget,      \* context_projection_max_bytes; every file counts for one
  MaxRows,     \* bound: sources declared by a request or the manifest
  MaxChanges,  \* bound: changes of files by other hands, and declarations
  MaxCrashes   \* bound: crashes

ASSUME CanonicalAssumption ==
  /\ Proposals \subseteq Nat \ {0} /\ IsFiniteSet(Proposals)
  /\ Paths # {} /\ IsFiniteSet(Paths) /\ Inside \subseteq Paths /\ Folder \notin Paths
  /\ Manifest \in Seq(Paths)
  /\ BatchMax \in Nat /\ Budget \in Nat /\ MaxRows \in Nat
  /\ MaxChanges \in Nat /\ MaxCrashes \in Nat
  /\ "nobody" \notin Deciders

\* What a file holds: nothing, what a proposal carries, what the evidence it refers to
\* was turned into, or what somebody typed.
Absent  == 0
Altered == -1
Typed   == -2
Bodies  == Proposals \cup {Absent, Altered, Typed}

Nobody == "nobody"
Plain  == Len(Manifest) + Cardinality(Paths) + 2   \* bootstrap_order NULL: read last
Sources == [rel : Paths \cup {Folder}, order : 1..Plain]

VARIABLES
  \* --- rows of approvals, context_sources, tasks ---
  status, kind, path, batch, sources, tasks,
  \* --- files: the context root, the evidence store ---
  root, store,
  \* --- decide requests, the write lock; a request that declares a source ---
  req, lock, wanted,
  \* --- history, read by properties only ---
  torn, overlapped, changes, crashes

rows     == <<status, kind, path, batch, sources, tasks>>
files    == <<root, store>>
requests == <<req, lock, wanted>>
story    == <<torn, overlapped>>
bounds   == <<changes, crashes>>
vars     == <<rows, files, requests, story, bounds>>

\* A canonical_write whose row carries the content is one whose evidence never changes.
Kinds == {"write", "schedule"}
Pcs   == {"idle", "check", "stamp", "write", "close", "audit", "over"}

\* A request before it has begun, and after it is over.
NoRequest(where) ==
  [pc |-> where, todo |-> <<>>, batch |-> FALSE, yes |-> FALSE, declare |-> FALSE, fresh |-> FALSE]

TypeOK ==
  /\ status \in [Proposals -> {"absent", "pending", "approved", "denied", "expired"}]
  /\ kind \in [Proposals -> Kinds] /\ path \in [Proposals -> Paths]
  /\ batch \in [Proposals -> Deciders \cup {Nobody}]
  /\ sources \in Seq(Sources) /\ Len(sources) <= MaxRows + Cardinality(Paths)
  /\ tasks \in [Proposals -> Nat]
  /\ root \in [Paths -> Bodies] /\ store \in [Proposals -> {"intact", "altered", "missing"}]
  /\ req \in [Deciders -> [pc : Pcs, todo : Seq(Proposals), batch : BOOLEAN, yes : BOOLEAN,
                            declare : BOOLEAN, fresh : BOOLEAN]]
  /\ lock \in Deciders \cup {Nobody}
  /\ wanted \in Paths \cup {Folder, Nobody}
  /\ torn \subseteq Proposals /\ overlapped \subseteq Proposals
  /\ changes \in 0..MaxChanges /\ crashes \in 0..MaxCrashes
  /\ \A d \in Deciders : lock = d <=> req[d].pc \in {"write", "close"}
  /\ \A d \in Deciders : req[d].pc \in {"check", "stamp", "write", "close"} => req[d].todo # <<>>

Init ==
  /\ status = [p \in Proposals |-> "absent"]
  /\ kind = [p \in Proposals |-> "write"]
  /\ path = [p \in Proposals |-> CHOOSE x \in Paths : TRUE]
  /\ batch = [p \in Proposals |-> Nobody]
  /\ sources = <<>> /\ tasks = [p \in Proposals |-> 0]
  /\ root = [x \in Paths |-> Absent] /\ store = [p \in Proposals |-> "intact"]
  /\ req = [d \in Deciders |-> NoRequest("idle")] /\ lock = Nobody /\ wanted = Nobody
  /\ torn = {} /\ overlapped = {}
  /\ changes = 0 /\ crashes = 0

-----------------------------------------------------------------------------
(* Sources and projections.                                                 *)

Covers(rel, x) == rel = x \/ (rel = Folder /\ x \in Inside)
Covered(x)     == \E i \in DOMAIN sources : Covers(sources[i].rel, x)
Contents(rel)  == {x \in Paths : Covers(rel, x) /\ root[x] # Absent}

\* The next row of the table reads after everything that has an order.
NextOrder ==
  LET orders == {sources[i].order : i \in DOMAIN sources} \ {Plain}
  IN  IF orders = {} THEN 1 ELSE Max(orders) + 1

\* The order of reading, which for equal places is that of the rows.
ReadBefore(i, j) == \/ sources[i].order < sources[j].order
                    \/ sources[i].order = sources[j].order /\ i < j
ReadLast(is) == CHOOSE i \in is : \A j \in is \ {i} : ReadBefore(j, i)

\* A source that is missing, or that no longer fits, is left out.
Size(is) == MapThenSumSet(LAMBDA i : Cardinality(Contents(sources[i].rel)), is)
Fits(i, taken) == Contents(sources[i].rel) # {} /\ Size(taken \cup {i}) <= Budget

\* project_for_execution: one source after the other.
Projection ==
  MapThenFoldSet(LAMBDA i, taken : IF Fits(i, taken) THEN taken \cup {i} ELSE taken,
                 {}, LAMBDA i : i, ReadLast, DOMAIN sources)

\* declare_context_sources looks for a row and then commits one; it places none.
DeclareLooks(rel) ==
  /\ wanted = Nobody /\ changes < MaxChanges
  /\ \A i \in DOMAIN sources : sources[i].rel # rel
  /\ wanted' = rel
  /\ changes' = changes + 1
  /\ UNCHANGED <<rows, files, req, lock, story, crashes>>

DeclareInserts ==
  /\ wanted # Nobody /\ lock = Nobody /\ Len(sources) < MaxRows
  /\ sources' = Append(sources, [rel |-> wanted, order |-> Plain])
  /\ wanted' = Nobody
  /\ UNCHANGED <<status, kind, path, batch, tasks, files, req, lock,
                 story, bounds>>

\* Places and ids in their order, of which there is one.
InOrder(ns) == {s \in [1..Cardinality(ns) -> ns] : \A i, j \in DOMAIN s : i < j => s[i] < s[j]}

\* sync_sources_from_manifest: its places are those of the manifest.
Import ==
  /\ lock = Nobody /\ changes < MaxChanges
  /\ LET declared(rel) == \E i \in DOMAIN sources : sources[i].rel = rel
         placed == [i \in DOMAIN sources |->
                      IF sources[i].rel \in ToSet(Manifest)
                      THEN [sources[i] EXCEPT !.order = CHOOSE k \in DOMAIN Manifest : Manifest[k] = sources[i].rel]
                      ELSE sources[i]]
         missing == {k \in DOMAIN Manifest : ~declared(Manifest[k])}
     IN  /\ Len(sources) + Cardinality(missing) <= MaxRows
         /\ \E ks \in InOrder(missing) :
              sources' = placed \o [n \in DOMAIN ks |-> [rel |-> Manifest[ks[n]], order |-> ks[n]]]
  /\ changes' = changes + 1
  /\ UNCHANGED <<status, kind, path, batch, tasks, files, requests, story, crashes>>

-----------------------------------------------------------------------------
(* Proposing, and what other hands do to the files.                         *)

Propose(p, k, x) ==
  /\ k = "schedule" => x = path[p]   \* which has none
  /\ status[p] = "absent" /\ \A q \in Proposals : q < p => status[q] # "absent"
  /\ lock = Nobody
  /\ status' = [status EXCEPT ![p] = "pending"]
  /\ kind' = [kind EXCEPT ![p] = k]
  /\ path' = [path EXCEPT ![p] = x]
  /\ UNCHANGED <<batch, sources, tasks, files, requests, story, bounds>>

Edit(x) ==
  /\ changes < MaxChanges
  /\ root' = [root EXCEPT ![x] = Typed]
  /\ changes' = changes + 1
  /\ UNCHANGED <<rows, store, requests, story, crashes>>

Tamper(p, how) ==
  /\ changes < MaxChanges
  /\ status[p] # "absent" /\ kind[p] = "write"
  /\ store' = [store EXCEPT ![p] = how]
  /\ changes' = changes + 1
  /\ UNCHANGED <<rows, root, requests, story, crashes>>

-----------------------------------------------------------------------------
(* Deciding.                                                                *)

Goto(d, where) == req' = [req EXCEPT ![d].pc = where]
Row(d)         == Head(req[d].todo)
Verdict(d)     == IF req[d].yes THEN "approved" ELSE "denied"

Picks(d, ps, batched, approve, source) ==
  /\ source => approve   \* it is read by an approval only
  /\ req[d].pc = "idle"
  /\ \A p \in ps : status[p] = "pending"
  /\ \E rs \in InOrder(ps) :
       req' = [req EXCEPT ![d] = [pc |-> "stamp", todo |-> rs, batch |-> batched,
                                  yes |-> approve, declare |-> source, fresh |-> FALSE]]
  /\ UNCHANGED <<rows, files, lock, wanted, story, bounds>>

Decide(d, p, approve, source) == Picks(d, {p}, FALSE, approve, source)

\* A batch has one body per path.  Mutant: any bodies.
AnyBodies(ps) == Cardinality(ps) <= BatchMax
OneBodyPerPath(ps) ==
  /\ Cardinality(ps) <= BatchMax
  /\ \A p, q \in ps : path[p] = path[q] => p = q

DecideBatch(d, ps, approve, source) ==
  /\ ps # {} /\ \A p \in ps : kind[p] = "write"
  /\ OneBodyPerPath(ps)
  /\ Picks(d, ps, TRUE, approve, source)

\* The row that was dealt with leaves the request; a rollback makes the session read
\* the other rows anew.
NextRow(d, fresh) ==
  LET r == req[d]
  IN  [req EXCEPT ![d] =
         IF Len(r.todo) > 1
         THEN [r EXCEPT !.pc = IF fresh THEN "check" ELSE "stamp", !.todo = Tail(r.todo), !.fresh = fresh]
         ELSE IF r.batch THEN [r EXCEPT !.pc = "audit", !.todo = <<>>] ELSE NoRequest("over")]

\* A row fails and is rolled back.  Mutant: it is tried again.
TriesAgain(d) == [req EXCEPT ![d] = [@ EXCEPT !.pc = "check", !.fresh = TRUE]]
Drops(d)      == NextRow(d, TRUE)

Fails(d) ==
  /\ req' = Drops(d)
  /\ lock' = IF lock = d THEN Nobody ELSE lock
  /\ UNCHANGED <<rows, files, wanted, story, bounds>>

\* settle, when it reads the row from the database; a row that was loaded before
\* keeps the status it was loaded with.
Check(d) ==
  /\ req[d].pc = "check"
  /\ IF status[Row(d)] = "pending"
     THEN Goto(d, "stamp") /\ UNCHANGED <<rows, files, lock, wanted, story, bounds>>
     ELSE Fails(d)

\* What gets to the disk is for an approval only.
Writes(d) == req[d].yes /\ kind[Row(d)] = "write"

\* settle's flush takes the write lock; it waits for it, busy_timeout long.
Stamp(d) ==
  /\ req[d].pc = "stamp" /\ lock = Nobody
  /\ lock' = d
  /\ overlapped' = IF status[Row(d)] = "pending" THEN overlapped ELSE overlapped \cup {Row(d)}
  /\ Goto(d, IF Writes(d) THEN "write" ELSE "close")
  /\ UNCHANGED <<rows, files, wanted, torn, bounds>>

TimesOut(d) ==
  /\ req[d].pc = "stamp" /\ lock # Nobody
  /\ Fails(d)

\* The evidence still has the digest that the proposal pinned.  Mutant: there is some.
IsThere(p)  == store[p] # "missing"
IsIntact(p) == store[p] = "intact"
Bytes(p)    == IF store[p] = "intact" THEN p ELSE Altered

\* canonical.apply up to the file (and the commit of a git root, which may fail).
Write(d) ==
  /\ req[d].pc = "write" /\ IsIntact(Row(d))
  /\ root' = [root EXCEPT ![path[Row(d)]] = Bytes(Row(d))]
  /\ Goto(d, "close")
  /\ UNCHANGED <<rows, store, lock, wanted, story, bounds>>

\* The evidence is not what was proposed, or the root is not writable.
WriteFails(d) == req[d].pc = "write" /\ Fails(d)

\* What apply declares: a path that no source covers.  Mutant: that has no row.
HasNoRow(x)   == \A i \in DOMAIN sources : sources[i].rel # x
NotCovered(x) == ~Covered(x)

\* The rest of apply, the schedule's task, and the commit.
Finish(d) ==
  LET p == Row(d)
  IN  /\ req[d].pc = "close"
      /\ status' = [status EXCEPT ![p] = Verdict(d)]
      /\ batch' = IF req[d].batch THEN [batch EXCEPT ![p] = d] ELSE batch
      /\ tasks' = IF req[d].yes /\ kind[p] = "schedule" THEN [tasks EXCEPT ![p] = @ + 1] ELSE tasks
      /\ sources' = IF Writes(d) /\ req[d].declare /\ NotCovered(path[p])
                    THEN Append(sources, [rel |-> path[p], order |-> NextOrder])
                    ELSE sources
      /\ req' = NextRow(d, req[d].fresh)
      /\ lock' = Nobody
      /\ UNCHANGED <<kind, path, files, wanted, story, bounds>>

\* The one audit event of a batch.
Audit(d) ==
  /\ req[d].pc = "audit" /\ lock = Nobody
  /\ req' = [req EXCEPT ![d] = NoRequest("over")]
  /\ UNCHANGED <<rows, files, lock, wanted, story, bounds>>

\* Proposals wait for no process: reap_pending passes them over.  Mutant: it takes
\* those that are not canonical writes (as it once did).
ReapedButWrites(p) == status[p] = "pending" /\ kind[p] # "write"
Reaped(p)          == FALSE

Crash ==
  /\ crashes < MaxCrashes
  /\ crashes' = crashes + 1
  /\ status' = [p \in Proposals |-> IF Reaped(p) THEN "expired" ELSE status[p]]
  /\ torn' = torn \cup {Row(d) : d \in {d \in Deciders : req[d].pc = "close" /\ Writes(d)}}
  /\ req' = [d \in Deciders |-> NoRequest(IF req[d].pc = "idle" THEN "idle" ELSE "over")]
  /\ lock' = Nobody /\ wanted' = Nobody
  /\ UNCHANGED <<kind, path, batch, sources, tasks, files, overlapped, changes>>

-----------------------------------------------------------------------------

Proceeds(d) ==
  Check(d) \/ Stamp(d) \/ TimesOut(d) \/ Write(d) \/ WriteFails(d) \/ Finish(d) \/ Audit(d)

Next ==
  \/ \E p \in Proposals, k \in Kinds, x \in Paths : Propose(p, k, x)
  \/ \E x \in Paths : Edit(x)
  \/ \E p \in Proposals, how \in {"altered", "missing"} : Tamper(p, how)
  \/ \E rel \in Paths \cup {Folder} : DeclareLooks(rel)
  \/ DeclareInserts
  \/ Import
  \/ \E d \in Deciders, approve \in BOOLEAN, source \in BOOLEAN :
       \/ \E p \in Proposals : Decide(d, p, approve, source)
       \/ \E ps \in SUBSET Proposals : DecideBatch(d, ps, approve, source)
  \/ \E d \in Deciders : Proceeds(d)
  \/ Crash

Spec == Init /\ [][Next]_vars

\* A request goes on while its process does.
Fairness == \A d \in Deciders : WF_vars(Proceeds(d))
FairSpec == Spec /\ Fairness

-----------------------------------------------------------------------------
(* Properties.                                                              *)

InFlight(p) == \E d \in Deciders : lock = d /\ req[d].pc = "close" /\ Writes(d) /\ Row(d) = p

\* The root holds what a human approved, as it was proposed, and a task stands for each
\* approved schedule: what a proposal asks for exists only with its approval, but for a
\* process that died between the file and the commit, and decisions that overlapped.
NothingWithoutGrant ==
  /\ \A x \in Paths : root[x] # Altered
  /\ \A p \in Proposals :
       /\ (\E x \in Paths : root[x] = p) =>
            status[p] = "approved" \/ InFlight(p) \/ p \in torn \cup overlapped
       /\ p \in overlapped \/ tasks[p] = IF status[p] = "approved" /\ kind[p] = "schedule" THEN 1 ELSE 0

\* A batch does not write over what it wrote itself (two proposals for one path are
\* whole bodies of one file).
BatchLandsWhole ==
  [][\A x \in Paths :
       LET old == root[x]
       IN  root'[x] # old /\ root'[x] \in Proposals /\ old \in Proposals =>
             ~(lock # Nobody /\ batch[old] = lock)]_vars

\* A proposal is decided once, by a request, whatever crashes and restarts in between;
\* only a request that had loaded it before it was decided decides it again.
DecisionsStand ==
  [][\A p \in Proposals :
       status[p] # "absent" /\ status'[p] # status[p] =>
         /\ \E d \in Deciders : lock = d /\ Row(d) = p /\ status'[p] = Verdict(d)
         /\ status[p] = "pending" \/ p \in overlapped]_vars

\* Declaring what an approval wrote puts it in reach of executions without showing
\* anything twice, and pushes no source that has an order out of the projection.
PromotionDisplacesNothing ==
  [][\A d \in Deciders :
       Finish(d) /\ sources' # sources =>
         /\ ~Covered(path[Row(d)])
         /\ \A i \in Projection : sources[i].order # Plain => i \in Projection']_vars

\* Every request that decides comes to its end, in whatever order the rows of the
\* requests block and fail each other.
DecisionsEnd == \A d \in Deciders : req[d].pc # "idle" ~> req[d].pc = "over"

=============================================================================
