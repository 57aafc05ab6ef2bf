------------------------------ MODULE Delivery ------------------------------
(***************************************************************************)
(* What leaves a build session (sessions/workspace.py, publish.py,         *)
(* packaging.py, uploads.py, imports.py and their routes in main.py): the  *)
(* versions of its workspace, the packages captured from them, and the     *)
(* share link that serves a snapshot.                                      *)
(*                                                                         *)
(* Turns, uploads, restores, packagings, publishes, revokes and the        *)
(* deletion of the session are requests that nothing serializes.  Each git *)
(* command is a process of its own and one step; the agent of a turn is    *)
(* another process and writes between any two.  A request has read the     *)
(* Artifact row when it starts and writes, when it commits, only the       *)
(* columns it changed.                                                     *)
(***************************************************************************)
EXTENDS Integers, Sequences, FiniteSets, SequencesExt, FiniteSetsExt

CONSTANTS
  Files,         \* paths of the workspace
  MaxRequests,   \* bound: requests made of the session
  MaxEdits       \* bound: file contents written, by agents and uploads

Requests == 1 .. MaxRequests
Kinds == {"turn", "upload", "restore", "package", "publish", "revoke", "delete"}
Empty == [f \in Files |-> 0]             \* a tree; content 0: no such file
NoLink == [published |-> FALSE, token |-> -1]    \* the session has no Artifact

ASSUME DeliveryAssumption == MaxRequests \in Nat /\ MaxEdits \in Nat

VARIABLES
  req,       \* the requests, in the order of their arrival
  work,      \* the working tree
  index,     \* git's index
  commits,   \* the versions, [tree, by]; by is a turn or 0
  author,    \* author[e]: the request that wrote content e
  repo,      \* the workspace directory exists
  session,   \* the Session row exists
  packages,  \* the `package` rows of the evidence store
  pins,      \* the packages among the work item's pinned inputs
  link,      \* the Artifact row: a token of 0 is NULL
  disk,      \* the bundles in publish_dir, named by their tokens
  story      \* history variables: see Init

tree == <<work, index, commits, author, repo>>
share == <<link, disk>>
store == <<packages, pins>>
vars == <<req, tree, session, store, share, story>>

Trees == [Files -> 0 .. MaxEdits]
Links == [published : BOOLEAN, token : Requests \cup {0, -1}]

(* A request starts with nothing read; pc "over" covers every answer.      *)
Blank == [kind |-> "turn", pc |-> "over", allow |-> FALSE, pin |-> FALSE, failed |-> FALSE,
          escaped |-> FALSE, head |-> 0, base |-> 0, turn |-> 0, tree |-> Empty,
          calm |-> TRUE, exact |-> TRUE, lost |-> {}, seen |-> NoLink,
          claims |-> {}, pinning |-> {}]

TypeOK ==
  /\ Len(req) <= MaxRequests
  /\ \A i \in DOMAIN req :
       /\ DOMAIN req[i] = DOMAIN Blank /\ req[i].kind \in Kinds
       /\ req[i].tree \in Trees /\ req[i].seen \in Links
       /\ req[i].head \in 0 .. Len(commits) /\ req[i].base \in 0 .. Len(commits)
  /\ work \in Trees /\ index \in Trees
  /\ commits # <<>> /\ \A c \in DOMAIN commits : commits[c].tree \in Trees
  /\ author \in Seq(Requests) /\ Len(author) <= MaxEdits
  /\ repo \in BOOLEAN /\ session \in BOOLEAN
  /\ pins \subseteq {p.id : p \in packages}
  /\ link \in Links /\ disk \subseteq Requests

Init ==                                             \* create_session has run
  /\ req = <<>>
  /\ work = Empty /\ index = Empty /\ commits = <<[tree |-> Empty, by |-> 0]>>
  /\ author = <<>> /\ repo = TRUE /\ session = TRUE
  /\ packages = {} /\ pins = {}
  /\ link = NoLink /\ disk = {}
  /\ story = [down |-> FALSE,  \* a revoke with no publish beside it was the last word
              cut |-> {},      \* tokens whose bundle went without the row; 0: a row
                              \* that lost its token to a revoke that had read another
              orphans |-> {},  \* bundles the row was taken from
              strays |-> {},   \* publishes that ran beside a deletion
             late |-> {}]     \* packages pinned by a packaging that had seen other
                              \* turns claim the commit than they did

-----------------------------------------------------------------------------
\* Requests in general.

Top == Len(commits)
Writers == {"turn", "upload", "restore"}
At(i, kind, pc) == i \in DOMAIN req /\ req[i].kind = kind /\ req[i].pc = pc
Flying(kinds) == {i \in DOMAIN req : req[i].kind \in kinds /\ req[i].pc # "over"}
Goes(i, pc) == req' = [req EXCEPT ![i].pc = pc]

(* Of a request that is over only what it did to the workspace matters. *)
Over(r) == [IF r.kind \in Writers THEN r ELSE [Blank EXCEPT !.kind = r.kind]
              EXCEPT !.pc = "over"]
Ends(i) == req' = [req EXCEPT ![i] = Over(req[i])]

(* A request arrives.  Every route loads the session first.  What writes   *)
(* the workspace disturbs the others that are under way, a deletion too.   *)
Arrive(kind, allow, pin, version) ==
  /\ session /\ Len(req) < MaxRequests
  /\ req' = Append([i \in DOMAIN req |->
                      IF kind \in Writers \cup {"delete"} /\ i \in Flying(Writers)
                      THEN [req[i] EXCEPT !.calm = FALSE] ELSE req[i]],
                   [Blank EXCEPT !.kind = kind, !.pc = "start", !.allow = allow,
                      !.pin = pin, !.base = version, !.calm = Flying(Writers \cup {"delete"}) = {}])
  /\ story' = IF kind # "publish" THEN story
              ELSE [story EXCEPT !.down = FALSE,
                      !.strays = @ \cup {i \in {Len(req) + 1} : Flying({"delete"}) # {}}]
  /\ UNCHANGED <<tree, session, store, share>>

-----------------------------------------------------------------------------
\* Writing the workspace.

Write(i, f) ==
  /\ repo /\ Len(author) < MaxEdits
  /\ work' = [work EXCEPT ![f] = Len(author) + 1]
  /\ author' = Append(author, i)
  /\ UNCHANGED <<index, commits, repo, session, store, share, story>>

(* The agent of a turn writes.  A result, a cancel and a timeout all lead  *)
(* to a commit; an error leaves the edits in the workspace, uncommitted.   *)
Edit(i, f) == At(i, "turn", "start") /\ Write(i, f) /\ UNCHANGED req

Fail(i) ==
  /\ At(i, "turn", "start")
  /\ req' = [req EXCEPT ![i].pc = "over", ![i].failed = TRUE]
  /\ UNCHANGED <<tree, session, store, share, story>>

(* save_upload, an extracted archive or a clone. *)
Upload(i, f) == At(i, "upload", "start") /\ Write(i, f) /\ Goes(i, "written")

(* A batch with a bad file: what it had saved is removed, the file it had  *)
(* overwritten with it.                                                    *)
UploadRefused(i, f) ==
  /\ At(i, "upload", "start") /\ repo
  /\ work' = [work EXCEPT ![f] = 0]
  /\ req' = [req EXCEPT ![i].pc = "over", ![i].failed = TRUE]
  /\ UNCHANGED <<index, commits, author, repo, session, store, share, story>>

(* An archive refused half-way leaves what it had written, uncommitted. *)
ImportRefused(i, f) ==
  /\ At(i, "upload", "start") /\ Write(i, f)
  /\ req' = [req EXCEPT ![i].pc = "over", ![i].failed = TRUE]

(* What a restore is about to commit is its target. *)
Exact(i) == req[i].kind = "restore" => index = commits[req[i].base].tree

(* git add -A, the first command of every commit the engine makes. *)
Stage(i) ==
  /\ \/ At(i, "turn", "start") \/ At(i, "upload", "written")
     \/ At(i, "restore", "cleaned")
  /\ repo
  /\ index' = work
  /\ Goes(i, "staged")
  /\ UNCHANGED <<work, commits, author, repo, session, store, share, story>>

(* git diff --cached: nothing to commit ends the request without a version. *)
Diff(i) ==
  LET changed == index # commits[Top].tree IN
  /\ i \in DOMAIN req /\ req[i].pc = "staged" /\ repo
  /\ req' = [req EXCEPT ![i].pc = IF changed THEN "differs"
                                  ELSE IF req[i].kind = "turn" THEN "named" ELSE "over",
       ![i].exact = ~ changed => Exact(i)]
  /\ UNCHANGED <<work, index, commits, author, repo, session, store, share, story>>

(* git commit, of the index as it is by now; it may have nothing to do. *)
Commit(i) ==
  /\ i \in DOMAIN req /\ req[i].pc = "differs" /\ repo
  /\ commits' = IF index = commits[Top].tree THEN commits
                ELSE Append(commits, [tree |-> index,
                       by |-> IF req[i].kind = "turn" THEN i ELSE 0])
  /\ req' = [req EXCEPT ![i].pc = IF req[i].kind = "turn" THEN "committed" ELSE "over",
                        ![i].exact = Exact(i)]
  /\ UNCHANGED <<work, index, author, repo, session, store, share, story>>

(* git rev-parse: the turn takes whatever HEAD names for its version. *)
Name(i) ==
  /\ At(i, "turn", "committed") /\ repo
  /\ req' = [req EXCEPT ![i].pc = "named", ![i].head = Top]
  /\ UNCHANGED <<tree, session, store, share, story>>

(* The turn's row gets its commit and its flags in a later transaction. *)
Record(i, escaped) ==
  /\ At(i, "turn", "named")
  /\ req' = [req EXCEPT ![i].pc = "over", ![i].escaped = escaped]
  /\ UNCHANGED <<tree, session, store, share, story>>

-----------------------------------------------------------------------------
\* restore_version: read-tree, checkout-index, clean, then add and commit.

Unversioned(S) == {e \in S \ {0} : \A c \in DOMAIN commits :
                                      \A f \in Files : commits[c].tree[f] # e}

ReadTree(i) ==
  /\ At(i, "restore", "start") /\ repo
  /\ index' = commits[req[i].base].tree
  /\ Goes(i, "read")
  /\ UNCHANGED <<work, commits, author, repo, session, store, share, story>>

Replace(i, S, pc) ==               \* the files S become what the index holds
  /\ work' = [f \in Files |-> IF f \in S THEN index[f] ELSE work[f]]
  /\ req' = [req EXCEPT ![i].pc = pc, ![i].lost = @ \cup
               Unversioned({work[f] : f \in {g \in S : index[g] # work[g]}})]
  /\ UNCHANGED <<index, commits, author, repo, session, store, share, story>>

Checkout(i) ==
  At(i, "restore", "read") /\ repo /\ Replace(i, {f \in Files : index[f] # 0}, "out")
\* Mutant: files added after the target version are left where they are.
CleanNothing(i) == At(i, "restore", "out") /\ repo /\ Replace(i, {}, "cleaned")
Clean(i) ==
  At(i, "restore", "out") /\ repo /\ Replace(i, {f \in Files : index[f] = 0}, "cleaned")

(* Without a workspace git fails and the routes go on or refuse. *)
NoRepo(i) ==
  /\ ~ repo /\ i \in Flying({"turn", "upload", "restore"})
  /\ req' = [req EXCEPT ![i].pc = "over", ![i].failed = TRUE]
  /\ UNCHANGED <<tree, session, store, share, story>>

-----------------------------------------------------------------------------
\* package_session_workspace and build_package.

Step(i, from, to, ok) ==
  /\ At(i, "package", from)
  /\ req' = [req EXCEPT ![i] = IF ok THEN to ELSE Over(to)]
  /\ UNCHANGED <<tree, session, store, share, story>>

ReadHead(i) ==
  Step(i, "start", [req[i] EXCEPT !.pc = "headed", !.head = Top], repo)

\* Mutant: attribution by recency.
ProducersRecent(head) == {t \in DOMAIN req : req[t].kind = "turn" /\ req[t].pc = "over"}
(* Attribution by commit identity, from the rows as they are. *)
Producers(head) ==
  {t \in DOMAIN req : session /\ req[t].kind = "turn" /\ req[t].pc = "over"
                      /\ ~ req[t].failed /\ req[t].head = head}

Attribute(i) ==
  LET producing == Max(Producers(req[i].head) \cup {0})
      turn == IF producing # 0 /\ ~ req[producing].escaped THEN producing ELSE 0
  IN  Step(i, "headed", [req[i] EXCEPT !.pc = "judged", !.turn = turn,
                                                !.claims = Producers(req[i].head)],
           turn # 0 \/ req[i].allow)

ReadBase(i) ==
  Step(i, "judged", [req[i] EXCEPT !.pc = "based", !.base = Top, !.tree = work], repo)

(* git status: the working tree is what HEAD is at that moment.  `calm`    *)
(* records that the tree is still the one build_package found.             *)
Status(i) ==
  Step(i, "based", [req[i] EXCEPT !.pc = "clean", !.calm = work = req[i].tree],
       repo /\ work = index /\ index = commits[Top].tree)

(* The files are hashed and zipped; HEAD as build_package read it must be  *)
(* HEAD as the route read it, and `calm` that neither has moved since.     *)
Walk(i) ==
  Step(i, "clean",
       [req[i] EXCEPT !.pc = "walked", !.tree = work,
          !.calm = @ /\ work = req[i].tree /\ Top = req[i].base],
       req[i].base = req[i].head)

(* A package of this commit is answered again; two of them are an error.   *)
(* Pinning adds it to the pins as they are now, with the next commit.      *)
Look(i) ==
  LET existing == {p.id : p \in {q \in packages : q.commit = req[i].base}} IN
  Step(i, "walked",
       [req[i] EXCEPT !.pc = IF existing = {} THEN "fresh" ELSE "pinning",
                      !.pinning = pins \cup existing],
       \/ existing = {}
       \/ Cardinality(existing) = 1 /\ req[i].pin /\ req[i].turn # 0)

Pin(i) ==
  /\ At(i, "package", "pinning")
  /\ pins' = req[i].pinning
  /\ story' = [story EXCEPT !.late = @ \cup
       {p.id : p \in {q \in packages : q.commit = req[i].base /\ q.claims # req[i].claims}}]
  /\ Ends(i)
  /\ UNCHANGED <<tree, session, packages, share>>

(* The row that evidence.capture inserts; the last three fields are        *)
(* history.                                                                *)
Row(i) ==
  [id |-> i, commit |-> req[i].base, turn |-> req[i].turn,
   tree |-> req[i].tree, calm |-> req[i].calm, claims |-> req[i].claims,
   beside |-> {j \in Flying({"package"}) \ {i} : req[j].pc = "fresh"}]

(* A baseline that was to be pinned is refused once it is captured, and    *)
(* the transaction takes the row with it.                                  *)
Store(i) ==
  LET refused == req[i].pin /\ req[i].turn = 0 IN
  /\ At(i, "package", "fresh")
  /\ packages' = IF refused THEN packages ELSE packages \cup {Row(i)}
  /\ pins' = IF req[i].pin /\ ~ refused THEN pins \cup {i} ELSE pins
  /\ Ends(i)
  /\ UNCHANGED <<tree, session, share, story>>

-----------------------------------------------------------------------------
\* The share link.

(* The route has the row; it drops the old bundle, mints a token and       *)
(* builds the new one, all before it awaits the version.                   *)
Publish(i) ==
  /\ At(i, "publish", "start")
  /\ disk' = (disk \ {link.token}) \cup {i}
  /\ req' = [req EXCEPT ![i].pc = "built", ![i].seen = link]
  /\ UNCHANGED <<tree, session, store, link, story>>

(* INSERT fails on the unique session_id, UPDATE on a row that is gone.    *)
(* `published` is written only by a request that had read it as false.     *)
PublishCommit(i) ==
  LET seen == req[i].seen
      lands == (seen = NoLink) = (link = NoLink)
  IN
  /\ At(i, "publish", "built")
  /\ link' = IF ~ lands THEN link
             ELSE [token |-> i, published |-> link.published \/ ~ seen.published]
  /\ story' = IF lands THEN [story EXCEPT !.orphans = @ \cup ({link.token} \ {seen.token})]
              ELSE [story EXCEPT !.orphans = @ \cup {i}, !.cut = @ \cup {seen.token}]
  /\ Ends(i)
  /\ UNCHANGED <<tree, session, store, disk>>

Revoke(i) ==
  /\ At(i, "revoke", "start")
  /\ disk' = disk \ {link.token}
  /\ IF link = NoLink THEN Ends(i)
     ELSE req' = [req EXCEPT ![i].pc = "revoking", ![i].seen = link]
  /\ UNCHANGED <<tree, session, store, link, story>>

\* Mutant: the route removes the bundle and leaves the flag.
RevokeCommitUnflagged(i) ==
  /\ At(i, "revoke", "revoking")
  /\ link' = [link EXCEPT !.token = IF req[i].seen.token = 0 THEN @ ELSE 0]
  /\ story' = [story EXCEPT !.down = Flying({"publish"}) = {}]
  /\ Ends(i)
  /\ UNCHANGED <<tree, session, store, disk>>
RevokeCommit(i) ==
  LET seen == req[i].seen IN
  /\ At(i, "revoke", "revoking")
  /\ link' = IF link = NoLink THEN link
             ELSE [published |-> link.published /\ ~ seen.published,
                   token |-> IF seen.token = 0 THEN link.token ELSE 0]
  /\ story' = [story EXCEPT !.down = Flying({"publish"}) = {} /\ seen.published,
                 !.orphans = @ \cup ({link.token} \ {seen.token}),
                 !.cut = @ \cup {0 : t \in {link.token} \ {seen.token}}]
  /\ Ends(i)
  /\ UNCHANGED <<tree, session, store, disk>>

(* delete_session: the bundle and the workspace first, then the rows it    *)
(* has loaded; nothing cascades from the session to an Artifact.           *)
Delete(i) ==
  /\ At(i, "delete", "start")
  /\ disk' = disk \ {link.token}
  /\ work' = Empty /\ repo' = FALSE
  /\ req' = [req EXCEPT ![i].pc = "deleting", ![i].seen = link]
  /\ story' = [story EXCEPT !.strays = @ \cup Flying({"publish"})]
  /\ UNCHANGED <<index, commits, author, session, store, link>>

DeleteCommit(i) ==
  /\ At(i, "delete", "deleting")
  /\ session' = FALSE
  /\ link' = IF req[i].seen = NoLink THEN link ELSE NoLink
  /\ story' = [story EXCEPT !.orphans = @ \cup
       (IF req[i].seen = NoLink THEN {} ELSE {link.token} \ {req[i].seen.token})]
  /\ Ends(i)
  /\ UNCHANGED <<tree, store, disk>>

(* The process dies with every request in it. *)
Crash ==
  LET cut == Flying(Kinds) IN
  /\ cut # {}
  /\ req' = [i \in DOMAIN req |->
       IF i \in cut THEN [Over(req[i]) EXCEPT !.failed = req[i].kind \in Writers] ELSE req[i]]
  /\ story' = [story EXCEPT
       !.cut = @ \cup {req[i].seen.token : i \in cut},
       !.orphans = @ \cup {i \in cut : req[i].kind = "publish"}]
  /\ UNCHANGED <<tree, session, store, share>>

Next ==
  \/ \E kind \in Kinds \ {"package", "restore"} : Arrive(kind, FALSE, FALSE, 0)
  \/ \E allow, pin \in BOOLEAN : (allow \/ pin) /\ Arrive("package", allow, pin, 0)
  \/ \E version \in DOMAIN commits : Arrive("restore", FALSE, FALSE, version)
  \/ \E i \in DOMAIN req :
       \/ \E f \in Files : \/ Edit(i, f) \/ Upload(i, f)
                          \/ UploadRefused(i, f) \/ ImportRefused(i, f)
       \/ \E escaped \in BOOLEAN : Record(i, escaped)
       \/ Fail(i) \/ Stage(i) \/ Diff(i) \/ Commit(i) \/ Name(i) \/ NoRepo(i)
       \/ ReadTree(i) \/ Checkout(i) \/ Clean(i)
       \/ ReadHead(i) \/ Attribute(i) \/ ReadBase(i) \/ Status(i) \/ Walk(i)
       \/ Look(i) \/ Pin(i) \/ Store(i)
       \/ Publish(i) \/ PublishCommit(i) \/ Revoke(i) \/ RevokeCommit(i)
       \/ Delete(i) \/ DeleteCommit(i)
  \/ Crash

Spec == Init /\ [][Next]_vars

-----------------------------------------------------------------------------
\* What the session's outlets promise.

(* packaging.py: the manifest's commit describes the files it hashes, the  *)
(* turn it names produced that commit and did not escape the workspace,    *)
(* one commit has one package, and what is pinned to a work item is        *)
(* delivered work.  Excused are only a tree or a HEAD that moved while the *)
(* package was being built, a turn beside another writer, which may take   *)
(* that writer's version for its own, two packagings that both found none, *)
(* and a baseline pinned by a packaging that had seen other turns claim    *)
(* the commit than the baseline's own had.                                 *)
PackagesAreTrue ==
  /\ \A p \in packages :
       /\ p.calm => p.tree = commits[p.commit].tree
       /\ p.turn # 0 => /\ ~ req[p.turn].failed /\ ~ req[p.turn].escaped
                        /\ req[p.turn].calm => commits[p.commit].by = p.turn
  /\ \A p, q \in packages :
       p.commit = q.commit /\ p # q => p.id \in q.beside \/ q.id \in p.beside
  /\ \A p \in packages :
       p.id \in pins => p.turn # 0 \/ p.id \in story.late

(* restore_version: a restore beside no other writer of the workspace      *)
(* leaves a version equal to its target, and discards no edit but those    *)
(* left uncommitted by a failed request or by one beside another writer.   *)
RestoresAreExact ==
  \A i \in DOMAIN req :
    req[i].kind = "restore" /\ req[i].pc = "over" /\ req[i].calm =>
      /\ req[i].exact
      /\ \A e \in req[i].lost : req[author[e]].failed \/ ~ req[author[e]].calm

(* serve_share answers with the bundle. *)
Served(t) == link.published /\ link.token = t /\ t \in disk

(* The share link: a published row is served unless a request that    *)
(* removed it is under way or was cut; a bundle on disk has its row unless *)
(* overlapping requests or a crash took it away; after a revoke with no    *)
(* publish beside it nothing is served until the next publish; and only a  *)
(* publish beside the deletion leaves a link that outlives its session.    *)
SharesAreAccounted ==
  /\ link.published => \/ Served(link.token) \/ link.token \in story.cut
                       \/ \E i \in Flying({"publish", "revoke", "delete"}) :
                            req[i].seen.token = link.token
  /\ \A t \in disk \ (story.orphans \cup {link.token}) : At(t, "publish", "built")
  /\ story.down => ~ link.published
  /\ ~ session /\ link # NoLink => link.token \in story.strays \cup {0}
=============================================================================
