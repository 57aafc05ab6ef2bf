---------------------------- MODULE DeliveryProofs ----------------------------
(***************************************************************************)
(* Theorems about Delivery for every set of files and any number of        *)
(* requests and edits: its types, that the packages say the truth, that    *)
(* restores are exact and that the share link is accounted for.            *)
(***************************************************************************)
EXTENDS Delivery, SequenceTheorems, FiniteSetTheorems, TLAPS

-----------------------------------------------------------------------------
(* Facts about numbers and sequences.                                      *)

LEMMA LeastOf ==
  ASSUME NEW S \in SUBSET Nat, S # {}
  PROVE  \E x \in S : \A y \in S : x <= y
<1>1. PICK x \in S : \A y \in S : ~ (<<y, x>> \in OpToRel(<, Nat))
  BY NatLessThanWellFounded, WFMin
<1>2. \A y \in S : ~ (y < x)
  BY <1>1 DEF OpToRel
<1> QED BY <1>2

\* The greatest number of a bounded set is what Max says.
LEMMA MaxOf ==
  ASSUME NEW n \in Nat, NEW S \in SUBSET (0 .. n), S # {}
  PROVE  Max(S) \in S /\ \A y \in S : y <= Max(S)
<1> DEFINE T == {k \in Nat : \E y \in S : k = n - y}
<1>1. T \in SUBSET Nat /\ T # {}
  <2>1. PICK y \in S : TRUE
    OBVIOUS
  <2>2. n - y \in T
    BY <2>1
  <2> QED BY <2>2
<1>2. PICK k \in T : \A l \in T : k <= l
  BY <1>1, LeastOf
<1>3. PICK x \in S : k = n - x
  BY <1>2
<1>4. \A y \in S : y <= x
  <2> TAKE y \in S
  <2>1. n - y \in T
    OBVIOUS
  <2> QED BY <1>2, <1>3, <2>1
<1>5. \E z \in S : \A y \in S : z >= y
  BY <1>4
<1> HIDE DEF T
<1> QED BY <1>5 DEF Max

\* A sequence with one element replaced.
LEMMA SetOne ==
  ASSUME NEW S, NEW s \in Seq(S), NEW i \in DOMAIN s, NEW x \in S
  PROVE  /\ [s EXCEPT ![i] = x] \in Seq(S)
         /\ Len([s EXCEPT ![i] = x]) = Len(s)
  BY ExceptSeq, LenProperties

-----------------------------------------------------------------------------
(* Types.                                                                  *)

Pcs == {"start", "written", "staged", "differs", "committed", "named",
        "read", "out", "cleaned",
        "headed", "judged", "based", "clean", "walked", "fresh", "pinning",
        "built", "revoking", "deleting", "over"}

Reqs == [kind : Kinds, pc : Pcs, allow : BOOLEAN, pin : BOOLEAN, failed : BOOLEAN,
         escaped : BOOLEAN, head : Nat, base : Nat, turn : Requests \cup {0},
         tree : Trees, calm : BOOLEAN, exact : BOOLEAN, lost : SUBSET Nat,
         seen : Links, claims : SUBSET Requests, pinning : SUBSET Requests]
Versions == [tree : Trees, by : Requests \cup {0}]
Rows == [id : Requests, commit : Nat, turn : Requests \cup {0}, tree : Trees,
         calm : BOOLEAN, claims : SUBSET Requests, beside : SUBSET Requests]
Ids == {p.id : p \in packages}
Tokens == Requests \cup {0, -1}

Types ==
  /\ req \in Seq(Reqs) /\ Len(req) <= MaxRequests
  /\ \A i \in DOMAIN req :
       /\ req[i].head \in 0 .. Len(commits) /\ req[i].base \in 0 .. Len(commits)
       /\ req[i].pinning \subseteq Ids
       /\ req[i].pc \in {"staged", "differs"} => req[i].kind \in Writers
       /\ req[i].kind = "restore" => req[i].base >= 1
  /\ work \in Trees /\ index \in Trees
  /\ commits \in Seq(Versions) /\ Len(commits) >= 1
  /\ author \in Seq(Requests) /\ Len(author) <= MaxEdits
  /\ repo \in BOOLEAN /\ session \in BOOLEAN
  /\ packages \subseteq Rows /\ pins \subseteq Ids
  /\ link \in Links /\ disk \subseteq Requests
  /\ story \in [down : BOOLEAN, cut : SUBSET Tokens, orphans : SUBSET Tokens,
                strays : SUBSET Requests, late : SUBSET Requests]

LEMMA Elements ==
  ASSUME Types
  PROVE  /\ Len(req) \in Nat /\ DOMAIN req = 1 .. Len(req)
         /\ \A i \in DOMAIN req : req[i] \in Reqs
         /\ Top \in Nat /\ DOMAIN commits = 1 .. Top
         /\ \A c \in DOMAIN commits : commits[c] \in Versions
         /\ Len(author) \in Nat /\ DOMAIN author = 1 .. Len(author)
         /\ \A e \in DOMAIN author : author[e] \in Requests
<1>1. req \in Seq(Reqs) /\ commits \in Seq(Versions) /\ author \in Seq(Requests)
  BY DEF Types
<1>2. /\ Len(req) \in Nat /\ DOMAIN req = 1 .. Len(req)
      /\ \A i \in DOMAIN req : req[i] \in Reqs
  BY <1>1, LenProperties, ElementOfSeq
<1>3. /\ Top \in Nat /\ DOMAIN commits = 1 .. Top
      /\ \A c \in DOMAIN commits : commits[c] \in Versions
  BY <1>1, LenProperties, ElementOfSeq DEF Top
<1>4. /\ Len(author) \in Nat /\ DOMAIN author = 1 .. Len(author)
      /\ \A e \in DOMAIN author : author[e] \in Requests
  BY <1>1, LenProperties, ElementOfSeq
<1> QED BY <1>2, <1>3, <1>4

LEMMA TypesGiveTypeOK == Types => TypeOK
<1> SUFFICES ASSUME Types PROVE TypeOK
  OBVIOUS
<1>2. \A i \in DOMAIN req : DOMAIN req[i] = DOMAIN Blank
  BY Elements DEF Reqs, Blank
<1>3. \A c \in DOMAIN commits : commits[c].tree \in Trees
  BY Elements DEF Versions
<1>4. commits # <<>>
  BY EmptySeq DEF Types
<1>5. \A i \in DOMAIN req :
        req[i].kind \in Kinds /\ req[i].tree \in Trees /\ req[i].seen \in Links
  BY Elements DEF Reqs
<1> QED BY <1>2, <1>3, <1>4, <1>5 DEF Types, TypeOK, Ids

(* What a step may do to the requests.                                     *)

Writing(i) ==
  \/ \E f \in Files : \/ Edit(i, f) \/ Upload(i, f)
                      \/ UploadRefused(i, f) \/ ImportRefused(i, f)
  \/ \E escaped \in BOOLEAN : Record(i, escaped)
  \/ Fail(i) \/ Stage(i) \/ Diff(i) \/ Commit(i) \/ Name(i) \/ NoRepo(i)
  \/ ReadTree(i) \/ Checkout(i) \/ Clean(i)
Packing(i) ==
  \/ ReadHead(i) \/ Attribute(i) \/ ReadBase(i) \/ Status(i) \/ Walk(i)
  \/ Look(i) \/ Pin(i) \/ Store(i)
Linking(i) ==
  \/ Publish(i) \/ PublishCommit(i) \/ Revoke(i) \/ RevokeCommit(i)
  \/ Delete(i) \/ DeleteCommit(i)
Arrives(kind, allow, pin, version) ==
  /\ kind \in Kinds /\ allow \in BOOLEAN /\ pin \in BOOLEAN
  /\ version \in 0 .. Top /\ (kind = "restore" => version \in 1 .. Top)
  /\ Arrive(kind, allow, pin, version)

LEMMA StepCases ==
  ASSUME Types, Next
  PROVE  \/ \E kind, allow, pin, version : Arrives(kind, allow, pin, version)
         \/ \E i \in DOMAIN req : Writing(i) \/ Packing(i) \/ Linking(i)
         \/ Crash
<1>1. /\ 0 \in 0 .. Top /\ FALSE \in BOOLEAN /\ "package" \in Kinds /\ "restore" \in Kinds
      /\ \A version \in DOMAIN commits : version \in 0 .. Top /\ version \in 1 .. Top
  BY Elements DEF Kinds
<1>2. ASSUME NEW kind \in Kinds \ {"package", "restore"}, Arrive(kind, FALSE, FALSE, 0)
      PROVE  Arrives(kind, FALSE, FALSE, 0)
  BY <1>1, <1>2, Zenon DEF Arrives
<1>3. ASSUME NEW allow \in BOOLEAN, NEW pin \in BOOLEAN, Arrive("package", allow, pin, 0)
      PROVE  Arrives("package", allow, pin, 0)
  BY <1>1, <1>3, Zenon DEF Arrives
<1>4. ASSUME NEW version \in DOMAIN commits, Arrive("restore", FALSE, FALSE, version)
      PROVE  Arrives("restore", FALSE, FALSE, version)
  BY <1>1, <1>4, Zenon DEF Arrives
<1>5. CASE \E kind \in Kinds \ {"package", "restore"} : Arrive(kind, FALSE, FALSE, 0)
  BY <1>2, <1>5
<1>6. CASE \E allow, pin \in BOOLEAN : (allow \/ pin) /\ Arrive("package", allow, pin, 0)
  BY <1>3, <1>6
<1>7. CASE \E version \in DOMAIN commits : Arrive("restore", FALSE, FALSE, version)
  BY <1>4, <1>7
<1> QED BY <1>5, <1>6, <1>7, Zenon DEF Next, Writing, Packing, Linking

LEMMA BlankType == Blank \in Reqs
  BY DeliveryAssumption
  DEF Blank, Reqs, Pcs, Kinds, Links, NoLink, Requests, Trees, Empty

LEMMA OverType ==
  ASSUME NEW r \in Reqs
  PROVE  /\ Over(r) \in Reqs /\ Over(r).kind = r.kind /\ Over(r).pc = "over"
         /\ r.kind \in Writers => Over(r) = [r EXCEPT !.pc = "over"]
         /\ r.kind \notin Writers => Over(r) = [Blank EXCEPT !.kind = r.kind, !.pc = "over"]
<1>1. [Blank EXCEPT !.kind = r.kind] \in Reqs
  BY BlankType DEF Reqs
<1>2. \A q \in Reqs : [q EXCEPT !.pc = "over"] \in Reqs
  BY DEF Reqs, Pcs
<1> QED BY <1>1, <1>2, BlankType DEF Over, Reqs

\* What no step of a request changes of it.
Keeps(r, i) ==
  /\ r.kind = req[i].kind /\ r.base = req[i].base /\ r.seen = req[i].seen
  /\ r.calm = req[i].calm /\ r.pinning = req[i].pinning

\* A step of a request that writes the workspace.
LEMMA WriterMoves ==
  ASSUME Types, NEW i \in DOMAIN req, Writing(i)
  PROVE  /\ req[i].kind \in Writers /\ req[i].pc # "over"
         /\ \E r \in Reqs : /\ req' = [req EXCEPT ![i] = r] /\ Keeps(r, i)
                            /\ r.head \in {req[i].head, Top}
         /\ UNCHANGED <<repo, session, store, share, story>>
         /\ work' \in Trees /\ index' \in Trees
         /\ \/ author' = author
            \/ Len(author) < MaxEdits /\ author' = Append(author, i)
         /\ commits' = commits \/ \E c \in Versions : commits' = Append(commits, c)
<1> DEFINE q == req[i]
<1>0. /\ q \in Reqs /\ Top \in Nat /\ work \in Trees /\ index \in Trees /\ Len(author) \in Nat
      /\ \A c \in DOMAIN commits : commits[c].tree \in Trees
      /\ q.pc \in {"staged", "differs"} => q.kind \in Writers
      /\ MaxEdits \in Nat /\ i \in Requests
      /\ Top \in DOMAIN commits /\ (q.kind = "restore" => q.base \in DOMAIN commits)
  BY Elements, DeliveryAssumption DEF Types, Versions, Requests, Top
<1>1. \A pc \in Pcs :
        /\ [q EXCEPT !.pc = pc] \in Reqs
        /\ \A b \in BOOLEAN : [q EXCEPT !.pc = pc, !.failed = b] \in Reqs
        /\ \A b \in BOOLEAN : [q EXCEPT !.pc = pc, !.escaped = b] \in Reqs
        /\ \A b \in BOOLEAN : [q EXCEPT !.pc = pc, !.exact = b] \in Reqs
        /\ [q EXCEPT !.pc = pc, !.head = Top] \in Reqs
        /\ \A L \in SUBSET Nat : [q EXCEPT !.pc = pc, !.lost = L] \in Reqs
  <2> TAKE pc \in Pcs
  <2>1. [q EXCEPT !.pc = pc] \in Reqs
    BY <1>0 DEF Reqs
  <2>2. \A b \in BOOLEAN : [q EXCEPT !.pc = pc, !.failed = b] \in Reqs
    BY <1>0 DEF Reqs
  <2>3. \A b \in BOOLEAN : [q EXCEPT !.pc = pc, !.escaped = b] \in Reqs
    BY <1>0 DEF Reqs
  <2>4. \A b \in BOOLEAN : [q EXCEPT !.pc = pc, !.exact = b] \in Reqs
    BY <1>0 DEF Reqs
  <2>5. [q EXCEPT !.pc = pc, !.head = Top] \in Reqs
    BY <1>0 DEF Reqs
  <2>6. \A L \in SUBSET Nat : [q EXCEPT !.pc = pc, !.lost = L] \in Reqs
    BY <1>0 DEF Reqs
  <2> QED BY <2>1, <2>2, <2>3, <2>4, <2>5, <2>6
<1>p. /\ "written" \in Pcs /\ "staged" \in Pcs /\ "named" \in Pcs /\ "read" \in Pcs
      /\ "out" \in Pcs /\ "cleaned" \in Pcs /\ "over" \in Pcs /\ TRUE \in BOOLEAN
  BY DEF Pcs
<1> DEFINE Moved(r) == /\ req' = [req EXCEPT ![i] = r] /\ Keeps(r, i)
                       /\ r.head \in {req[i].head, Top}
<1>k. /\ Keeps(q, i) /\ q.head \in {q.head, Top}
      /\ \A pc \in Pcs :
           /\ Keeps([q EXCEPT !.pc = pc], i) /\ [q EXCEPT !.pc = pc].head = q.head
           /\ \A b \in BOOLEAN :
                /\ Keeps([q EXCEPT !.pc = pc, !.failed = b], i)
                /\ [q EXCEPT !.pc = pc, !.failed = b].head = q.head
                /\ Keeps([q EXCEPT !.pc = pc, !.escaped = b], i)
                /\ [q EXCEPT !.pc = pc, !.escaped = b].head = q.head
                /\ Keeps([q EXCEPT !.pc = pc, !.exact = b], i)
                /\ [q EXCEPT !.pc = pc, !.exact = b].head = q.head
           /\ Keeps([q EXCEPT !.pc = pc, !.head = Top], i)
           /\ [q EXCEPT !.pc = pc, !.head = Top].head = Top
           /\ \A L \in SUBSET Nat : /\ Keeps([q EXCEPT !.pc = pc, !.lost = L], i)
                                  /\ [q EXCEPT !.pc = pc, !.lost = L].head = q.head
  BY <1>0 DEF Reqs, Keeps
<1>2. ASSUME NEW f \in Files, Write(i, f)
      PROVE  /\ work' \in Trees /\ index' = index /\ commits' = commits
             /\ Len(author) < MaxEdits /\ author' = Append(author, i)
             /\ UNCHANGED <<repo, session, store, share, story>>
  <2>1. /\ work' = [work EXCEPT ![f] = Len(author) + 1] /\ author' = Append(author, i)
        /\ Len(author) < MaxEdits
        /\ UNCHANGED <<index, commits, repo, session, store, share, story>>
    BY <1>2, Zenon DEF Write
  <2>3. Len(author) + 1 \in 0 .. MaxEdits
    BY <1>0, <2>1
  <2>2. work' \in Trees
    BY <1>0, <2>1, <2>3 DEF Trees
  <2> QED BY <2>1, <2>2
<1>3. CASE \E f \in Files : Edit(i, f)
  <2>1. PICK f \in Files : Edit(i, f)
    BY <1>3
  <2>2. req' = [req EXCEPT ![i] = q] /\ q.kind = "turn" /\ q.pc = "start"
    <3>1. req \in [1 .. Len(req) -> Reqs]
      BY LenProperties DEF Types
    <3>2. req = [req EXCEPT ![i] = req[i]]
      BY <3>1
    <3> QED BY <2>1, <3>2 DEF Edit, At
  <2>3. Moved(q) /\ q \in Reqs
    BY <1>0, <1>k, <2>2
  <2> QED BY <1>0, <1>2, <2>1, <2>2, <2>3 DEF Edit, Writers
<1>4. CASE \E f \in Files : Upload(i, f)
  <2>1. PICK f \in Files : Upload(i, f)
    BY <1>4
  <2>2. req' = [req EXCEPT ![i] = [q EXCEPT !.pc = "written"]] /\ q.kind = "upload" /\ q.pc = "start"
    BY <2>1 DEF Upload, At, Goes
  <2>3. Moved([q EXCEPT !.pc = "written"]) /\ [q EXCEPT !.pc = "written"] \in Reqs
    BY <1>1, <1>p, <1>k, <2>2
  <2> QED BY <1>0, <1>2, <2>1, <2>2, <2>3 DEF Upload, Writers
<1>5. CASE \E f \in Files : UploadRefused(i, f)
  <2>1. PICK f \in Files : UploadRefused(i, f)
    BY <1>5
  <2>2. /\ req' = [req EXCEPT ![i] = [q EXCEPT !.pc = "over", !.failed = TRUE]]
        /\ q.kind = "upload" /\ q.pc = "start"
    BY <2>1 DEF UploadRefused, At
  <2>3. /\ UNCHANGED <<index, commits, author, repo, session, store, share, story>>
        /\ work' = [work EXCEPT ![f] = 0]
    BY <2>1 DEF UploadRefused
  <2>4. work' \in Trees
    BY <1>0, <2>3 DEF Trees
  <2>5. Moved([q EXCEPT !.pc = "over", !.failed = TRUE])
        /\ [q EXCEPT !.pc = "over", !.failed = TRUE] \in Reqs
    BY <1>1, <1>p, <1>k, <2>2
  <2> QED BY <1>0, <2>2, <2>3, <2>4, <2>5 DEF Writers
<1>6. CASE \E f \in Files : ImportRefused(i, f)
  <2>1. PICK f \in Files : ImportRefused(i, f)
    BY <1>6
  <2>2. /\ req' = [req EXCEPT ![i] = [q EXCEPT !.pc = "over", !.failed = TRUE]]
        /\ q.kind = "upload" /\ q.pc = "start"
    BY <2>1 DEF ImportRefused, At
  <2>5. Moved([q EXCEPT !.pc = "over", !.failed = TRUE])
        /\ [q EXCEPT !.pc = "over", !.failed = TRUE] \in Reqs
    BY <1>1, <1>p, <1>k, <2>2
  <2> QED BY <1>0, <1>2, <2>1, <2>2, <2>5 DEF ImportRefused, Writers
<1>7. CASE \E escaped \in BOOLEAN : Record(i, escaped)
  <2>1. PICK escaped \in BOOLEAN : Record(i, escaped)
    BY <1>7
  <2>2. /\ req' = [req EXCEPT ![i] = [q EXCEPT !.pc = "over", !.escaped = escaped]]
        /\ q.kind = "turn" /\ q.pc = "named"
        /\ UNCHANGED <<tree, session, store, share, story>>
    BY <2>1 DEF Record, At
  <2>3. Moved([q EXCEPT !.pc = "over", !.escaped = escaped])
        /\ [q EXCEPT !.pc = "over", !.escaped = escaped] \in Reqs
    BY <1>1, <1>p, <1>k, <2>2
  <2> QED BY <1>0, <2>2, <2>3 DEF tree, Writers
<1>8. CASE Fail(i)
  <2>2. /\ req' = [req EXCEPT ![i] = [q EXCEPT !.pc = "over", !.failed = TRUE]]
        /\ q.kind = "turn" /\ q.pc = "start"
        /\ UNCHANGED <<tree, session, store, share, story>>
    BY <1>8 DEF Fail, At
  <2>3. Moved([q EXCEPT !.pc = "over", !.failed = TRUE])
        /\ [q EXCEPT !.pc = "over", !.failed = TRUE] \in Reqs
    BY <1>1, <1>p, <1>k, <2>2
  <2> QED BY <1>0, <2>2, <2>3 DEF tree, Writers
<1>9. CASE Stage(i)
  <2>2. /\ req' = [req EXCEPT ![i] = [q EXCEPT !.pc = "staged"]]
        /\ q.kind \in Writers /\ q.pc # "over"
        /\ index' = work /\ UNCHANGED <<work, commits, author, repo, session, store, share, story>>
    BY <1>9 DEF Stage, At, Goes, Writers
  <2>3. Moved([q EXCEPT !.pc = "staged"]) /\ [q EXCEPT !.pc = "staged"] \in Reqs
    BY <1>1, <1>p, <1>k, <2>2
  <2> QED BY <1>0, <2>2, <2>3
<1>10. CASE Diff(i)
  <2>2. /\ q.pc = "staged" /\ q.kind \in Writers
        /\ UNCHANGED <<work, index, commits, author, repo, session, store, share, story>>
    BY <1>0, <1>10 DEF Diff
  <2>3. \E pc \in Pcs, b \in BOOLEAN : req' = [req EXCEPT ![i] = [q EXCEPT !.pc = pc, !.exact = b]]
    <3> DEFINE pcD == IF index # commits[Top].tree THEN "differs"
                      ELSE IF q.kind = "turn" THEN "named" ELSE "over"
               ex == ~ (index # commits[Top].tree) => Exact(i)
    <3>1. req' = [req EXCEPT ![i] = [q EXCEPT !.pc = pcD, !.exact = ex]]
      BY <1>10 DEF Diff
    <3>2. pcD \in Pcs /\ ex \in BOOLEAN
      BY DEF Pcs
    <3> HIDE DEF pcD, ex
    <3> QED BY <3>1, <3>2
  <2>4. PICK pc \in Pcs, b \in BOOLEAN : Moved([q EXCEPT !.pc = pc, !.exact = b])
    BY <1>k, <2>3
  <2>5. [q EXCEPT !.pc = pc, !.exact = b] \in Reqs
    BY <1>1
  <2> QED BY <1>0, <2>2, <2>4, <2>5
<1>11. CASE Commit(i)
  <2>2. /\ q.pc = "differs" /\ q.kind \in Writers
        /\ UNCHANGED <<work, index, author, repo, session, store, share, story>>
    BY <1>0, <1>11 DEF Commit
  <2>3. \E pc \in Pcs, b \in BOOLEAN : req' = [req EXCEPT ![i] = [q EXCEPT !.pc = pc, !.exact = b]]
    <3> DEFINE pcD == IF q.kind = "turn" THEN "committed" ELSE "over"
               ex == Exact(i)
    <3>1. req' = [req EXCEPT ![i] = [q EXCEPT !.pc = pcD, !.exact = ex]]
      BY <1>11 DEF Commit
    <3>2. pcD \in Pcs /\ ex \in BOOLEAN
      BY DEF Pcs, Exact
    <3> HIDE DEF pcD, ex
    <3> QED BY <3>1, <3>2
  <2>4. commits' = commits \/ \E c \in Versions : commits' = Append(commits, c)
    <3> DEFINE c == [tree |-> index, by |-> IF q.kind = "turn" THEN i ELSE 0]
    <3>1. commits' = commits \/ commits' = Append(commits, c)
      BY <1>11 DEF Commit
    <3>2. c \in Versions
      BY <1>0 DEF Versions
    <3> HIDE DEF c
    <3> QED BY <3>1, <3>2
  <2>5. PICK pc \in Pcs, b \in BOOLEAN : Moved([q EXCEPT !.pc = pc, !.exact = b])
    BY <1>k, <2>3
  <2>6. [q EXCEPT !.pc = pc, !.exact = b] \in Reqs
    BY <1>1
  <2> QED BY <1>0, <2>2, <2>4, <2>5, <2>6
<1>12. CASE Name(i)
  <2>2. /\ req' = [req EXCEPT ![i] = [q EXCEPT !.pc = "named", !.head = Top]]
        /\ q.kind = "turn" /\ q.pc = "committed"
        /\ UNCHANGED <<tree, session, store, share, story>>
    BY <1>12 DEF Name, At
  <2>3. Moved([q EXCEPT !.pc = "named", !.head = Top])
        /\ [q EXCEPT !.pc = "named", !.head = Top] \in Reqs
    BY <1>1, <1>p, <1>k, <2>2
  <2> QED BY <1>0, <2>2, <2>3 DEF tree, Writers
<1>13. CASE NoRepo(i)
  <2>2. /\ req' = [req EXCEPT ![i] = [q EXCEPT !.pc = "over", !.failed = TRUE]]
        /\ q.kind \in Writers /\ q.pc # "over"
        /\ UNCHANGED <<tree, session, store, share, story>>
    BY <1>13 DEF NoRepo, Flying, Writers
  <2>3. Moved([q EXCEPT !.pc = "over", !.failed = TRUE])
        /\ [q EXCEPT !.pc = "over", !.failed = TRUE] \in Reqs
    BY <1>1, <1>p, <1>k, <2>2
  <2> QED BY <1>0, <2>2, <2>3 DEF tree
<1>14. CASE ReadTree(i)
  <2>2. /\ req' = [req EXCEPT ![i] = [q EXCEPT !.pc = "read"]]
        /\ q.kind = "restore" /\ q.pc = "start" /\ index' = commits[q.base].tree
        /\ UNCHANGED <<work, commits, author, repo, session, store, share, story>>
    BY <1>14 DEF ReadTree, At, Goes
  <2>3. Moved([q EXCEPT !.pc = "read"]) /\ [q EXCEPT !.pc = "read"] \in Reqs
    BY <1>1, <1>p, <1>k, <2>2
  <2> QED BY <1>0, <2>2, <2>3 DEF Writers
<1>15. ASSUME NEW S \in SUBSET Files, NEW pc \in Pcs, Replace(i, S, pc)
       PROVE  /\ \E r \in Reqs : Moved(r)
              /\ work' \in Trees
              /\ UNCHANGED <<index, commits, author, repo, session, store, share, story>>
  <2> DEFINE L == q.lost \cup Unversioned({work[f] : f \in {g \in S : index[g] # work[g]}})
  <2>1. /\ req' = [req EXCEPT ![i] = [q EXCEPT !.pc = pc, !.lost = L]]
        /\ work' = [f \in Files |-> IF f \in S THEN index[f] ELSE work[f]]
        /\ UNCHANGED <<index, commits, author, repo, session, store, share, story>>
    BY <1>15 DEF Replace
  <2>2. work' \in Trees
    BY <1>0, <2>1 DEF Trees
  <2>3. L \in SUBSET Nat
    BY <1>0 DEF Unversioned, Trees, Reqs
  <2> HIDE DEF L
  <2>4. Moved([q EXCEPT !.pc = pc, !.lost = L]) /\ [q EXCEPT !.pc = pc, !.lost = L] \in Reqs
    BY <1>1, <1>k, <2>1, <2>3
  <2> QED BY <2>1, <2>2, <2>4
<1>16. CASE Checkout(i)
  <2>1. /\ Replace(i, {f \in Files : index[f] # 0}, "out") /\ q.kind = "restore" /\ q.pc = "read"
        /\ repo' = repo
    BY <1>16 DEF Checkout, At, Replace
  <2> QED BY <1>0, <1>p, <1>15, <2>1 DEF Writers
<1>17. CASE Clean(i)
  <2>1. /\ Replace(i, {f \in Files : index[f] = 0}, "cleaned") /\ q.kind = "restore" /\ q.pc = "out"
    BY <1>17 DEF Clean, At
  <2> QED BY <1>0, <1>p, <1>15, <2>1 DEF Writers
<1> QED
  BY <1>3, <1>4, <1>5, <1>6, <1>7, <1>8, <1>9, <1>10, <1>11, <1>12, <1>13, <1>14, <1>16, <1>17
  DEF Writing

\* A step of a request that packages the workspace.
LEMMA PackageMoves ==
  ASSUME Types, NEW i \in DOMAIN req, Packing(i)
  PROVE  /\ req[i].kind = "package" /\ req[i].pc # "over"
         /\ \E r \in Reqs : /\ req' = [req EXCEPT ![i] = r] /\ r.kind = "package"
                            /\ r.head \in 0 .. Top /\ r.base \in 0 .. Top
                            /\ r.pinning \subseteq Ids /\ r.pc \notin {"staged", "differs"}
         /\ UNCHANGED <<tree, session, share>>
         /\ story' = [story EXCEPT !.late = story'.late] /\ story'.late \in SUBSET Requests
         /\ packages' = packages \/ (packages' = packages \cup {Row(i)} /\ Row(i) \in Rows)
         /\ pins' \subseteq Ids'
<1> DEFINE q == req[i]
<1>0. /\ q \in Reqs /\ Top \in Nat /\ work \in Trees /\ i \in Requests
      /\ q.head \in 0 .. Top /\ q.base \in 0 .. Top /\ q.pinning \subseteq Ids
      /\ packages \subseteq Rows /\ pins \subseteq Ids
      /\ Ids \subseteq Requests /\ DOMAIN req \subseteq Requests
  <2>1. packages \subseteq Rows /\ pins \subseteq Ids
    BY DEF Types
  <2>2. Ids \subseteq Requests
    BY <2>1 DEF Ids, Rows
  <2> QED BY <2>1, <2>2, Elements, DeliveryAssumption DEF Types, Requests, Top
<1>1. ASSUME NEW to \in Reqs, to.kind = "package"
      PROVE  /\ Over(to) \in Reqs /\ Over(to).kind = "package" /\ Over(to).pc = "over"
             /\ Over(to).head = 0 /\ Over(to).base = 0 /\ Over(to).pinning = {}
  <2>1. Blank.head = 0 /\ Blank.base = 0 /\ Blank.pinning = {}
    BY DEF Blank
  <2>2. Over(to) = [Blank EXCEPT !.kind = "package", !.pc = "over"]
    BY <1>1, OverType DEF Writers
  <2>3. Over(to) \in Reqs
    BY OverType
  <2> QED BY <2>1, <2>2, <2>3, BlankType DEF Reqs
<1> DEFINE Sound(r) == /\ r \in Reqs /\ r.kind = "package"
                       /\ r.head \in 0 .. Top /\ r.base \in 0 .. Top
                       /\ r.pinning \subseteq Ids /\ r.pc \notin {"staged", "differs"}
<1> DEFINE Plain == /\ q.kind = "package" /\ q.pc # "over"
                    /\ \E r : Sound(r) /\ req' = [req EXCEPT ![i] = r]
                    /\ UNCHANGED <<tree, session, share, packages, pins, story>>
<1>2. ASSUME NEW from, NEW to, NEW ok \in BOOLEAN, Step(i, from, to, ok), from # "over",
             q.kind = "package" => Sound(to)
      PROVE  Plain
  <2>1. /\ q.kind = "package" /\ q.pc = from
        /\ req' = [req EXCEPT ![i] = IF ok THEN to ELSE Over(to)]
        /\ UNCHANGED <<tree, session, share, packages, pins, story>>
    BY <1>2 DEF Step, At, store
  <2>2. Sound(to)
    BY <1>2, <2>1
  <2>3. Sound(Over(to))
    BY <1>0, <1>1, <2>2
  <2>4. CASE ok
    BY <1>2, <2>1, <2>2, <2>4
  <2>5. CASE ~ ok
    BY <1>2, <2>1, <2>3, <2>5
  <2> QED BY <2>4, <2>5
<1>3. CASE Plain
  <2>1. story' = [story EXCEPT !.late = story'.late] /\ story'.late \in SUBSET Requests
    BY <1>3 DEF Types
  <2>2. pins' \subseteq Ids'
    BY <1>0, <1>3 DEF Ids
  <2>3. \E r \in Reqs : /\ req' = [req EXCEPT ![i] = r] /\ r.kind = "package"
                       /\ r.head \in 0 .. Top /\ r.base \in 0 .. Top
                       /\ r.pinning \subseteq Ids /\ r.pc \notin {"staged", "differs"}
    BY <1>3
  <2> HIDE DEF Sound
  <2> QED BY <1>3, <2>1, <2>2, <2>3, Zenon
<1>4. CASE ReadHead(i)
  <2> DEFINE to == [q EXCEPT !.pc = "headed", !.head = Top]
  <2>1. Step(i, "start", to, repo) /\ repo \in BOOLEAN
    BY <1>4 DEF ReadHead, Types
  <2>3. to \in Reqs /\ to.kind = q.kind /\ to.pinning = q.pinning
        /\ to.pc \notin {"staged", "differs"}
    BY <1>0 DEF Reqs, Pcs
  <2>4. to.head \in 0 .. Top /\ to.base \in 0 .. Top
    BY <1>0 DEF Reqs
  <2>2. q.kind = "package" => Sound(to)
    BY <1>0, <2>3, <2>4
  <2> HIDE DEF to, Sound, Plain
  <2> QED BY <1>2, <1>3, <2>1, <2>2
<1>5. CASE Attribute(i)
  <2> DEFINE P == Producers(q.head)
             producing == Max(P \cup {0})
             turn == IF producing # 0 /\ ~ req[producing].escaped THEN producing ELSE 0
             to == [q EXCEPT !.pc = "judged", !.turn = turn, !.claims = P]
  <2>1. Step(i, "headed", to, turn # 0 \/ q.allow)
    BY <1>5 DEF Attribute
  <2>2. P \in SUBSET Requests /\ turn \in Requests \cup {0}
    <3>1. P \in SUBSET (0 .. MaxRequests) /\ P \in SUBSET Requests
      BY <1>0 DEF Producers, Requests
    <3>2. producing \in P \cup {0}
      <4>1. P \cup {0} \in SUBSET (0 .. MaxRequests) /\ P \cup {0} # {}
        BY <3>1, DeliveryAssumption
      <4> QED BY <4>1, MaxOf, DeliveryAssumption
    <3> QED BY <3>1, <3>2
  <2>3. (turn # 0 \/ q.allow) \in BOOLEAN
    BY <1>0 DEF Reqs
  <2> HIDE DEF P, turn
  <2>4. q.kind = "package" => Sound(to)
    BY <1>0, <2>2 DEF Reqs, Pcs
  <2> HIDE DEF to, Sound, Plain
  <2> QED BY <1>2, <1>3, <2>1, <2>3, <2>4
<1>6. CASE ReadBase(i)
  <2> DEFINE to == [q EXCEPT !.pc = "based", !.base = Top, !.tree = work]
  <2>1. Step(i, "judged", to, repo) /\ repo \in BOOLEAN
    BY <1>6 DEF ReadBase, Types
  <2>3. to \in Reqs /\ to.kind = q.kind /\ to.pinning = q.pinning
        /\ to.pc \notin {"staged", "differs"}
    BY <1>0 DEF Reqs, Pcs
  <2>4. to.head \in 0 .. Top /\ to.base \in 0 .. Top
    BY <1>0 DEF Reqs
  <2>2. q.kind = "package" => Sound(to)
    BY <1>0, <2>3, <2>4
  <2> HIDE DEF to, Sound, Plain
  <2> QED BY <1>2, <1>3, <2>1, <2>2
<1>7. CASE Status(i)
  <2> DEFINE calm == work = q.tree
             to == [q EXCEPT !.pc = "clean", !.calm = calm]
             ok == repo /\ work = index /\ index = commits[Top].tree
  <2>1. Step(i, "based", to, ok) /\ ok \in BOOLEAN /\ calm \in BOOLEAN
    BY <1>7 DEF Status, Types
  <2> HIDE DEF calm, ok
  <2>2. q.kind = "package" => Sound(to)
    BY <1>0, <2>1 DEF Reqs, Pcs
  <2> HIDE DEF to, Sound, Plain
  <2> QED BY <1>2, <1>3, <2>1, <2>2
<1>8. CASE Walk(i)
  <2> DEFINE calm == q.calm /\ work = q.tree /\ Top = q.base
             to == [q EXCEPT !.pc = "walked", !.tree = work, !.calm = calm]
             ok == q.base = q.head
  <2>1. Step(i, "clean", to, ok) /\ ok \in BOOLEAN /\ calm \in BOOLEAN
    BY <1>8 DEF Walk
  <2> HIDE DEF calm, ok
  <2>2. q.kind = "package" => Sound(to)
    BY <1>0, <2>1 DEF Reqs, Pcs
  <2> HIDE DEF to, Sound, Plain
  <2> QED BY <1>2, <1>3, <2>1, <2>2
<1>9. CASE Look(i)
  <2> DEFINE existing == {p.id : p \in {x \in packages : x.commit = q.base}}
             to == [q EXCEPT !.pc = IF existing = {} THEN "fresh" ELSE "pinning",
                             !.pinning = pins \cup existing]
             ok == \/ existing = {}
                   \/ Cardinality(existing) = 1 /\ q.pin /\ q.turn # 0
  <2>1. Step(i, "walked", to, ok) /\ ok \in BOOLEAN
    BY <1>9 DEF Look
  <2>2. pins \cup existing \subseteq Ids
    BY <1>0 DEF Ids
  <2> HIDE DEF existing, ok
  <2>3. q.kind = "package" => Sound(to)
    BY <1>0, <2>2 DEF Reqs, Pcs
  <2> HIDE DEF to, Sound, Plain
  <2> QED BY <1>2, <1>3, <2>1, <2>3
<1>10. CASE Pin(i)
  <2>1. /\ q.kind = "package" /\ q.pc = "pinning" /\ req' = [req EXCEPT ![i] = Over(q)]
        /\ pins' = q.pinning /\ UNCHANGED <<tree, session, packages, share>>
    BY <1>10 DEF Pin, At, Ends
  <2>2. Sound(Over(q))
    BY <1>0, <1>1, <2>1
  <2> DEFINE new == {p.id : p \in {x \in packages : x.commit = q.base /\ x.claims # q.claims}}
  <2>3. story' = [story EXCEPT !.late = story.late \cup new]
    BY <1>10 DEF Pin
  <2>4. new \subseteq Requests
    BY <1>0 DEF Rows
  <2> HIDE DEF new
  <2>5. story' = [story EXCEPT !.late = story'.late] /\ story'.late \in SUBSET Requests
    BY <2>3, <2>4 DEF Types
  <2>6. pins' \subseteq Ids'
    BY <1>0, <2>1 DEF Ids
  <2>8. \E r \in Reqs : /\ req' = [req EXCEPT ![i] = r] /\ r.kind = "package"
                       /\ r.head \in 0 .. Top /\ r.base \in 0 .. Top
                       /\ r.pinning \subseteq Ids /\ r.pc \notin {"staged", "differs"}
    BY <2>1, <2>2
  <2> HIDE DEF Sound
  <2> QED BY <2>1, <2>5, <2>6, <2>8, Zenon
<1>11. CASE Store(i)
  <2>1. /\ q.kind = "package" /\ q.pc = "fresh" /\ req' = [req EXCEPT ![i] = Over(q)]
        /\ UNCHANGED <<tree, session, share, story>>
        /\ \/ packages' = packages /\ pins' = pins
           \/ packages' = packages \cup {Row(i)} /\ pins' \subseteq pins \cup {i}
    BY <1>11 DEF Store, At, Ends
  <2>2. Sound(Over(q))
    BY <1>0, <1>1, <2>1
  <2>3. Row(i) \in Rows /\ Row(i).id = i
    BY <1>0 DEF Row, Rows, Flying, Reqs
  <2>5. story' = [story EXCEPT !.late = story'.late] /\ story'.late \in SUBSET Requests
    BY <2>1 DEF Types
  <2> HIDE DEF Sound
  <2>6. pins' \subseteq Ids'
    BY <1>0, <2>1, <2>3 DEF Ids
  <2>7. /\ packages' = packages \/ packages' = packages \cup {Row(i)}
        /\ UNCHANGED <<tree, session, share>>
    BY <2>1
  <2>8. \E r \in Reqs : /\ req' = [req EXCEPT ![i] = r] /\ r.kind = "package"
                       /\ r.head \in 0 .. Top /\ r.base \in 0 .. Top
                       /\ r.pinning \subseteq Ids /\ r.pc \notin {"staged", "differs"}
    BY <2>1, <2>2 DEF Sound
  <2> QED BY <2>1, <2>3, <2>5, <2>6, <2>7, <2>8
<1> QED BY <1>4, <1>5, <1>6, <1>7, <1>8, <1>9, <1>10, <1>11 DEF Packing

\* A step of a request about the share link.
LEMMA LinkMoves ==
  ASSUME Types, NEW i \in DOMAIN req, Linking(i)
  PROVE  /\ req[i].kind \in {"publish", "revoke", "delete"} /\ req[i].pc # "over"
         /\ \E r \in Reqs : /\ req' = [req EXCEPT ![i] = r] /\ r.kind = req[i].kind
                            /\ r.head \in 0 .. Top /\ r.base \in 0 .. Top
                            /\ r.pinning \subseteq Ids /\ r.pc \notin {"staged", "differs"}
         /\ UNCHANGED <<index, commits, author, store>>
         /\ work' \in Trees /\ repo' \in BOOLEAN /\ session' \in BOOLEAN
         /\ (UNCHANGED <<work, repo>> \/ (req[i].kind = "delete" /\ work' = Empty))
         /\ link' \in Links /\ disk' \subseteq Requests
         /\ story' \in [down : BOOLEAN, cut : SUBSET Tokens, orphans : SUBSET Tokens,
                        strays : SUBSET Requests, late : SUBSET Requests]
<1> DEFINE q == req[i]
           Sound(r) == /\ r \in Reqs /\ r.kind = q.kind
                       /\ r.head \in 0 .. Top /\ r.base \in 0 .. Top
                       /\ r.pinning \subseteq Ids /\ r.pc \notin {"staged", "differs"}
           Stories == [down : BOOLEAN, cut : SUBSET Tokens, orphans : SUBSET Tokens,
                       strays : SUBSET Requests, late : SUBSET Requests]
<1>0. /\ q \in Reqs /\ Top \in Nat /\ i \in Requests
      /\ q.head \in 0 .. Top /\ q.base \in 0 .. Top /\ q.pinning \subseteq Ids
      /\ work \in Trees /\ Empty \in Trees /\ repo \in BOOLEAN /\ session \in BOOLEAN
      /\ link \in Links /\ NoLink \in Links /\ disk \subseteq Requests /\ story \in Stories
      /\ \A kinds : Flying(kinds) \subseteq Requests
  <2>1. DOMAIN req \subseteq Requests
    BY Elements, DeliveryAssumption DEF Types, Requests
  <2>2. Empty \in Trees /\ NoLink \in Links
    BY DeliveryAssumption DEF Empty, Trees, NoLink, Links
  <2>3. /\ q.head \in 0 .. Top /\ q.base \in 0 .. Top /\ q.pinning \subseteq Ids
        /\ work \in Trees /\ repo \in BOOLEAN /\ session \in BOOLEAN
        /\ link \in Links /\ disk \subseteq Requests /\ story \in Stories
    BY DEF Types, Top
  <2> QED BY <2>1, <2>2, <2>3, Elements DEF Flying
<1>1. /\ q.kind \in {"publish", "revoke", "delete"} =>
           /\ Sound(Over(q))
           /\ \A pc \in {"built", "revoking", "deleting"}, l \in Links :
                Sound([q EXCEPT !.pc = pc, !.seen = l])
      /\ q.seen \in Links /\ q.seen.token \in Tokens /\ link.token \in Tokens
      /\ link.published \in BOOLEAN /\ q.seen.published \in BOOLEAN
  <2>1. Blank.head = 0 /\ Blank.base = 0 /\ Blank.pinning = {}
    BY DEF Blank
  <2>2. ASSUME q.kind \in {"publish", "revoke", "delete"}
        PROVE  Sound(Over(q))
    <3>1. Over(q) = [Blank EXCEPT !.kind = q.kind, !.pc = "over"] /\ Over(q) \in Reqs
      BY <1>0, <2>2, OverType DEF Writers
    <3> QED BY <1>0, <2>1, <3>1, BlankType DEF Reqs
  <2>3. ASSUME NEW pc \in {"built", "revoking", "deleting"}, NEW l \in Links
        PROVE  Sound([q EXCEPT !.pc = pc, !.seen = l])
    BY <1>0 DEF Reqs, Pcs
  <2>4. q.seen \in Links
    BY <1>0 DEF Reqs
  <2> QED BY <1>0, <2>2, <2>3, <2>4 DEF Links, Tokens
<1> HIDE DEF Sound
<1>s. \A S \in SUBSET Tokens :
        /\ [story EXCEPT !.orphans = story.orphans \cup S] \in Stories
        /\ \A C \in SUBSET Tokens :
             [story EXCEPT !.orphans = story.orphans \cup S, !.cut = story.cut \cup C] \in Stories
  BY <1>0
<1>2. CASE Publish(i)
  <2>1. /\ q.kind = "publish" /\ q.pc = "start"
        /\ req' = [req EXCEPT ![i] = [q EXCEPT !.pc = "built", !.seen = link]]
        /\ disk' = (disk \ {link.token}) \cup {i}
        /\ UNCHANGED <<tree, session, store, link, story>>
    BY <1>2 DEF Publish, At
  <2>2. Sound([q EXCEPT !.pc = "built", !.seen = link])
    BY <1>0, <1>1, <2>1
  <2> QED BY <1>0, <2>1, <2>2 DEF tree, Sound
<1>3. CASE PublishCommit(i)
  <2> DEFINE lands == (q.seen = NoLink) = (link = NoLink)
  <2>1. /\ q.kind = "publish" /\ q.pc = "built"
        /\ req' = [req EXCEPT ![i] = Over(q)]
        /\ link' = IF ~ lands THEN link
                   ELSE [token |-> i, published |-> link.published \/ ~ q.seen.published]
        /\ story' = IF lands THEN [story EXCEPT !.orphans = @ \cup ({link.token} \ {q.seen.token})]
                    ELSE [story EXCEPT !.orphans = @ \cup {i}, !.cut = @ \cup {q.seen.token}]
        /\ UNCHANGED <<tree, session, store, disk>>
    BY <1>3 DEF PublishCommit, At, Ends
  <2> HIDE DEF lands
  <2>2. link' \in Links
    BY <1>0, <1>1, <2>1 DEF Links
  <2>3. story' \in Stories
    <3>1. /\ {link.token} \ {q.seen.token} \in SUBSET Tokens
          /\ {i} \in SUBSET Tokens /\ {q.seen.token} \in SUBSET Tokens
      BY <1>0, <1>1 DEF Tokens
    <3> HIDE DEF Stories
    <3> QED BY <1>s, <2>1, <3>1
  <2> QED BY <1>0, <1>1, <2>1, <2>2, <2>3 DEF tree, Sound
<1>4. CASE Revoke(i)
  <2>1. /\ q.kind = "revoke" /\ q.pc = "start"
        /\ \/ req' = [req EXCEPT ![i] = Over(q)]
           \/ req' = [req EXCEPT ![i] = [q EXCEPT !.pc = "revoking", !.seen = link]]
        /\ disk' = disk \ {link.token}
        /\ UNCHANGED <<tree, session, store, link, story>>
    BY <1>4 DEF Revoke, At, Ends
  <2>2. Sound([q EXCEPT !.pc = "revoking", !.seen = link]) /\ Sound(Over(q))
    BY <1>0, <1>1, <2>1
  <2> QED BY <1>0, <2>1, <2>2 DEF tree, Sound
<1>5. CASE RevokeCommit(i)
  <2>1. /\ q.kind = "revoke" /\ q.pc = "revoking"
        /\ req' = [req EXCEPT ![i] = Over(q)]
        /\ link' = IF link = NoLink THEN link
                   ELSE [published |-> link.published /\ ~ q.seen.published,
                         token |-> IF q.seen.token = 0 THEN link.token ELSE 0]
        /\ UNCHANGED <<tree, session, store, disk>>
    BY <1>5 DEF RevokeCommit, At, Ends
  <2>2. link' \in Links
    BY <1>0, <1>1, <2>1 DEF Links
  <2>3. story' \in Stories
    <3> DEFINE S == {link.token} \ {q.seen.token}
               C == {0 : t \in {link.token} \ {q.seen.token}}
               D == Flying({"publish"}) = {} /\ q.seen.published
    <3>1. S \in SUBSET Tokens /\ C \in SUBSET Tokens /\ D \in BOOLEAN
      BY <1>0, <1>1 DEF Tokens
    <3>2. story' = [story EXCEPT !.down = D, !.orphans = @ \cup S, !.cut = @ \cup C]
      BY <1>5 DEF RevokeCommit
    <3> HIDE DEF S, C, D
    <3> QED BY <1>0, <3>1, <3>2
  <2> QED BY <1>0, <1>1, <2>1, <2>2, <2>3 DEF tree, Sound
<1>6. CASE Delete(i)
  <2>1. /\ q.kind = "delete" /\ q.pc = "start"
        /\ req' = [req EXCEPT ![i] = [q EXCEPT !.pc = "deleting", !.seen = link]]
        /\ disk' = disk \ {link.token}
        /\ work' = Empty /\ repo' = FALSE
        /\ story' = [story EXCEPT !.strays = @ \cup Flying({"publish"})]
        /\ UNCHANGED <<index, commits, author, session, store, link>>
    BY <1>6 DEF Delete, At
  <2>2. Sound([q EXCEPT !.pc = "deleting", !.seen = link])
    BY <1>0, <1>1, <2>1
  <2>3. story' \in Stories
    BY <1>0, <2>1
  <2> QED BY <1>0, <2>1, <2>2, <2>3 DEF Sound
<1>7. CASE DeleteCommit(i)
  <2>1. /\ q.kind = "delete" /\ q.pc = "deleting"
        /\ req' = [req EXCEPT ![i] = Over(q)]
        /\ link' = link \/ link' = NoLink
        /\ session' = FALSE
        /\ UNCHANGED <<tree, store, disk>>
    BY <1>7 DEF DeleteCommit, At, Ends
  <2>2. story' \in Stories
    <3> DEFINE S == IF q.seen = NoLink THEN {} ELSE {link.token} \ {q.seen.token}
    <3>1. S \in SUBSET Tokens
      BY <1>1
    <3>2. story' = [story EXCEPT !.orphans = @ \cup S]
      BY <1>7 DEF DeleteCommit
    <3> HIDE DEF S, Stories
    <3> QED BY <1>s, <3>1, <3>2
  <2> QED BY <1>0, <1>1, <2>1, <2>2 DEF tree, Sound
<1> QED BY <1>2, <1>3, <1>4, <1>5, <1>6, <1>7 DEF Linking

LEMMA MoveOne ==
  ASSUME Types, NEW i \in DOMAIN req, NEW r \in Reqs, req' = [req EXCEPT ![i] = r]
  PROVE  /\ req' \in Seq(Reqs) /\ Len(req') = Len(req) /\ DOMAIN req' = DOMAIN req
         /\ req'[i] = r /\ \A j \in DOMAIN req : j # i => req'[j] = req[j]
<1>1. req \in Seq(Reqs)
  BY DEF Types
<1>2. req' \in Seq(Reqs) /\ Len(req') = Len(req)
  BY <1>1, SetOne
<1> QED BY <1>1, <1>2, LenProperties

\* The request that arrives, and what its arrival does to the ones before it.
Newcomer(kind, allow, pin, version) ==
  [Blank EXCEPT !.kind = kind, !.pc = "start", !.allow = allow, !.pin = pin,
                !.base = version, !.calm = Flying(Writers \cup {"delete"}) = {}]
Disturbed(kind, j) ==
  IF kind \in Writers \cup {"delete"} /\ j \in Flying(Writers)
  THEN [req[j] EXCEPT !.calm = FALSE] ELSE req[j]

LEMMA ArriveMoves ==
  ASSUME Types, NEW kind, NEW allow, NEW pin, NEW version, Arrives(kind, allow, pin, version)
  PROVE  /\ req' \in Seq(Reqs) /\ Len(req') = Len(req) + 1 /\ Len(req') <= MaxRequests
         /\ DOMAIN req' = DOMAIN req \cup {Len(req) + 1} /\ Len(req) + 1 \notin DOMAIN req
         /\ \A j \in DOMAIN req : req'[j] = Disturbed(kind, j)
         /\ req'[Len(req) + 1] = Newcomer(kind, allow, pin, version)
         /\ session /\ UNCHANGED <<tree, session, store, share>>
<1> DEFINE x == Newcomer(kind, allow, pin, version)
           s == [j \in DOMAIN req |-> Disturbed(kind, j)]
           N == Flying(Writers \cup {"delete"}) = {}
<1>1. x \in Reqs
  <2>1. /\ kind \in Kinds /\ allow \in BOOLEAN /\ pin \in BOOLEAN /\ version \in Nat
        /\ N \in BOOLEAN /\ "start" \in Pcs
    BY Elements DEF Arrives, Pcs
  <2>2. \A b \in BOOLEAN :
          [Blank EXCEPT !.kind = kind, !.pc = "start", !.allow = allow, !.pin = pin,
                        !.base = version, !.calm = b] \in Reqs
    BY <2>1, BlankType DEF Reqs
  <2> QED BY <2>1, <2>2 DEF Newcomer
<1>2. \A j \in DOMAIN req : Disturbed(kind, j) \in Reqs
  BY Elements DEF Disturbed, Reqs
<1>3. req \in Seq(Reqs) /\ Len(req) \in Nat /\ DOMAIN req = 1 .. Len(req)
  BY Elements DEF Types
<1>4. s \in Seq(Reqs) /\ Len(s) = Len(req)
  <2>1. s \in [1 .. Len(req) -> Reqs]
    BY <1>2, <1>3
  <2>2. s \in Seq(Reqs)
    BY <2>1, <1>3, SeqDef
  <2>3. DOMAIN s = 1 .. Len(s) /\ Len(s) \in Nat
    BY <2>2, LenProperties
  <2> QED BY <2>1, <2>2, <2>3, <1>3
<1>5. /\ req' = Append(s, x) /\ session /\ Len(req) < MaxRequests
      /\ UNCHANGED <<tree, session, store, share>>
  BY Zenon DEF Arrives, Arrive, Newcomer, Disturbed
<1> HIDE DEF x, s
<1>6. /\ Append(s, x) \in Seq(Reqs) /\ Len(Append(s, x)) = Len(s) + 1
      /\ \A j \in 1 .. Len(s) : Append(s, x)[j] = s[j]
      /\ Append(s, x)[Len(s) + 1] = x
  BY <1>1, <1>4, AppendProperties
<1>7. \A j \in DOMAIN req : s[j] = Disturbed(kind, j)
  BY DEF s
<1>8. DOMAIN req' = 1 .. Len(req) + 1
  BY <1>4, <1>5, <1>6, LenProperties
<1> QED BY <1>3, <1>4, <1>5, <1>6, <1>7, <1>8, DeliveryAssumption DEF x

LEMMA CrashMoves ==
  ASSUME Types, Crash
  PROVE  /\ req' \in Seq(Reqs) /\ Len(req') = Len(req) /\ DOMAIN req' = DOMAIN req
         /\ \A j \in DOMAIN req :
              req'[j] = IF req[j].pc # "over"
                        THEN [Over(req[j]) EXCEPT !.failed = req[j].kind \in Writers]
                        ELSE req[j]
         /\ \A j \in DOMAIN req : req'[j].kind = req[j].kind /\ req'[j].pc = "over"
         /\ UNCHANGED <<tree, session, store, share>>
<1> DEFINE Cut(j) == IF req[j].pc # "over"
                     THEN [Over(req[j]) EXCEPT !.failed = req[j].kind \in Writers] ELSE req[j]
<1>1. \A j \in DOMAIN req : Cut(j) \in Reqs /\ Cut(j).kind = req[j].kind /\ Cut(j).pc = "over"
  <2> SUFFICES ASSUME NEW j \in DOMAIN req
               PROVE  Cut(j) \in Reqs /\ Cut(j).kind = req[j].kind /\ Cut(j).pc = "over"
    OBVIOUS
  <2>1. req[j] \in Reqs /\ Over(req[j]) \in Reqs /\ Over(req[j]).kind = req[j].kind
        /\ Over(req[j]).pc = "over"
    BY Elements, OverType
  <2>2. \A r \in Reqs : \A b \in BOOLEAN :
          /\ [r EXCEPT !.failed = b] \in Reqs /\ [r EXCEPT !.failed = b].kind = r.kind
          /\ [r EXCEPT !.failed = b].pc = r.pc
    BY DEF Reqs
  <2>3. (req[j].kind \in Writers) \in BOOLEAN
    OBVIOUS
  <2> QED BY <2>1, <2>2, <2>3
<1>2. \A j \in DOMAIN req : j \in Flying(Kinds) <=> req[j].pc # "over"
  BY Elements DEF Flying, Reqs
<1>3. req' = [j \in DOMAIN req |-> Cut(j)] /\ UNCHANGED <<tree, session, store, share>>
  BY <1>2 DEF Crash
<1> HIDE DEF Cut
<1>4. Len(req) \in Nat /\ DOMAIN req = 1 .. Len(req)
  BY Elements
<1>5. req' \in [1 .. Len(req) -> Reqs]
  BY <1>1, <1>3, <1>4
<1>6. req' \in Seq(Reqs)
  BY <1>4, <1>5, SeqDef
<1>7. DOMAIN req' = 1 .. Len(req') /\ Len(req') \in Nat
  BY <1>6, LenProperties
<1>8. Len(req') = Len(req)
  BY <1>4, <1>5, <1>7
<1> QED BY <1>1, <1>3, <1>4, <1>6, <1>8 DEF Cut

\* Versions are only ever added.
LEMMA VersionsStay ==
  ASSUME Types, commits' = commits \/ \E c \in Versions : commits' = Append(commits, c)
  PROVE  /\ commits' \in Seq(Versions) /\ Top' \in Nat /\ Top <= Top' /\ Top >= 1
         /\ \A c \in 1 .. Top : commits'[c] = commits[c]
<1>1. commits \in Seq(Versions) /\ Top \in Nat /\ Top >= 1
  BY Elements DEF Types, Top
<1>2. CASE commits' = commits
  BY <1>1, <1>2 DEF Top
<1>3. CASE \E c \in Versions : commits' = Append(commits, c)
  BY <1>1, <1>3, AppendProperties DEF Top
<1> QED BY <1>2, <1>3

LEMMA InitTypes == Init => Types
<1> SUFFICES ASSUME Init PROVE Types
  OBVIOUS
<1>1. req = <<>> /\ req \in Seq(Reqs) /\ Len(req) = 0 /\ DOMAIN req = {}
  BY EmptySeq, LenProperties DEF Init
<1>2. author \in Seq(Requests) /\ Len(author) = 0
  BY EmptySeq DEF Init
<1>3. Empty \in Trees /\ NoLink \in Links
  BY DeliveryAssumption DEF Empty, Trees, NoLink, Links
<1>4. commits \in Seq(Versions) /\ Len(commits) = 1
  BY <1>3 DEF Init, Versions
<1>5. /\ work \in Trees /\ index \in Trees /\ repo = TRUE /\ session = TRUE
      /\ packages = {} /\ pins = {} /\ link \in Links /\ disk = {}
      /\ story = [down |-> FALSE, cut |-> {}, orphans |-> {}, strays |-> {}, late |-> {}]
  BY <1>3 DEF Init
<1> QED BY <1>1, <1>2, <1>4, <1>5, DeliveryAssumption DEF Types

LEMMA NextTypes ==
  ASSUME Types, [Next]_vars
  PROVE  Types'
<1> DEFINE ReqsSound == \A i \in DOMAIN req :
             /\ req[i].head \in 0 .. Len(commits) /\ req[i].base \in 0 .. Len(commits)
             /\ req[i].pinning \subseteq Ids
             /\ req[i].pc \in {"staged", "differs"} => req[i].kind \in Writers
             /\ req[i].kind = "restore" => req[i].base >= 1
           Stories == [down : BOOLEAN, cut : SUBSET Tokens, orphans : SUBSET Tokens,
                       strays : SUBSET Requests, late : SUBSET Requests]
<1>0. /\ ReqsSound /\ Top = Len(commits) /\ story \in Stories
      /\ packages \subseteq Rows /\ pins \subseteq Ids
      /\ link \in Links /\ disk \subseteq Requests
      /\ work \in Trees /\ index \in Trees /\ repo \in BOOLEAN /\ session \in BOOLEAN
      /\ commits \in Seq(Versions) /\ Len(commits) >= 1
      /\ author \in Seq(Requests) /\ Len(author) <= MaxEdits
  BY DEF Types, Top
<1>t. ASSUME ReqsSound', req' \in Seq(Reqs), Len(req') <= MaxRequests,
             work' \in Trees, index' \in Trees,
             commits' \in Seq(Versions), Len(commits') >= 1,
             author' \in Seq(Requests), Len(author') <= MaxEdits,
             repo' \in BOOLEAN, session' \in BOOLEAN,
             packages' \subseteq Rows, pins' \subseteq Ids',
             link' \in Links, disk' \subseteq Requests, story' \in Stories
      PROVE  Types'
  BY <1>t, Zenon DEF Types
<1>1. CASE \E kind, allow, pin, version : Arrives(kind, allow, pin, version)
  <2>1. PICK kind, allow, pin, version : Arrives(kind, allow, pin, version)
    BY <1>1
  <2> DEFINE n == Len(req) + 1
  <2>2. /\ req' \in Seq(Reqs) /\ Len(req') = n /\ Len(req') <= MaxRequests
        /\ DOMAIN req' = DOMAIN req \cup {n} /\ n \notin DOMAIN req
        /\ \A j \in DOMAIN req : req'[j] = Disturbed(kind, j)
        /\ req'[n] = Newcomer(kind, allow, pin, version)
        /\ UNCHANGED <<tree, session, store, share>>
    BY <2>1, ArriveMoves
  <2>3. UNCHANGED <<work, index, commits, author, repo, session, packages, pins, link, disk>>
    BY <2>2 DEF tree, store, share
  <2>4. ASSUME NEW j \in DOMAIN req
        PROVE  /\ req'[j].head = req[j].head /\ req'[j].base = req[j].base
               /\ req'[j].pinning = req[j].pinning /\ req'[j].pc = req[j].pc
               /\ req'[j].kind = req[j].kind
    BY <2>2, Elements DEF Disturbed, Reqs
  <2>5. /\ req'[n].head = 0 /\ req'[n].base = version /\ req'[n].pinning = {}
        /\ req'[n].pc = "start" /\ req'[n].kind = kind
    BY <2>2 DEF Newcomer, Blank
  <2>6. version \in 0 .. Top /\ (kind = "restore" => version \in 1 .. Top) /\ Top \in Nat
    BY <2>1, Elements DEF Arrives
  <2>7. ReqsSound'
    <3> SUFFICES ASSUME NEW j \in DOMAIN req'
                 PROVE  /\ req'[j].head \in 0 .. Len(commits) /\ req'[j].base \in 0 .. Len(commits)
                        /\ req'[j].pinning \subseteq Ids
                        /\ req'[j].pc \in {"staged", "differs"} => req'[j].kind \in Writers
                        /\ req'[j].kind = "restore" => req'[j].base >= 1
      BY <2>3 DEF Ids
    <3>1. CASE j = n
      BY <1>0, <2>5, <2>6, <3>1
    <3>2. CASE j \in DOMAIN req
      BY <1>0, <2>4, <3>2
    <3> QED BY <2>2, <3>1, <3>2
  <2>8. story' \in Stories
    <3>1. story' = story \/ \E S \in SUBSET {n} :
                              story' = [story EXCEPT !.down = FALSE, !.strays = @ \cup S]
      <4> DEFINE S == {i \in {n} : Flying({"delete"}) # {}}
      <4>1. story' = IF kind # "publish" THEN story
                     ELSE [story EXCEPT !.down = FALSE, !.strays = @ \cup S]
        BY <2>1 DEF Arrives, Arrive
      <4>2. S \in SUBSET {n}
        OBVIOUS
      <4> HIDE DEF S
      <4> QED BY <4>1, <4>2
    <3>2. n \in Requests
      BY <2>2, Elements, DeliveryAssumption DEF Requests
    <3> QED BY <1>0, <3>1, <3>2
  <2>9. Ids' = Ids
    BY <2>3 DEF Ids
  <2> QED BY <1>0, <1>t, <2>2, <2>3, <2>7, <2>8, <2>9, Zenon
<1>2. ASSUME NEW i \in DOMAIN req, NEW r \in Reqs, req' = [req EXCEPT ![i] = r],
             Len(commits') \in Nat, Top <= Len(commits'), Ids \subseteq Ids',
             /\ r.head \in 0 .. Top /\ r.base \in 0 .. Top
             /\ r.pinning \subseteq Ids /\ (r.pc \in {"staged", "differs"} => r.kind \in Writers)
             /\ r.kind = "restore" => r.base >= 1
      PROVE  ReqsSound' /\ req' \in Seq(Reqs) /\ Len(req') <= MaxRequests
  <2>1. /\ req' \in Seq(Reqs) /\ Len(req') = Len(req) /\ DOMAIN req' = DOMAIN req
        /\ req'[i] = r /\ \A j \in DOMAIN req : j # i => req'[j] = req[j]
    BY <1>2, MoveOne
  <2>2. Top \in Nat
    BY Elements
  <2>3. Len(req) <= MaxRequests
    BY DEF Types
  <2>4. ASSUME NEW j \in DOMAIN req
        PROVE  /\ req'[j].head \in 0 .. Len(commits') /\ req'[j].base \in 0 .. Len(commits')
               /\ req'[j].pinning \subseteq Ids'
               /\ req'[j].pc \in {"staged", "differs"} => req'[j].kind \in Writers
               /\ req'[j].kind = "restore" => req'[j].base >= 1
    <3>1. CASE j = i
      BY <1>2, <2>1, <2>2, <3>1
    <3>2. CASE j # i
      BY <1>0, <1>2, <2>1, <2>2, <3>2
    <3> QED BY <3>1, <3>2
  <2> QED BY <2>1, <2>3, <2>4 DEF Writers
<1>3. ASSUME NEW i \in DOMAIN req, Writing(i)
      PROVE  Types'
  <2>1. PICK r \in Reqs : /\ req' = [req EXCEPT ![i] = r] /\ Keeps(r, i)
                          /\ r.head \in {req[i].head, Top}
    BY <1>3, WriterMoves
  <2>2. /\ req[i].kind \in Writers
        /\ UNCHANGED <<repo, session, store, share, story>>
        /\ work' \in Trees /\ index' \in Trees
        /\ \/ author' = author
           \/ Len(author) < MaxEdits /\ author' = Append(author, i)
        /\ commits' = commits \/ \E c \in Versions : commits' = Append(commits, c)
    BY <1>3, WriterMoves
  <2>3. /\ commits' \in Seq(Versions) /\ Len(commits') \in Nat /\ Top <= Len(commits')
        /\ Top >= 1
    BY <2>2, VersionsStay DEF Top
  <2>4. UNCHANGED <<packages, pins, link, disk>> /\ Ids' = Ids
    BY <2>2 DEF store, share, Ids
  <2>5. author' \in Seq(Requests) /\ Len(author') <= MaxEdits
    <3>1. i \in Requests
      BY Elements, DeliveryAssumption DEF Types, Requests
    <3>2. CASE author' = author
      BY <1>0, <3>2
    <3>3. CASE Len(author) < MaxEdits /\ author' = Append(author, i)
      BY <1>0, <3>1, <3>3, AppendProperties, Elements, DeliveryAssumption
    <3> QED BY <2>2, <3>2, <3>3
  <2>6. ReqsSound' /\ req' \in Seq(Reqs) /\ Len(req') <= MaxRequests
    <3>1. /\ r.head \in 0 .. Top /\ r.base \in 0 .. Top /\ r.pinning \subseteq Ids
          /\ r.kind \in Writers /\ (r.kind = "restore" => r.base >= 1)
      BY <1>0, <2>1, <2>2, <2>3, Elements DEF Keeps
    <3> QED BY <1>2, <2>1, <2>3, <2>4, <3>1
  <2>7. Len(commits') >= 1
    BY <2>3, Elements
  <2> QED BY <1>0, <1>t, <2>2, <2>3, <2>4, <2>5, <2>6, <2>7, Zenon
<1>4. ASSUME NEW i \in DOMAIN req, Packing(i)
      PROVE  Types'
  <2>1. PICK r \in Reqs : /\ req' = [req EXCEPT ![i] = r] /\ r.kind = "package"
                          /\ r.head \in 0 .. Top /\ r.base \in 0 .. Top
                          /\ r.pinning \subseteq Ids /\ r.pc \notin {"staged", "differs"}
    BY <1>4, PackageMoves
  <2>2. /\ UNCHANGED <<tree, session, share>>
        /\ story' = [story EXCEPT !.late = story'.late] /\ story'.late \in SUBSET Requests
        /\ packages' = packages \/ (packages' = packages \cup {Row(i)} /\ Row(i) \in Rows)
        /\ pins' \subseteq Ids'
    BY <1>4, PackageMoves
  <2>3. UNCHANGED <<work, index, commits, author, repo, session, link, disk>>
    BY <2>2 DEF tree, share
  <2>4. packages' \subseteq Rows /\ Ids \subseteq Ids'
    BY <1>0, <2>2 DEF Ids
  <2>5. story' \in Stories
    BY <1>0, <2>2
  <2>6. ReqsSound' /\ req' \in Seq(Reqs) /\ Len(req') <= MaxRequests
    <3>1. Len(commits') \in Nat /\ Top <= Len(commits')
      BY <1>0, <2>3, Elements
    <3>2. (r.pc \in {"staged", "differs"} => r.kind \in Writers) /\ (r.kind = "restore" => r.base >= 1)
      BY <2>1
    <3> QED BY <1>2, <2>1, <2>4, <3>1, <3>2
  <2> QED BY <1>0, <1>t, <2>2, <2>3, <2>4, <2>5, <2>6, Zenon
<1>5. ASSUME NEW i \in DOMAIN req, Linking(i)
      PROVE  Types'
  <2>1. PICK r \in Reqs : /\ req' = [req EXCEPT ![i] = r] /\ r.kind = req[i].kind
                          /\ r.head \in 0 .. Top /\ r.base \in 0 .. Top
                          /\ r.pinning \subseteq Ids /\ r.pc \notin {"staged", "differs"}
    BY <1>5, LinkMoves
  <2>2. /\ req[i].kind \in {"publish", "revoke", "delete"}
        /\ UNCHANGED <<index, commits, author, store>>
        /\ work' \in Trees /\ repo' \in BOOLEAN /\ session' \in BOOLEAN
        /\ link' \in Links /\ disk' \subseteq Requests /\ story' \in Stories
    BY <1>5, LinkMoves
  <2>3. UNCHANGED <<packages, pins>> /\ Ids' = Ids
    BY <2>2 DEF store, Ids
  <2>4. ReqsSound' /\ req' \in Seq(Reqs) /\ Len(req') <= MaxRequests
    <3>1. Len(commits') \in Nat /\ Top <= Len(commits')
      BY <1>0, <2>2, Elements
    <3>2. (r.pc \in {"staged", "differs"} => r.kind \in Writers) /\ (r.kind = "restore" => r.base >= 1)
      BY <2>1, <2>2
    <3> QED BY <1>2, <2>1, <2>3, <3>1, <3>2
  <2> QED BY <1>0, <1>t, <2>2, <2>3, <2>4, Zenon
<1>6. CASE Crash
  <2>1. /\ req' \in Seq(Reqs) /\ Len(req') = Len(req) /\ DOMAIN req' = DOMAIN req
        /\ \A j \in DOMAIN req :
             req'[j] = IF req[j].pc # "over"
                       THEN [Over(req[j]) EXCEPT !.failed = req[j].kind \in Writers]
                       ELSE req[j]
        /\ \A j \in DOMAIN req : req'[j].kind = req[j].kind /\ req'[j].pc = "over"
        /\ UNCHANGED <<tree, session, store, share>>
    BY <1>6, CrashMoves
  <2>2. UNCHANGED <<work, index, commits, author, repo, session, packages, pins, link, disk>>
    BY <2>1 DEF tree, store, share
  <2>3. ASSUME NEW j \in DOMAIN req
        PROVE  /\ req'[j].head \in {0, req[j].head} /\ req'[j].base \in {0, req[j].base}
               /\ req'[j].pinning \in {{}, req[j].pinning}
               /\ req[j].kind \in Writers => req'[j].base = req[j].base
    <3>0. req[j] \in Reqs /\ Over(req[j]) \in Reqs
      BY Elements, OverType
    <3>1. Blank.head = 0 /\ Blank.base = 0 /\ Blank.pinning = {}
      BY DEF Blank
    <3>2. Over(req[j]) = IF req[j].kind \in Writers THEN [req[j] EXCEPT !.pc = "over"]
                         ELSE [Blank EXCEPT !.kind = req[j].kind, !.pc = "over"]
      BY <3>0, OverType
    <3>3. /\ Over(req[j]).head \in {0, req[j].head} /\ Over(req[j]).base \in {0, req[j].base}
          /\ Over(req[j]).pinning \in {{}, req[j].pinning}
          /\ req[j].kind \in Writers => Over(req[j]).base = req[j].base
      BY <3>0, <3>1, <3>2, BlankType DEF Reqs
    <3>4. \/ req'[j] = req[j]
          \/ req'[j] = [Over(req[j]) EXCEPT !.failed = req[j].kind \in Writers]
      BY <2>1
    <3> QED BY <3>0, <3>3, <3>4 DEF Reqs
  <2>4. ReqsSound'
    BY <1>0, <2>1, <2>2, <2>3, Elements DEF Ids, Writers
  <2>5. story' \in Stories
    <3> DEFINE cut == Flying(Kinds)
               C == {req[i].seen.token : i \in cut}
               O == {i \in cut : req[i].kind = "publish"}
    <3>1. story' = [story EXCEPT !.cut = @ \cup C, !.orphans = @ \cup O]
      BY <1>6 DEF Crash
    <3>2. \A j \in DOMAIN req : req[j].seen.token \in Tokens /\ j \in Tokens
      <4>1. \A j \in DOMAIN req : req[j].seen.token \in Tokens
        BY Elements DEF Reqs, Links, Tokens
      <4>2. Len(req) <= MaxRequests
        BY DEF Types
      <4>3. \A j \in DOMAIN req : j \in Tokens
        BY <4>2, Elements, DeliveryAssumption DEF Tokens, Requests
      <4> QED BY <4>1, <4>3
    <3>3. C \subseteq Tokens /\ O \subseteq Tokens
      BY <3>2 DEF Flying
    <3> HIDE DEF C, O
    <3> QED BY <1>0, <3>1, <3>3
  <2>6. Ids' = Ids /\ Len(req') <= MaxRequests
    BY <2>1, <2>2 DEF Ids, Types
  <2> QED BY <1>0, <1>t, <2>1, <2>2, <2>4, <2>5, <2>6, Zenon
<1>7. CASE UNCHANGED vars
  BY <1>7 DEF vars, tree, store, share, Types, Ids
<1> QED BY <1>1, <1>3, <1>4, <1>5, <1>6, <1>7, StepCases
\* TypeOK holds in every state: what the requests, the workspace, the store and
\* the link are made of.
THEOREM TypeCorrect == Spec => []TypeOK
<1>1. Init => Types
  BY InitTypes
<1>2. Types /\ [Next]_vars => Types'
  BY NextTypes
<1>3. Types => TypeOK
  BY TypesGiveTypeOK
<1> QED BY <1>1, <1>2, <1>3, PTL DEF Spec

-----------------------------------------------------------------------------
(* The share link.  Only three kinds of requests touch it.                 *)

Sharing == {"publish", "revoke", "delete"}
Sharers == {i \in DOMAIN req : req[i].kind \in Sharing}
Publishing == {i \in Sharers : req[i].kind = "publish" /\ req[i].pc # "over"}
Deleting == {i \in Sharers : req[i].kind = "delete" /\ req[i].pc = "deleting"}

\* No token is of a request that has not arrived, and a row has a token or NULL.
LinksSound ==
  /\ link.token <= Len(req) /\ (link.token = -1 => link = NoLink)
  /\ disk \subseteq DOMAIN req
  /\ \A i \in Sharers : /\ req[i].seen.token <= Len(req)
                        /\ req[i].seen.token = -1 => req[i].seen = NoLink
\* A publish under way has its bundle from the moment it is built, and nobody
\* else knows its token.
BuildsOwn ==
  \A i \in Publishing :
    /\ link.token # i /\ \A j \in Sharers : req[j].seen.token # i
    /\ req[i].pc = "built" <=> i \in disk
\* Who has read a row has removed its bundle, and has seen the row published if
\* it still is.
ReadGone ==
  \A i \in Sharers :
    /\ req[i].seen.token \notin disk
    /\ req[i].kind = "revoke" /\ req[i].pc = "revoking" => req[i].seen # NoLink
    /\ link.published /\ req[i].seen.token = link.token /\ link.token > 0
         => req[i].seen.published
\* A published row without its bundle is accounted for; only a cut leaves one
\* without a token.
PublishedRow ==
  link.published =>
    \/ link.token \in disk \cup story.cut
    \/ link.token > 0 /\ \E i \in Sharers : req[i].pc # "over" /\ req[i].seen.token = link.token
OnDisk == disk \subseteq story.orphans \cup {link.token} \cup Publishing
Down == story.down => ~ link.published /\ Publishing = {}
\* From the deletion's first step on every publish is a stray, and from the
\* deletion of the row on only a stray's token can be in the link.
Strayed == ~ session \/ Deleting # {} => Publishing \subseteq story.strays
Outlives ==
  ~ session \/ (\E i \in Deleting : req[i].seen = NoLink)
    => link = NoLink \/ link.token \in story.strays \cup {0}

ShareInv == /\ LinksSound /\ BuildsOwn /\ ReadGone /\ PublishedRow
            /\ OnDisk /\ Down /\ Strayed /\ Outlives

LEMMA ShareImplies == Types /\ ShareInv => SharesAreAccounted
<1> SUFFICES ASSUME Types, ShareInv PROVE SharesAreAccounted
  OBVIOUS
<1>0. link \in Links /\ disk \subseteq Requests /\ NoLink.token = -1 /\ ~ NoLink.published
  BY DEF Types, NoLink
<1>1. link.published => \/ Served(link.token) \/ link.token \in story.cut
                        \/ \E i \in Flying({"publish", "revoke", "delete"}) :
                             req[i].seen.token = link.token
  BY DEF ShareInv, PublishedRow, Served, Flying, Sharers, Sharing
<1>2. \A t \in disk \ (story.orphans \cup {link.token}) : At(t, "publish", "built")
  BY DEF ShareInv, OnDisk, BuildsOwn, Publishing, Sharers, At
<1>3. story.down => ~ link.published
  BY DEF ShareInv, Down
<1>4. ~ session /\ link # NoLink => link.token \in story.strays \cup {0}
  BY DEF ShareInv, Outlives
<1> QED BY <1>1, <1>2, <1>3, <1>4 DEF SharesAreAccounted

LEMMA InitShares == Init => ShareInv
<1> SUFFICES ASSUME Init PROVE ShareInv
  OBVIOUS
<1>1. req = <<>> /\ Len(req) = 0 /\ DOMAIN req = {}
  BY EmptySeq, LenProperties DEF Init
<1>2. /\ link = NoLink /\ disk = {} /\ session = TRUE /\ story.down = FALSE
      /\ NoLink.token = -1 /\ NoLink.published = FALSE
  BY DEF Init, NoLink
<1>3. Sharers = {} /\ Publishing = {} /\ Deleting = {}
  BY <1>1 DEF Sharers, Publishing, Deleting
<1> QED BY <1>1, <1>2, <1>3 DEF ShareInv, LinksSound, BuildsOwn, ReadGone, PublishedRow,
          OnDisk, Down, Strayed, Outlives

\* What the link's requests see of a step that is none of theirs.
LEMMA ShareFrame ==
  ASSUME ShareInv, Sharers' = Sharers, Len(req') = Len(req), DOMAIN req' = DOMAIN req,
         \A j \in Sharers : req'[j] = req[j],
         UNCHANGED <<link, disk, session>>,
         story'.down = story.down, story'.cut = story.cut,
         story'.orphans = story.orphans, story'.strays = story.strays
  PROVE  ShareInv'
<1>1. Publishing' = Publishing /\ Deleting' = Deleting
  BY DEF Publishing, Deleting
<1>2. LinksSound'
  BY DEF ShareInv, LinksSound
<1>3. BuildsOwn'
  BY <1>1 DEF ShareInv, BuildsOwn, Publishing
<1>4. ReadGone'
  BY DEF ShareInv, ReadGone
<1>5. PublishedRow'
  BY DEF ShareInv, PublishedRow
<1>6. OnDisk' /\ Down' /\ Strayed'
  BY <1>1 DEF ShareInv, OnDisk, Down, Strayed
<1>7. Outlives'
  BY <1>1 DEF ShareInv, Outlives, Deleting
<1> QED BY <1>2, <1>3, <1>4, <1>5, <1>6, <1>7 DEF ShareInv

LEMMA ShareElsewhere ==
  ASSUME Types, ShareInv, NEW i \in DOMAIN req, Writing(i) \/ Packing(i)
  PROVE  ShareInv'
<1>1. PICK r \in Reqs : /\ req' = [req EXCEPT ![i] = r]
                        /\ r.kind \notin Sharing /\ req[i].kind \notin Sharing
  <2>1. CASE Writing(i)
    BY <2>1, WriterMoves DEF Keeps, Writers, Sharing
  <2>2. CASE Packing(i)
    BY <2>2, PackageMoves DEF Sharing
  <2> QED BY <2>1, <2>2
<1>2. /\ Len(req') = Len(req) /\ DOMAIN req' = DOMAIN req
      /\ req'[i] = r /\ \A j \in DOMAIN req : j # i => req'[j] = req[j]
  BY <1>1, MoveOne
<1>3. Sharers' = Sharers /\ \A j \in Sharers : req'[j] = req[j]
  BY <1>1, <1>2 DEF Sharers
<1>4. UNCHANGED <<link, disk, session>> /\ story' = [story EXCEPT !.late = story'.late]
  <2>0. story = [story EXCEPT !.late = story.late]
    BY DEF Types
  <2>1. CASE Writing(i)
    BY <2>0, <2>1, WriterMoves DEF share
  <2>2. CASE Packing(i)
    BY <2>2, PackageMoves DEF share
  <2> QED BY <2>1, <2>2
<1>5. /\ story'.down = story.down /\ story'.cut = story.cut
      /\ story'.orphans = story.orphans /\ story'.strays = story.strays
  BY <1>4 DEF Types
<1> QED BY <1>2, <1>3, <1>4, <1>5, ShareFrame

\* A step of a request about the link, as the others see it.
Becomes(i, pc, s) ==
  /\ Len(req') = Len(req) /\ DOMAIN req' = DOMAIN req /\ Sharers' = Sharers
  /\ i \in Sharers /\ req'[i].kind = req[i].kind /\ req'[i].pc = pc /\ req'[i].seen = s
  /\ \A j \in Sharers \ {i} : req'[j] = req[j]

LEMMA LinkSteps ==
  ASSUME Types, NEW i \in DOMAIN req
  PROVE  /\ Publish(i) => Becomes(i, "built", link)
         /\ Delete(i) => Becomes(i, "deleting", link)
         /\ Revoke(i) /\ link # NoLink => Becomes(i, "revoking", link)
         /\ req[i].kind \in Sharing /\ Ends(i) => Becomes(i, "over", NoLink)
<1>0. req[i] \in Reqs /\ link \in Links
  BY Elements DEF Types
<1>1. ASSUME NEW r \in Reqs, req' = [req EXCEPT ![i] = r], r.kind = req[i].kind,
             req[i].kind \in Sharing
      PROVE  Becomes(i, r.pc, r.seen)
  <2>1. /\ Len(req') = Len(req) /\ DOMAIN req' = DOMAIN req
        /\ req'[i] = r /\ \A j \in DOMAIN req : j # i => req'[j] = req[j]
    BY <1>1, MoveOne
  <2>2. Sharers' = Sharers /\ i \in Sharers /\ Sharers \subseteq DOMAIN req
    BY <1>1, <2>1 DEF Sharers
  <2> QED BY <1>1, <2>1, <2>2 DEF Becomes
<1>2. \A pc \in Pcs : /\ [req[i] EXCEPT !.pc = pc, !.seen = link] \in Reqs
                      /\ [req[i] EXCEPT !.pc = pc, !.seen = link].kind = req[i].kind
                      /\ [req[i] EXCEPT !.pc = pc, !.seen = link].pc = pc
                      /\ [req[i] EXCEPT !.pc = pc, !.seen = link].seen = link
  BY <1>0 DEF Reqs
<1>3. "built" \in Pcs /\ "deleting" \in Pcs /\ "revoking" \in Pcs
  BY DEF Pcs
<1>4. ASSUME NEW pc \in Pcs, req[i].kind \in Sharing,
             req' = [req EXCEPT ![i] = [req[i] EXCEPT !.pc = pc, !.seen = link]]
      PROVE  Becomes(i, pc, link)
  <2> DEFINE r == [req[i] EXCEPT !.pc = pc, !.seen = link]
  <2>1. r \in Reqs /\ r.kind = req[i].kind /\ r.pc = pc /\ r.seen = link
        /\ req' = [req EXCEPT ![i] = r]
    BY <1>2, <1>4
  <2> HIDE DEF r
  <2>2. Becomes(i, r.pc, r.seen)
    BY <1>1, <1>4, <2>1
  <2> QED BY <2>1, <2>2
<1>5. Publish(i) => Becomes(i, "built", link)
  <2> SUFFICES ASSUME Publish(i) PROVE Becomes(i, "built", link)
    OBVIOUS
  <2>1. /\ req[i].kind = "publish"
        /\ req' = [req EXCEPT ![i] = [req[i] EXCEPT !.pc = "built", !.seen = link]]
    BY DEF Publish, At
  <2> QED BY <1>3, <1>4, <2>1 DEF Sharing
<1>6. Delete(i) => Becomes(i, "deleting", link)
  <2> SUFFICES ASSUME Delete(i) PROVE Becomes(i, "deleting", link)
    OBVIOUS
  <2>1. /\ req[i].kind = "delete"
        /\ req' = [req EXCEPT ![i] = [req[i] EXCEPT !.pc = "deleting", !.seen = link]]
    BY DEF Delete, At
  <2> QED BY <1>3, <1>4, <2>1 DEF Sharing
<1>7. Revoke(i) /\ link # NoLink => Becomes(i, "revoking", link)
  <2> SUFFICES ASSUME Revoke(i), link # NoLink PROVE Becomes(i, "revoking", link)
    OBVIOUS
  <2>1. /\ req[i].kind = "revoke"
        /\ req' = [req EXCEPT ![i] = [req[i] EXCEPT !.pc = "revoking", !.seen = link]]
    BY DEF Revoke, At
  <2> QED BY <1>3, <1>4, <2>1 DEF Sharing
<1>8. req[i].kind \in Sharing /\ Ends(i) => Becomes(i, "over", NoLink)
  <2> SUFFICES ASSUME req[i].kind \in Sharing, Ends(i) PROVE Becomes(i, "over", NoLink)
    OBVIOUS
  <2>1. Over(req[i]) = [Blank EXCEPT !.kind = req[i].kind, !.pc = "over"]
    BY <1>0, OverType DEF Sharing, Writers
  <2>2. /\ Over(req[i]) \in Reqs /\ Over(req[i]).kind = req[i].kind
        /\ Over(req[i]).pc = "over"
    BY <1>0, OverType
  <2>3. Over(req[i]).seen = NoLink
    BY <2>1 DEF Blank
  <2>4. req' = [req EXCEPT ![i] = Over(req[i])]
    BY DEF Ends
  <2>5. Becomes(i, Over(req[i]).pc, Over(req[i]).seen)
    BY <1>1, <2>2, <2>4
  <2> QED BY <2>2, <2>3, <2>5
<1> QED BY <1>5, <1>6, <1>7, <1>8

\* What the steps below use of the types.
LinkFacts ==
  /\ link \in Links /\ disk \subseteq Requests /\ session \in BOOLEAN
  /\ link.token \in Tokens /\ link.published \in BOOLEAN
  /\ NoLink \in Links /\ NoLink.token = -1 /\ ~ NoLink.published
  /\ Len(req) \in Nat /\ DOMAIN req = 1 .. Len(req) /\ DOMAIN req \subseteq Requests
  /\ \A j \in DOMAIN req : req[j].seen \in Links /\ req[j].seen.token \in Tokens
                           /\ req[j].seen.published \in BOOLEAN
  /\ story.cut \subseteq Tokens /\ story.orphans \subseteq Tokens /\ story.down \in BOOLEAN

LEMMA LinkTypes == Types => LinkFacts
<1> SUFFICES ASSUME Types PROVE LinkFacts
  OBVIOUS
<1>1. /\ link \in Links /\ disk \subseteq Requests /\ session \in BOOLEAN
      /\ story.cut \subseteq Tokens /\ story.orphans \subseteq Tokens /\ story.down \in BOOLEAN
  BY DEF Types
<1>2. \A l \in Links : l.token \in Tokens /\ l.published \in BOOLEAN
  BY DEF Links, Tokens
<1>3. NoLink \in Links /\ NoLink.token = -1 /\ ~ NoLink.published
  BY DEF NoLink, Links
<1>4. Len(req) \in Nat /\ DOMAIN req = 1 .. Len(req)
  BY Elements
<1>5. DOMAIN req \subseteq Requests
  BY <1>4, DeliveryAssumption DEF Types, Requests
<1>6. \A j \in DOMAIN req : req[j].seen \in Links
  BY Elements DEF Reqs
<1> QED BY <1>1, <1>2, <1>3, <1>4, <1>5, <1>6 DEF LinkFacts

\* Tokens that are new to nobody.
LEMMA BuildsStay ==
  ASSUME ShareInv, NEW i, NEW pc, NEW s, Becomes(i, pc, s),
         Publishing' \subseteq Publishing \ {i}, disk' = disk,
         link'.token \notin Publishing', s.token \notin Publishing'
  PROVE  BuildsOwn'
<1> SUFFICES ASSUME NEW k \in Publishing'
             PROVE  /\ link'.token # k /\ \A j \in Sharers' : req'[j].seen.token # k
                    /\ req'[k].pc = "built" <=> k \in disk'
  BY DEF BuildsOwn
<1>1. k \in Publishing /\ k # i /\ k \in Sharers /\ req'[k] = req[k]
  BY DEF Becomes, Publishing
<1>2. (\A j \in Sharers : req[j].seen.token # k) /\ (req[k].pc = "built" <=> k \in disk)
  BY <1>1 DEF ShareInv, BuildsOwn
<1>3. ASSUME NEW j \in Sharers' PROVE req'[j].seen.token # k
  <2>1. CASE j = i
    BY <2>1 DEF Becomes
  <2>2. CASE j # i
    BY <1>2, <2>2 DEF Becomes
  <2> QED BY <2>1, <2>2
<1> QED BY <1>1, <1>2, <1>3

LEMMA SharePublish ==
  ASSUME Types, ShareInv, NEW i \in DOMAIN req, Publish(i)
  PROVE  ShareInv'
<1>1. Becomes(i, "built", link) /\ req[i].kind = "publish" /\ req[i].pc = "start"
  BY LinkSteps DEF Publish, At
<1>2. disk' = (disk \ {link.token}) \cup {i} /\ UNCHANGED <<session, link, story>>
  BY DEF Publish
<1>3. i \in Publishing /\ i \notin disk /\ link.token # i /\ i # 0 /\ i # -1
      /\ \A j \in Sharers : req[j].seen.token # i
  BY <1>1, LinkTypes DEF ShareInv, BuildsOwn, Publishing, Becomes, LinkFacts, Requests
<1>4. Publishing' = Publishing /\ Deleting' = Deleting
  BY <1>1 DEF Becomes, Publishing, Deleting
<1>5. LinksSound'
  BY <1>1, <1>2, LinkTypes DEF Becomes, ShareInv, LinksSound, LinkFacts
<1>6. BuildsOwn'
  BY <1>1, <1>2, <1>3, <1>4 DEF Becomes, ShareInv, BuildsOwn, Publishing
<1>7. ReadGone'
  BY <1>1, <1>2, <1>3, <1>4 DEF Becomes, ShareInv, ReadGone, Publishing
<1>8. PublishedRow'
  BY <1>1, <1>2, <1>3, LinkTypes DEF Becomes, ShareInv, PublishedRow, LinkFacts, Requests
<1>9. OnDisk' /\ Down' /\ Strayed'
  BY <1>1, <1>2, <1>3, <1>4 DEF Becomes, ShareInv, OnDisk, Down, Strayed
<1>10. Outlives'
  BY <1>1, <1>2, <1>4 DEF Becomes, ShareInv, Outlives, Deleting
<1> QED BY <1>5, <1>6, <1>7, <1>8, <1>9, <1>10 DEF ShareInv

LEMMA SharePublishCommit ==
  ASSUME Types, ShareInv, NEW i \in DOMAIN req, PublishCommit(i)
  PROVE  ShareInv'
<1> DEFINE seen == req[i].seen
           lands == (seen = NoLink) = (link = NoLink)
<1>1. Becomes(i, "over", NoLink) /\ req[i].kind = "publish" /\ req[i].pc = "built"
  BY LinkSteps DEF PublishCommit, At, Sharing
<1>2. UNCHANGED <<session, disk>> /\ story'.down = story.down /\ story'.strays = story.strays
  BY DEF PublishCommit, Types
<1>3. lands => /\ link' = [token |-> i, published |-> link.published \/ ~ seen.published]
               /\ story'.orphans = story.orphans \cup ({link.token} \ {seen.token})
               /\ story'.cut = story.cut
  BY DEF PublishCommit, Types
<1>4. ~ lands => /\ link' = link /\ story'.orphans = story.orphans \cup {i}
                 /\ story'.cut = story.cut \cup {seen.token}
  BY DEF PublishCommit, Types
<1>5. i \in Publishing /\ i \in disk /\ link.token # i /\ i # 0 /\ i # -1 /\ i <= Len(req)
      /\ \A j \in Sharers : req[j].seen.token # i
  BY <1>1, LinkTypes DEF ShareInv, BuildsOwn, Publishing, Becomes, LinkFacts, Requests
<1>6. Publishing' = Publishing \ {i} /\ Deleting' = Deleting /\ i \notin Deleting
  BY <1>1 DEF Becomes, Publishing, Deleting
<1>7. seen.token \notin disk
  BY <1>1 DEF Becomes, ShareInv, ReadGone
<1>8. (lands => link'.token = i) /\ (~ lands => link' = link)
  BY <1>3, <1>4
<1> HIDE DEF lands
<1>9. LinksSound'
  BY <1>1, <1>2, <1>5, <1>8, LinkTypes DEF Becomes, ShareInv, LinksSound, LinkFacts
<1>10. BuildsOwn'
  <2>1. -1 \notin Publishing'
    BY <1>6, LinkTypes DEF Publishing, Sharers, LinkFacts, Requests
  <2>2. link'.token \notin Publishing'
    BY <1>6, <1>8 DEF ShareInv, BuildsOwn
  <2> QED BY <1>1, <1>2, <1>6, <2>1, <2>2, LinkTypes, BuildsStay DEF LinkFacts
<1>11. ReadGone'
  BY <1>1, <1>2, <1>5, <1>6, <1>8, LinkTypes DEF Becomes, ShareInv, ReadGone, LinkFacts, Requests
<1>12. PublishedRow'
  <2>1. CASE lands
    BY <1>2, <1>5, <1>8, <2>1 DEF PublishedRow
  <2>2. CASE ~ lands
    BY <1>1, <1>2, <1>4, <1>8, <2>2 DEF Becomes, ShareInv, PublishedRow
  <2> QED BY <2>1, <2>2
<1>13. OnDisk'
  <2>1. CASE lands
    BY <1>2, <1>3, <1>5, <1>6, <1>7, <1>8, <2>1 DEF ShareInv, OnDisk
  <2>2. CASE ~ lands
    BY <1>2, <1>4, <1>5, <1>6, <1>8, <2>2 DEF ShareInv, OnDisk
  <2> QED BY <2>1, <2>2
<1>14. Down' /\ Strayed'
  BY <1>2, <1>5, <1>6 DEF ShareInv, Down, Strayed
<1>15. Outlives'
  BY <1>1, <1>2, <1>5, <1>6, <1>8 DEF Becomes, ShareInv, Outlives, Strayed, Deleting
<1> QED BY <1>9, <1>10, <1>11, <1>12, <1>13, <1>14, <1>15 DEF ShareInv

LEMMA ShareRevoke ==
  ASSUME Types, ShareInv, NEW i \in DOMAIN req, Revoke(i)
  PROVE  ShareInv'
<1> DEFINE pc == IF link = NoLink THEN "over" ELSE "revoking"
<1>1. req[i].kind = "revoke" /\ req[i].pc = "start" /\ UNCHANGED <<session, link, story>>
      /\ disk' = disk \ {link.token}
  BY DEF Revoke, At
<1>2. Becomes(i, pc, link)
  <2>1. CASE link = NoLink
    BY <1>1, <2>1, LinkSteps DEF Revoke, Sharing
  <2>2. CASE link # NoLink
    BY <2>2, LinkSteps
  <2> QED BY <2>1, <2>2
<1>3. Publishing' = Publishing /\ Deleting' = Deleting /\ i \notin Deleting
      /\ i \notin Publishing
  BY <1>1, <1>2 DEF Becomes, Publishing, Deleting
<1>4. LinksSound'
  BY <1>1, <1>2, LinkTypes DEF Becomes, ShareInv, LinksSound, LinkFacts
<1>5. BuildsOwn'
  BY <1>1, <1>2, <1>3 DEF Becomes, ShareInv, BuildsOwn, Publishing
<1>6. ReadGone'
  BY <1>1, <1>2, <1>3 DEF Becomes, ShareInv, ReadGone
<1>7. PublishedRow'
  BY <1>1, <1>2, LinkTypes DEF Becomes, ShareInv, PublishedRow, LinkFacts, Requests
<1>8. OnDisk' /\ Down' /\ Strayed'
  BY <1>1, <1>2, <1>3 DEF Becomes, ShareInv, OnDisk, Down, Strayed
<1>9. Outlives'
  BY <1>1, <1>2, <1>3 DEF Becomes, ShareInv, Outlives, Deleting
<1> QED BY <1>4, <1>5, <1>6, <1>7, <1>8, <1>9 DEF ShareInv

LEMMA ShareRevokeCommit ==
  ASSUME Types, ShareInv, NEW i \in DOMAIN req, RevokeCommit(i)
  PROVE  ShareInv'
<1> DEFINE seen == req[i].seen
<1>1. Becomes(i, "over", NoLink) /\ req[i].kind = "revoke" /\ req[i].pc = "revoking"
  BY LinkSteps DEF RevokeCommit, At, Sharing
<1>2. /\ UNCHANGED <<session, disk>> /\ story'.strays = story.strays
      /\ story'.down = (Flying({"publish"}) = {} /\ seen.published)
      /\ story'.orphans = story.orphans \cup ({link.token} \ {seen.token})
      /\ story'.cut = story.cut \cup {0 : t \in {link.token} \ {seen.token}}
  BY DEF RevokeCommit, Types
<1>3. link' = IF link = NoLink THEN link
              ELSE [published |-> link.published /\ ~ seen.published,
                    token |-> IF seen.token = 0 THEN link.token ELSE 0]
  BY DEF RevokeCommit
<1>4. /\ link = NoLink => link' = link
      /\ link # NoLink =>
           /\ link'.published = (link.published /\ ~ seen.published)
           /\ link'.token = IF seen.token = 0 THEN link.token ELSE 0
  BY <1>3
<1>5. /\ Publishing' = Publishing /\ Publishing = Flying({"publish"})
      /\ Deleting' = Deleting /\ i \notin Deleting /\ i \notin Publishing
  BY <1>1 DEF Becomes, Publishing, Deleting, Flying, Sharers, Sharing
<1>6. /\ i \in Sharers /\ seen.token \notin disk /\ seen # NoLink /\ seen.token # -1
      /\ link.published /\ seen.token = link.token /\ link.token > 0 => seen.published
  BY <1>1 DEF Becomes, ShareInv, ReadGone, LinksSound
<1>7. seen.token \in Tokens /\ i \in DOMAIN req
  BY LinkTypes DEF LinkFacts
<1> HIDE DEF seen
<1>8. LinksSound'
  BY <1>1, <1>2, <1>4, LinkTypes DEF Becomes, ShareInv, LinksSound, LinkFacts
<1>9. BuildsOwn'
  <2>1. -1 \notin Publishing' /\ 0 \notin Publishing'
    BY <1>5, LinkTypes DEF Publishing, Sharers, LinkFacts, Requests
  <2>2. link.token \notin Publishing' /\ link'.token \in {link.token, 0}
    BY <1>4, <1>5 DEF ShareInv, BuildsOwn
  <2>3. Publishing' \subseteq Publishing \ {i} /\ disk' = disk
    BY <1>2, <1>5
  <2>4. NoLink.token \notin Publishing'
    BY <2>1, LinkTypes DEF LinkFacts
  <2> QED BY <1>1, <2>1, <2>2, <2>3, <2>4, BuildsStay
<1>10. ReadGone'
  <2> SUFFICES ASSUME NEW j \in Sharers'
               PROVE  /\ req'[j].seen.token \notin disk'
                      /\ req'[j].kind = "revoke" /\ req'[j].pc = "revoking" => req'[j].seen # NoLink
                      /\ link'.published /\ req'[j].seen.token = link'.token /\ link'.token > 0
                           => req'[j].seen.published
    BY DEF ReadGone
  <2>1. CASE j = i
    <3>1. req'[j].seen.token = -1 /\ req'[j].pc = "over"
      BY <1>1, <2>1, LinkTypes DEF Becomes, LinkFacts
    <3>2. -1 \notin disk'
      BY <1>2, LinkTypes, DeliveryAssumption DEF LinkFacts, Requests
    <3>3. ~ (link'.token > 0 /\ -1 = link'.token)
      OBVIOUS
    <3> QED BY <3>1, <3>2, <3>3
  <2>2. CASE j # i
    <3>1. j \in Sharers /\ req'[j] = req[j] /\ disk' = disk
      BY <1>1, <1>2, <2>2 DEF Becomes
    <3>2. link'.published /\ link'.token > 0 => link.published /\ link'.token = link.token
      <4>1. CASE link = NoLink
        BY <1>4, <4>1
      <4>2. CASE link # NoLink /\ seen.token = 0
        BY <1>4, <4>2
      <4>3. CASE link # NoLink /\ seen.token # 0
        BY <1>4, <4>3
      <4> QED BY <4>1, <4>2, <4>3
    <3> QED BY <3>1, <3>2 DEF ShareInv, ReadGone
  <2> QED BY <2>1, <2>2
<1>11. PublishedRow'
  <2>1. CASE link = NoLink
    BY <1>4, <2>1, LinkTypes DEF PublishedRow, LinkFacts
  <2>2. CASE link # NoLink /\ seen.token = 0
    <3>1. link'.published => link.published /\ link'.token = link.token
      BY <1>4, <2>2
    <3>2. story.cut \subseteq story'.cut /\ disk' = disk
      BY <1>2
    <3>3. \A j \in Sharers : req[j].seen.token = link.token /\ link.token > 0 =>
            j \in Sharers' /\ req'[j] = req[j]
      BY <1>1, <2>2 DEF Becomes, seen
    <3> QED BY <3>1, <3>2, <3>3 DEF ShareInv, PublishedRow
  <2>3. CASE link # NoLink /\ seen.token # 0
    <3>1. CASE link.token = seen.token
      <4>1. link.token > 0
        BY <1>6, <1>7, <2>3, <3>1, DeliveryAssumption DEF Tokens, Requests
      <4>2. ~ link'.published
        BY <1>4, <1>6, <2>3, <3>1, <4>1
      <4> QED BY <4>2 DEF PublishedRow
    <3>2. CASE link.token # seen.token
      BY <1>2, <1>4, <2>3, <3>2 DEF PublishedRow
    <3> QED BY <3>1, <3>2
  <2> QED BY <2>1, <2>2, <2>3
<1>12. OnDisk'
  BY <1>2, <1>4, <1>5, <1>6 DEF ShareInv, OnDisk
<1>13. Down'
  BY <1>2, <1>4, <1>5, LinkTypes DEF ShareInv, Down, LinkFacts
<1>14. Strayed'
  BY <1>2, <1>5 DEF ShareInv, Strayed
<1>15. Outlives'
  BY <1>1, <1>2, <1>4, <1>5 DEF Becomes, ShareInv, Outlives, Deleting
<1> QED BY <1>8, <1>9, <1>10, <1>11, <1>12, <1>13, <1>14, <1>15 DEF ShareInv

LEMMA ShareDelete ==
  ASSUME Types, ShareInv, NEW i \in DOMAIN req, Delete(i)
  PROVE  ShareInv'
<1>1. Becomes(i, "deleting", link) /\ req[i].kind = "delete" /\ req[i].pc = "start"
  BY LinkSteps DEF Delete, At
<1>2. /\ disk' = disk \ {link.token} /\ UNCHANGED <<session, link>>
      /\ story'.down = story.down /\ story'.cut = story.cut
      /\ story'.orphans = story.orphans
      /\ story'.strays = story.strays \cup Flying({"publish"})
  BY DEF Delete, Types
<1>3. /\ Publishing' = Publishing /\ Publishing = Flying({"publish"})
      /\ i \notin Publishing /\ Deleting \subseteq Deleting' /\ Deleting' \subseteq Deleting \cup {i}
  BY <1>1 DEF Becomes, Publishing, Deleting, Flying, Sharers, Sharing
<1>4. LinksSound'
  BY <1>1, <1>2, LinkTypes DEF Becomes, ShareInv, LinksSound, LinkFacts
<1>5. BuildsOwn'
  BY <1>1, <1>2, <1>3 DEF Becomes, ShareInv, BuildsOwn, Publishing
<1>6. ReadGone'
  BY <1>1, <1>2, <1>3 DEF Becomes, ShareInv, ReadGone
<1>7. PublishedRow'
  BY <1>1, <1>2, LinkTypes DEF Becomes, ShareInv, PublishedRow, LinkFacts, Requests
<1>8. OnDisk' /\ Down' /\ Strayed'
  BY <1>1, <1>2, <1>3 DEF Becomes, ShareInv, OnDisk, Down, Strayed
<1>9. Outlives'
  BY <1>1, <1>2, <1>3 DEF Becomes, ShareInv, Outlives, Deleting
<1> QED BY <1>4, <1>5, <1>6, <1>7, <1>8, <1>9 DEF ShareInv

LEMMA ShareDeleteCommit ==
  ASSUME Types, ShareInv, NEW i \in DOMAIN req, DeleteCommit(i)
  PROVE  ShareInv'
<1> DEFINE seen == req[i].seen
<1>1. Becomes(i, "over", NoLink) /\ req[i].kind = "delete" /\ req[i].pc = "deleting"
  BY LinkSteps DEF DeleteCommit, At, Sharing
<1>2. /\ session' = FALSE /\ disk' = disk
      /\ story'.down = story.down /\ story'.cut = story.cut /\ story'.strays = story.strays
      /\ link' = IF seen = NoLink THEN link ELSE NoLink
      /\ story'.orphans = story.orphans \cup
           (IF seen = NoLink THEN {} ELSE {link.token} \ {seen.token})
  BY DEF DeleteCommit, Types
<1>3. /\ Publishing' = Publishing /\ i \in Deleting /\ Deleting' = Deleting \ {i}
      /\ i \notin Publishing
  BY <1>1 DEF Becomes, Publishing, Deleting
<1>4. seen.token \notin disk /\ link' \in {link, NoLink} /\ i \in Sharers
  BY <1>1, <1>2 DEF Becomes, ShareInv, ReadGone
<1>5. LinksSound'
  BY <1>1, <1>2, <1>4, LinkTypes DEF Becomes, ShareInv, LinksSound, LinkFacts
<1>6. BuildsOwn'
  <2>1. -1 \notin Publishing'
    BY <1>3, LinkTypes DEF Publishing, Sharers, LinkFacts, Requests
  <2>2. link.token \notin Publishing'
    BY <1>3 DEF ShareInv, BuildsOwn
  <2>3. NoLink.token \notin Publishing' /\ link'.token \notin Publishing'
    BY <1>4, <2>1, <2>2, LinkTypes DEF LinkFacts
  <2>4. Publishing' \subseteq Publishing \ {i} /\ disk' = disk
    BY <1>2, <1>3
  <2> QED BY <1>1, <2>3, <2>4, BuildsStay
<1>7. ReadGone'
  BY <1>1, <1>2, <1>3, <1>4, LinkTypes DEF Becomes, ShareInv, ReadGone, LinkFacts, Requests
<1>8. PublishedRow'
  <2>1. CASE seen = NoLink
    BY <1>1, <1>2, <2>1, LinkTypes DEF Becomes, ShareInv, PublishedRow, LinkFacts
  <2>2. CASE seen # NoLink
    BY <1>2, <2>2, LinkTypes DEF PublishedRow, LinkFacts
  <2> QED BY <2>1, <2>2
<1>9. OnDisk'
  BY <1>2, <1>3, <1>4 DEF ShareInv, OnDisk
<1>10. Down' /\ Strayed'
  BY <1>2, <1>3, <1>4, LinkTypes DEF ShareInv, Down, Strayed, LinkFacts
<1>11. Outlives'
  BY <1>1, <1>2, <1>3, <1>4 DEF Becomes, ShareInv, Outlives
<1> QED BY <1>5, <1>6, <1>7, <1>8, <1>9, <1>10, <1>11 DEF ShareInv

LEMMA ShareCrash ==
  ASSUME Types, ShareInv, Crash
  PROVE  ShareInv'
<1>1. /\ Len(req') = Len(req) /\ DOMAIN req' = DOMAIN req
      /\ \A j \in DOMAIN req : req'[j].kind = req[j].kind /\ req'[j].pc = "over"
      /\ UNCHANGED <<link, disk, session>>
  BY CrashMoves DEF share
<1>2. \A j \in Sharers : req'[j] = req[j] \/ req'[j].seen = NoLink
  <2> SUFFICES ASSUME NEW j \in Sharers, req'[j] # req[j] PROVE req'[j].seen = NoLink
    OBVIOUS
  <2>1. /\ j \in DOMAIN req /\ req[j] \in Reqs /\ req[j].kind \notin Writers
        /\ req'[j] = [Over(req[j]) EXCEPT !.failed = req[j].kind \in Writers]
    BY Elements, CrashMoves DEF Sharers, Sharing, Writers
  <2>2. Over(req[j]) = [Blank EXCEPT !.kind = req[j].kind, !.pc = "over"]
    BY <2>1, OverType
  <2>3. [Blank EXCEPT !.kind = req[j].kind, !.pc = "over"].seen = NoLink
    BY DEF Blank
  <2>4. \A x \in Reqs : \A b \in BOOLEAN : [x EXCEPT !.failed = b].seen = x.seen
    BY DEF Reqs
  <2>5. Over(req[j]) \in Reqs
    BY <2>1, OverType
  <2>6. (req[j].kind \in Writers) \in BOOLEAN
    OBVIOUS
  <2> QED BY <2>1, <2>2, <2>3, <2>4, <2>5, <2>6
<1>3. Sharers' = Sharers /\ Publishing' = {} /\ Deleting' = {}
  BY <1>1 DEF Sharers, Publishing, Deleting
<1>4. /\ story'.down = story.down /\ story'.strays = story.strays
      /\ Publishing \subseteq story'.orphans /\ story.orphans \subseteq story'.orphans
      /\ \A j \in Sharers : req[j].pc # "over" => req[j].seen.token \in story'.cut
      /\ story.cut \subseteq story'.cut
  <2> DEFINE cut == Flying(Kinds)
  <2>1. story' = [story EXCEPT !.cut = @ \cup {req[i].seen.token : i \in cut},
                               !.orphans = @ \cup {i \in cut : req[i].kind = "publish"}]
    BY DEF Crash
  <2>2. \A j \in Sharers : req[j].pc # "over" => j \in cut
    BY DEF Sharers, Sharing, Flying, Kinds
  <2>3. \A j \in Publishing : j \in cut /\ req[j].kind = "publish"
    BY <2>2 DEF Publishing
  <2> HIDE DEF cut
  <2>4. /\ story'.down = story.down /\ story'.strays = story.strays
        /\ story'.cut = story.cut \cup {req[i].seen.token : i \in cut}
        /\ story'.orphans = story.orphans \cup {i \in cut : req[i].kind = "publish"}
    BY <2>1 DEF Types
  <2> QED BY <2>2, <2>3, <2>4
<1>5. LinksSound'
  BY <1>1, <1>2, <1>3, LinkTypes DEF ShareInv, LinksSound, LinkFacts
<1>6. BuildsOwn'
  BY <1>3 DEF BuildsOwn
<1>7. ReadGone'
  <2> SUFFICES ASSUME NEW j \in Sharers
               PROVE  /\ req'[j].seen.token \notin disk
                      /\ link.published /\ req'[j].seen.token = link.token /\ link.token > 0
                           => req'[j].seen.published
    BY <1>1, <1>3 DEF ReadGone, Sharers
  <2>1. CASE req'[j] = req[j]
    BY <2>1 DEF ShareInv, ReadGone
  <2>2. CASE req'[j].seen = NoLink
    <3>1. -1 \notin disk /\ NoLink.token = -1
      BY LinkTypes, DeliveryAssumption DEF LinkFacts, Requests
    <3>2. ~ (link.token > 0 /\ -1 = link.token)
      OBVIOUS
    <3> QED BY <2>2, <3>1, <3>2
  <2> QED BY <1>2, <2>1, <2>2
<1>8. PublishedRow'
  BY <1>1, <1>4 DEF ShareInv, PublishedRow
<1>9. OnDisk' /\ Down' /\ Strayed'
  BY <1>1, <1>3, <1>4 DEF ShareInv, OnDisk, Down, Strayed
<1>10. Outlives'
  BY <1>1, <1>3, <1>4 DEF ShareInv, Outlives
<1> QED BY <1>5, <1>6, <1>7, <1>8, <1>9, <1>10 DEF ShareInv

LEMMA ShareArrive ==
  ASSUME Types, ShareInv, NEW kind, NEW allow, NEW pin, NEW version,
         Arrives(kind, allow, pin, version)
  PROVE  ShareInv'
<1> DEFINE n == Len(req) + 1
<1>1. /\ Len(req') = n /\ DOMAIN req' = DOMAIN req \cup {n} /\ n \notin DOMAIN req
      /\ \A j \in DOMAIN req : req'[j] = Disturbed(kind, j)
      /\ req'[n] = Newcomer(kind, allow, pin, version)
      /\ session /\ UNCHANGED <<link, disk, session>>
  BY ArriveMoves DEF share
<1>2. \A j \in Sharers : j \in DOMAIN req /\ req'[j] = req[j]
  BY <1>1 DEF Disturbed, Flying, Sharers, Sharing, Writers
<1>3. \A j \in DOMAIN req : req'[j].kind = req[j].kind
  BY <1>1, Elements DEF Disturbed, Reqs
<1>4. req'[n].kind = kind /\ req'[n].pc = "start" /\ req'[n].seen = NoLink
  BY <1>1 DEF Newcomer, Blank
<1>5. /\ Sharers' = Sharers \cup {j \in {n} : kind \in Sharing} /\ n \notin Sharers
      /\ Publishing' = Publishing \cup {j \in {n} : kind = "publish"}
      /\ Deleting' = Deleting
  <2>1. Sharers' = Sharers \cup {j \in {n} : kind \in Sharing} /\ n \notin Sharers
    BY <1>1, <1>3, <1>4 DEF Sharers
  <2>2. Publishing' = Publishing \cup {j \in {n} : kind = "publish"}
    BY <1>2, <1>4, <2>1 DEF Publishing, Sharing
  <2>3. Deleting' = Deleting
    BY <1>2, <1>4, <2>1 DEF Deleting
  <2> QED BY <2>1, <2>2, <2>3
<1>6. /\ kind # "publish" => story' = story
      /\ kind = "publish" => story' = [story EXCEPT !.down = FALSE,
                                !.strays = @ \cup {j \in {n} : Flying({"delete"}) # {}}]
  BY DEF Arrives, Arrive
<1>7. /\ story'.cut = story.cut /\ story'.orphans = story.orphans
      /\ kind # "publish" => story'.down = story.down
      /\ kind = "publish" => story'.down = FALSE
      /\ story.strays \subseteq story'.strays
      /\ kind = "publish" /\ Deleting # {} => n \in story'.strays
  <2>1. Deleting # {} => Flying({"delete"}) # {}
    BY DEF Deleting, Flying, Sharers
  <2>2. CASE kind # "publish"
    BY <1>6, <2>2
  <2>3. CASE kind = "publish"
    <3>1. /\ story'.cut = story.cut /\ story'.orphans = story.orphans
          /\ story'.down = FALSE
          /\ story'.strays = story.strays \cup {j \in {n} : Flying({"delete"}) # {}}
      BY <1>6, <2>3 DEF Types
    <3> QED BY <2>1, <2>3, <3>1
  <2> QED BY <2>2, <2>3
<1>8. Len(req) \in Nat /\ DOMAIN req = 1 .. Len(req) /\ n \notin disk /\ link.token # n
      /\ NoLink.token = -1 /\ -1 \notin disk /\ \A j \in Sharers : req[j].seen.token # n
  <2>1. Len(req) \in Nat /\ DOMAIN req = 1 .. Len(req) /\ NoLink.token = -1
        /\ disk \subseteq 1 .. Len(req) /\ link.token <= Len(req) /\ link.token \in Tokens
        /\ \A j \in Sharers : req[j].seen.token <= Len(req) /\ req[j].seen.token \in Tokens
    BY LinkTypes DEF ShareInv, LinksSound, LinkFacts, Sharers
  <2>2. Tokens \subseteq Int
    BY DeliveryAssumption DEF Tokens, Requests
  <2> QED BY <2>1, <2>2
<1>9. LinksSound'
  <2>1. link.token <= n /\ \A j \in Sharers : req[j].seen.token <= n
    <3>1. Tokens \subseteq Int /\ link.token \in Tokens
          /\ \A j \in Sharers : req[j].seen.token \in Tokens
      BY LinkTypes, DeliveryAssumption DEF Tokens, Requests, LinkFacts, Sharers
    <3>2. link.token <= Len(req) /\ \A j \in Sharers : req[j].seen.token <= Len(req)
      BY DEF ShareInv, LinksSound
    <3>3. Len(req) \in Nat
      BY <1>8
    <3>4. \A x \in Int : x <= Len(req) => x <= n
      BY <3>3
    <3> HIDE DEF n
    <3> QED BY <3>1, <3>2, <3>4
  <2> QED BY <1>1, <1>2, <1>4, <1>5, <1>8, <2>1 DEF ShareInv, LinksSound
<1>10. BuildsOwn'
  <2> SUFFICES ASSUME NEW k \in Publishing'
               PROVE  /\ link.token # k /\ \A j \in Sharers' : req'[j].seen.token # k
                      /\ req'[k].pc = "built" <=> k \in disk
    BY <1>1 DEF BuildsOwn
  <2>1. CASE k = n
    BY <1>2, <1>4, <1>5, <1>8, <2>1
  <2>2. CASE k \in Publishing
    <3>1. k \in Sharers /\ k # -1
      BY <1>8, <1>2, <2>2 DEF Publishing
    <3> QED BY <1>2, <1>4, <1>5, <1>8, <2>2, <3>1 DEF ShareInv, BuildsOwn
  <2> QED BY <1>5, <2>1, <2>2
<1>11. ReadGone'
  <2>1. ~ (link.token > 0 /\ -1 = link.token)
    OBVIOUS
  <2> QED BY <1>1, <1>2, <1>4, <1>5, <1>8, <2>1 DEF ShareInv, ReadGone
<1>12. PublishedRow'
  BY <1>1, <1>2, <1>5, <1>7 DEF ShareInv, PublishedRow
<1>13. OnDisk' /\ Down' /\ Strayed'
  BY <1>1, <1>5, <1>7 DEF ShareInv, OnDisk, Down, Strayed
<1>14. Outlives'
  BY <1>1, <1>2, <1>5, <1>7 DEF ShareInv, Outlives, Deleting
<1> QED BY <1>9, <1>10, <1>11, <1>12, <1>13, <1>14 DEF ShareInv

LEMMA NextShares ==
  ASSUME Types, ShareInv, [Next]_vars
  PROVE  ShareInv'
<1>1. CASE \E kind, allow, pin, version : Arrives(kind, allow, pin, version)
  BY <1>1, ShareArrive
<1>2. CASE \E i \in DOMAIN req : Writing(i) \/ Packing(i) \/ Linking(i)
  BY <1>2, ShareElsewhere, SharePublish, SharePublishCommit, ShareRevoke,
     ShareRevokeCommit, ShareDelete, ShareDeleteCommit DEF Linking
<1>3. CASE Crash
  BY <1>3, ShareCrash
<1>4. CASE UNCHANGED vars
  <2>1. UNCHANGED <<req, link, disk, session, story>>
    BY <1>4 DEF vars, share
  <2>2. Sharers' = Sharers
    BY <2>1 DEF Sharers
  <2> QED BY <2>1, <2>2, ShareFrame
<1> QED BY <1>1, <1>2, <1>3, <1>4, StepCases

\* SharesAreAccounted holds in every state: a published row is served unless what
\* took its bundle is known, a bundle on disk is the row's, is being published or
\* was taken from the row, a revoke alone takes the share down, and no link but a
\* stray's outlives its session.
THEOREM SharesAccounted == Spec => []SharesAreAccounted
<1>1. Init => Types /\ ShareInv
  BY InitTypes, InitShares
<1>2. Types /\ ShareInv /\ [Next]_vars => (Types /\ ShareInv)'
  BY NextTypes, NextShares
<1>3. Types /\ ShareInv => SharesAreAccounted
  BY ShareImplies
<1> QED BY <1>1, <1>2, <1>3, PTL DEF Spec

-----------------------------------------------------------------------------
(* Restores.                                                               *)

\* Every content has an author, who is a turn or an upload.
Contents ==
  /\ \A f \in Files : work[f] <= Len(author) /\ index[f] <= Len(author)
  /\ \A c \in DOMAIN commits : \A f \in Files : commits[c].tree[f] <= Len(author)
  /\ \A i \in DOMAIN req : req[i].kind \in Writers => req[i].lost \subseteq 1 .. Len(author)
  /\ \A e \in 1 .. Len(author) :
       author[e] \in DOMAIN req /\ req[author[e]].kind \in {"turn", "upload"}
\* A writer that is still undisturbed is the only one, and nothing deletes beside it.
Undisturbed ==
  \A i \in Flying(Writers) : req[i].calm => \A j \in Flying(Writers \cup {"delete"}) : j = i

Excused(i) == req[i].failed \/ ~ req[i].calm
Versioned(e) == \E c \in DOMAIN commits : \E f \in Files : commits[c].tree[f] = e
Busy(i) == req[i].pc \in {"start", "written", "staged", "differs"}
\* What the workspace holds is in a version, or its author is excused or not done.
Settled(e) == e = 0 \/ Versioned(e) \/ Excused(author[e]) \/ Busy(author[e])
AllSettled == \A f \in Files : Settled(work[f]) /\ Settled(index[f])

\* Undisturbed, a turn or an upload commits the working tree ...
StagedWork ==
  \A i \in DOMAIN req :
    req[i].kind \in {"turn", "upload"} /\ req[i].pc \in {"staged", "differs"} /\ req[i].calm
      => index = work
\* ... and a restore its target.
Restored ==
  \A i \in DOMAIN req :
    req[i].kind = "restore" /\ req[i].calm =>
      /\ req[i].exact /\ \A e \in req[i].lost : Excused(author[e])
      /\ req[i].pc \in {"read", "out", "cleaned", "staged", "differs"}
           => index = commits[req[i].base].tree
      /\ req[i].pc = "out" => \A f \in Files : index[f] # 0 => work[f] = index[f]
      /\ req[i].pc = "cleaned" => work = index

WorkInv == Contents /\ Undisturbed /\ AllSettled /\ StagedWork /\ Restored

LEMMA WorkImplies == Types /\ WorkInv => RestoresAreExact
  BY DEF WorkInv, Restored, RestoresAreExact, Excused

LEMMA InitWork == Init => WorkInv
<1> SUFFICES ASSUME Init PROVE WorkInv
  OBVIOUS
<1>1. req = <<>> /\ Len(req) = 0 /\ DOMAIN req = {} /\ author = <<>> /\ Len(author) = 0
  BY EmptySeq, LenProperties DEF Init
<1>2. /\ work = Empty /\ index = Empty /\ \A f \in Files : Empty[f] = 0
      /\ \A c \in DOMAIN commits : commits[c].tree = Empty
  BY DEF Init, Empty
<1>3. Contents
  BY <1>1, <1>2 DEF Contents
<1>4. AllSettled
  BY <1>2 DEF AllSettled, Settled
<1>5. Undisturbed /\ StagedWork /\ Restored
  BY <1>1 DEF Undisturbed, StagedWork, Restored, Flying
<1> QED BY <1>3, <1>4, <1>5 DEF WorkInv

\* What the steps below use of the types.
WorkFacts ==
  /\ Len(author) \in Nat /\ MaxEdits \in Nat
  /\ work \in Trees /\ index \in Trees
  /\ \A f \in Files : work[f] \in Nat /\ index[f] \in Nat
  /\ Top \in Nat /\ Top >= 1 /\ DOMAIN commits = 1 .. Top
  /\ \A c \in DOMAIN commits : commits[c].tree \in Trees
                               /\ \A f \in Files : commits[c].tree[f] \in Nat
  /\ \A i \in DOMAIN req : req[i] \in Reqs
                           /\ (req[i].kind = "restore" => req[i].base \in DOMAIN commits)

LEMMA WorkTypes == Types => WorkFacts
<1> SUFFICES ASSUME Types PROVE WorkFacts
  OBVIOUS
<1>1. /\ Len(author) \in Nat /\ MaxEdits \in Nat /\ work \in Trees /\ index \in Trees
      /\ Top \in Nat /\ Top >= 1 /\ DOMAIN commits = 1 .. Top
      /\ \A c \in DOMAIN commits : commits[c].tree \in Trees
      /\ \A i \in DOMAIN req : req[i] \in Reqs
  BY Elements, DeliveryAssumption DEF Types, Versions, Top
<1>2. \A t \in Trees : \A f \in Files : t[f] \in Nat
  BY DeliveryAssumption DEF Trees
<1>3. \A i \in DOMAIN req : req[i].kind = "restore" => req[i].base \in DOMAIN commits
  <2>1. \A i \in DOMAIN req : /\ req[i].base \in 0 .. Len(commits)
                              /\ req[i].kind = "restore" => req[i].base >= 1
    BY DEF Types
  <2> QED BY <1>1, <2>1 DEF Top
<1> QED BY <1>1, <1>2, <1>3 DEF WorkFacts

\* A step of a writer, as the other requests see it.
Works(i, r) ==
  /\ i \in Flying(Writers) /\ DOMAIN req' = DOMAIN req
  /\ req'[i] = r /\ \A j \in DOMAIN req : j # i => req'[j] = req[j]
  /\ r.kind = req[i].kind /\ r.calm = req[i].calm /\ (req[i].failed => r.failed)

LEMMA OwnSteps ==
  ASSUME Types, NEW i \in DOMAIN req, NEW r \in Reqs, req[i].kind \in Writers,
         req[i].pc # "over", req' = [req EXCEPT ![i] = r],
         r.kind = req[i].kind, r.calm = req[i].calm, req[i].failed => r.failed
  PROVE  Works(i, r)
  BY MoveOne DEF Works, Flying

\* A writer's own clauses are all there is to show of a step of it: whoever flies
\* beside it is disturbed already.
LEMMA OwnClauses ==
  ASSUME Types, WorkInv, NEW i, NEW r, Works(i, r),
         Len(author') \in Nat, Len(author) <= Len(author'),
         \A e \in 1 .. Len(author) : author'[e] = author[e],
         \A c \in DOMAIN commits : c \in DOMAIN commits' /\ commits'[c] = commits[c],
         r.kind \in {"turn", "upload"} /\ r.pc \in {"staged", "differs"} /\ r.calm
           => index' = work',
         r.kind = "restore" /\ r.calm =>
           /\ r.exact /\ \A e \in r.lost : e \in 1 .. Len(author) /\ Excused(author[e])
           /\ r.pc \in {"read", "out", "cleaned", "staged", "differs"}
                => index' = commits'[r.base].tree
           /\ r.pc = "out" => \A f \in Files : index'[f] # 0 => work'[f] = index'[f]
           /\ r.pc = "cleaned" => work' = index'
  PROVE  Undisturbed' /\ StagedWork' /\ Restored'
<1>0. /\ i \in DOMAIN req /\ i \in Flying(Writers) /\ req[i].kind \in Writers
      /\ req[i].pc # "over" /\ DOMAIN req' = DOMAIN req
      /\ req'[i] = r /\ \A j \in DOMAIN req : j # i => req'[j] = req[j]
      /\ r.kind = req[i].kind /\ r.calm = req[i].calm /\ (req[i].failed => r.failed)
  BY DEF Works, Flying
<1>1. Undisturbed'
  <2> SUFFICES ASSUME NEW k \in Flying(Writers)', req'[k].calm,
                      NEW j \in Flying(Writers \cup {"delete"})'
               PROVE  j = k
    BY DEF Undisturbed
  <2>1. k \in Flying(Writers) /\ req[k].calm /\ j \in Flying(Writers \cup {"delete"})
    BY <1>0 DEF Flying
  <2> QED BY <2>1 DEF WorkInv, Undisturbed
<1>2. ASSUME NEW j \in DOMAIN req, j # i, req[j].kind \in Writers, req[j].calm
      PROVE  req[j].pc = "over"
  <2> SUFFICES ASSUME req[j].pc # "over" PROVE FALSE
    OBVIOUS
  <2>1. j \in Flying(Writers) /\ i \in Flying(Writers \cup {"delete"})
    BY <1>0, <1>2 DEF Flying
  <2> QED BY <1>2, <2>1 DEF WorkInv, Undisturbed
<1>3. StagedWork'
  <2> SUFFICES ASSUME NEW j \in DOMAIN req', req'[j].kind \in {"turn", "upload"},
                      req'[j].pc \in {"staged", "differs"}, req'[j].calm
               PROVE  index' = work'
    BY DEF StagedWork
  <2> QED BY <1>0, <1>2 DEF Writers
<1>4. \A k \in DOMAIN req : Excused(k) => Excused(k)'
  BY <1>0 DEF Excused
<1>5. \A j \in DOMAIN req : req[j].kind = "restore" => \A e \in req[j].lost :
        e \in 1 .. Len(author) /\ author[e] \in DOMAIN req
  BY DEF WorkInv, Contents, Writers
<1>6. Restored'
  <2> SUFFICES ASSUME NEW j \in DOMAIN req', req'[j].kind = "restore", req'[j].calm
               PROVE  /\ req'[j].exact /\ \A e \in req'[j].lost : Excused(author[e])'
                      /\ req'[j].pc \in {"read", "out", "cleaned", "staged", "differs"}
                           => index' = commits'[req'[j].base].tree
                      /\ req'[j].pc = "out" => \A f \in Files : index'[f] # 0 => work'[f] = index'[f]
                      /\ req'[j].pc = "cleaned" => work' = index'
    BY DEF Restored
  <2>1. CASE j = i
    <3>1. \A e \in 1 .. Len(author) : author[e] \in DOMAIN req
      BY DEF WorkInv, Contents
    <3>2. \A e \in r.lost : Excused(author[e])'
      <4> SUFFICES ASSUME NEW e \in r.lost PROVE Excused(author[e])'
        OBVIOUS
      <4>1. e \in 1 .. Len(author) /\ Excused(author[e]) /\ author'[e] = author[e]
        BY <1>0, <2>1
      <4> QED BY <1>4, <3>1, <4>1
    <3> QED BY <1>0, <2>1, <3>2 DEF Excused
  <2>2. CASE j # i
    <3>1. j \in DOMAIN req /\ req'[j] = req[j] /\ req[j].pc = "over"
      BY <1>0, <1>2, <2>2 DEF Writers
    <3>2. req[j].exact /\ \A e \in req[j].lost : Excused(author[e])
      BY <3>1 DEF WorkInv, Restored
    <3>3. \A e \in req[j].lost : author'[e] = author[e] /\ author[e] \in DOMAIN req
      BY <1>5, <3>1
    <3> QED BY <1>4, <3>1, <3>2, <3>3 DEF Excused
  <2> QED BY <2>1, <2>2
<1> QED BY <1>1, <1>3, <1>6

\* What was settled stays so, unless its author was still busy and no longer is.
LEMMA SettledStays ==
  ASSUME Types, WorkInv, NEW i, NEW r, Works(i, r),
         \A e \in 1 .. Len(author) : author'[e] = author[e],
         \A c \in DOMAIN commits : c \in DOMAIN commits' /\ commits'[c] = commits[c],
         NEW e, e \in Nat, e <= Len(author), Settled(e),
         e # 0 /\ author[e] = i /\ Busy(i) /\ ~ Excused(i)
           => Busy(i)' \/ Excused(i)' \/ Versioned(e)'
  PROVE  Settled(e)'
<1>1. CASE e = 0
  BY <1>1 DEF Settled
<1>2. CASE e # 0
  <2>0. Len(author) \in Nat
    BY Elements
  <2>1. e \in 1 .. Len(author) /\ author'[e] = author[e] /\ author[e] \in DOMAIN req
    BY <1>2, <2>0 DEF WorkInv, Contents
  <2>2. Versioned(e) => Versioned(e)'
    BY DEF Versioned
  <2>3. Excused(author[e]) => Excused(author[e])'
    BY <2>1 DEF Excused, Works
  <2>4. author[e] # i /\ Busy(author[e]) => Busy(author[e])'
    BY <2>1 DEF Busy, Works
  <2> DEFINE a == author[e]
  <2>5. CASE a = i /\ Busy(i) /\ ~ Excused(i)
    <3>1. Busy(i)' \/ Excused(i)' \/ Versioned(e)'
      BY <1>2, <2>5
    <3>2. author'[e] = i
      BY <2>1, <2>5
    <3> QED BY <3>1, <3>2 DEF Settled, Busy, Excused
  <2>6. CASE ~ (a = i /\ Busy(i) /\ ~ Excused(i))
    <3>1. Versioned(e) \/ Excused(a) \/ Busy(a)
      BY <1>2 DEF Settled
    <3>2. Versioned(e)' \/ Excused(author[e])' \/ Busy(author[e])'
      BY <2>2, <2>3, <2>4, <2>6, <3>1
    <3> QED BY <3>2 DEF Settled, Busy, Excused
  <2> QED BY <2>5, <2>6
<1> QED BY <1>1, <1>2

\* A file is written: its content is the newest, and its author is busy or fails.
LEMMA WorkWrite ==
  ASSUME Types, WorkInv, NEW i \in DOMAIN req, NEW f \in Files, Write(i, f),
         NEW r \in Reqs, req' = [req EXCEPT ![i] = r],
         req[i].kind \in {"turn", "upload"}, req[i].pc = "start",
         r.kind = req[i].kind, r.calm = req[i].calm, r.lost = req[i].lost,
         req[i].failed => r.failed, r.pc \in {"start", "written"} \/ r.failed,
         r.pc \notin {"staged", "differs"}
  PROVE  WorkInv'
<1> DEFINE n == Len(author) + 1
<1>0. /\ work' = [work EXCEPT ![f] = n] /\ index' = index /\ commits' = commits
      /\ author' = Append(author, i)
  BY DEF Write
<1>1. Works(i, r)
  BY OwnSteps DEF Writers
<1>2. /\ Len(author') = n /\ author'[n] = i /\ Len(author) \in Nat /\ n \in Nat
      /\ \A e \in 1 .. Len(author) : author'[e] = author[e]
  BY <1>0, AppendProperties, Elements DEF Types
<1>3. /\ DOMAIN work = Files /\ work'[f] = n
      /\ \A g \in Files : g # f => work'[g] = work[g]
  BY <1>0 DEF Types, Trees
<1>4. Undisturbed' /\ StagedWork' /\ Restored'
  <2>1. r.kind # "restore"
    OBVIOUS
  <2>2. Len(author') \in Nat /\ Len(author) <= Len(author')
    BY <1>2
  <2> QED BY <1>0, <1>1, <1>2, <2>1, <2>2, OwnClauses
<1>5. /\ \A g \in Files : work[g] \in Nat /\ work[g] <= Len(author)
                          /\ index[g] \in Nat /\ index[g] <= Len(author)
      /\ \A c \in DOMAIN commits : \A g \in Files :
           commits[c].tree[g] \in Nat /\ commits[c].tree[g] <= Len(author)
  BY WorkTypes DEF WorkFacts, WorkInv, Contents
<1>6. Contents'
  <2>1. \A g \in Files : work'[g] <= n /\ index'[g] <= n
    BY <1>0, <1>2, <1>3, <1>5
  <2>2. \A c \in DOMAIN commits : \A g \in Files : commits[c].tree[g] <= n
    BY <1>2, <1>5
  <2>3. \A j \in DOMAIN req' : /\ req'[j].lost = req[j].lost /\ req'[j].kind = req[j].kind
                               /\ j \in DOMAIN req
    BY <1>1 DEF Works
  <2>4. \A j \in DOMAIN req' : req'[j].kind \in Writers => req'[j].lost \subseteq 1 .. n
    BY <1>2, <2>3 DEF WorkInv, Contents
  <2>5. ASSUME NEW e \in 1 .. n
        PROVE  author'[e] \in DOMAIN req' /\ req'[author'[e]].kind \in {"turn", "upload"}
    <3>1. CASE e = n
      BY <1>1, <1>2, <3>1 DEF Works
    <3>2. CASE e # n
      <4>1. e \in 1 .. Len(author)
        BY <1>2, <3>2
      <4>2. author[e] \in DOMAIN req /\ req[author[e]].kind \in {"turn", "upload"}
        BY <4>1 DEF WorkInv, Contents
      <4> QED BY <1>1, <1>2, <4>1, <4>2 DEF Works
    <3> QED BY <3>1, <3>2
  <2> QED BY <1>0, <1>2, <2>1, <2>2, <2>4, <2>5 DEF Contents
<1>7. ASSUME NEW e \in Nat, e <= Len(author), Settled(e)
      PROVE  Settled(e)'
  <2>1. Busy(i)' \/ Excused(i)'
    BY <1>1 DEF Works, Busy, Excused
  <2> QED BY <1>0, <1>1, <1>2, <1>7, <2>1, SettledStays
<1>8. \A m : m = n => Settled(m)'
  <2> SUFFICES ASSUME NEW m, m = n PROVE Settled(m)'
    OBVIOUS
  <2>1. Busy(i)' \/ Excused(i)'
    BY <1>1 DEF Works, Busy, Excused
  <2>2. author'[m] = i
    BY <1>2
  <2> QED BY <2>1, <2>2 DEF Settled, Busy, Excused
<1>9. AllSettled'
  <2> SUFFICES ASSUME NEW g \in Files PROVE Settled(work[g])' /\ Settled(index[g])'
    BY DEF AllSettled
  <2>1. Settled(work[g]) /\ Settled(index[g])
    BY DEF WorkInv, AllSettled
  <2>2. Settled(index[g])'
    <3> DEFINE e == index[g]
    <3>1. e \in Nat /\ e <= Len(author) /\ Settled(e) /\ index'[g] = e
      BY <1>0, <1>5, <2>1
    <3>2. \A x \in Nat : x <= Len(author) /\ Settled(x) => Settled(x)'
      BY <1>7
    <3> QED BY <3>1, <3>2 DEF Settled, Versioned
  <2>3. Settled(work[g])'
    <3> DEFINE e == work[g]
    <3>1. CASE g = f
      <4>1. PICK m : m = n
        OBVIOUS
      <4> QED BY <1>3, <1>8, <3>1, <4>1 DEF Settled, Versioned
    <3>2. CASE g # f
      <4>1. e \in Nat /\ e <= Len(author) /\ Settled(e) /\ work'[g] = e
        BY <1>3, <1>5, <2>1, <3>2
      <4>2. \A x \in Nat : x <= Len(author) /\ Settled(x) => Settled(x)'
        BY <1>7
      <4> QED BY <4>1, <4>2 DEF Settled, Versioned
    <3> QED BY <3>1, <3>2
  <2> QED BY <2>2, <2>3
<1> QED BY <1>4, <1>6, <1>9 DEF WorkInv

\* A step of a writer that writes nothing new.
LEMMA WorkStays ==
  ASSUME Types, WorkInv, NEW i, NEW r, Works(i, r), author' = author,
         \A e \in r.lost : e \in 1 .. Len(author) /\
                           (r.kind = "restore" /\ r.calm => Excused(author[e])),
         \A c \in DOMAIN commits : c \in DOMAIN commits' /\ commits'[c] = commits[c],
         \A c \in DOMAIN commits' \ DOMAIN commits : commits'[c].tree = index,
         \A f \in Files : work'[f] \in {0, work[f], index[f]},
         \/ index' = index \/ index' = work
         \/ \E c \in DOMAIN commits : index' = commits[c].tree,
         req[i].kind # "restore" /\ Busy(i) /\ ~ Excused(i) =>
           \/ Busy(i)' \/ Excused(i)'
           \/ \A f \in Files : Versioned(work[f])' /\ Versioned(index[f])',
         r.kind \in {"turn", "upload"} /\ r.pc \in {"staged", "differs"} /\ r.calm
           => index' = work',
         r.kind = "restore" /\ r.calm =>
           /\ r.exact
           /\ r.pc \in {"read", "out", "cleaned", "staged", "differs"}
                => index' = commits'[r.base].tree
           /\ r.pc = "out" => \A f \in Files : index'[f] # 0 => work'[f] = index'[f]
           /\ r.pc = "cleaned" => work' = index'
  PROVE  WorkInv'
<1>0. Len(author) \in Nat
  BY WorkTypes DEF WorkFacts
<1>1. Undisturbed' /\ StagedWork' /\ Restored'
  BY <1>0, OwnClauses
<1>2. /\ \A f \in Files : work[f] \in Nat /\ work[f] <= Len(author)
                          /\ index[f] \in Nat /\ index[f] <= Len(author)
      /\ \A c \in DOMAIN commits : \A f \in Files :
           commits[c].tree[f] \in Nat /\ commits[c].tree[f] <= Len(author)
  BY WorkTypes DEF WorkFacts, WorkInv, Contents
<1>3. \A f \in Files : /\ work'[f] \in Nat /\ work'[f] <= Len(author)
                       /\ index'[f] \in Nat /\ index'[f] <= Len(author)
  BY <1>0, <1>2
<1>4. Contents'
  <2>1. \A c \in DOMAIN commits' : \A f \in Files : commits'[c].tree[f] <= Len(author)
    BY <1>2
  <2>2. \A j \in DOMAIN req' : req'[j].kind \in Writers => req'[j].lost \subseteq 1 .. Len(author)
    BY DEF Works, WorkInv, Contents
  <2>3. \A e \in 1 .. Len(author) :
          author[e] \in DOMAIN req' /\ req'[author[e]].kind \in {"turn", "upload"}
    BY DEF Works, WorkInv, Contents
  <2> QED BY <1>3, <2>1, <2>2, <2>3 DEF Contents
<1>5. ASSUME NEW e, e \in Nat, e <= Len(author), Settled(e),
             \E f \in Files : e \in {work'[f], index'[f]}
      PROVE  Settled(e)'
  <2>1. PICK f \in Files : e \in {work'[f], index'[f]}
    BY <1>5
  <2>2. CASE req[i].kind # "restore" /\ Busy(i) /\ ~ Excused(i) /\ e # 0
               => Busy(i)' \/ Excused(i)' \/ Versioned(e)'
    <3>1. e # 0 => e \in 1 .. Len(author)
      BY <1>0, <1>5
    <3>2. e # 0 /\ author[e] = i => req[i].kind # "restore"
      BY <3>1 DEF WorkInv, Contents
    <3> QED BY <1>5, <2>2, <3>2, SettledStays
  <2>3. CASE \A g \in Files : Versioned(work[g])' /\ Versioned(index[g])'
    <3>1. Versioned(work[f])' /\ Versioned(index[f])'
      BY <2>3
    <3>2. CASE e = work'[f]
      BY <3>1, <3>2 DEF Settled, Versioned
    <3>3. CASE e = index'[f]
      BY <3>1, <3>3 DEF Settled, Versioned
    <3> QED BY <2>1, <3>2, <3>3
  <2> QED BY <2>2, <2>3
<1>6. \A c \in DOMAIN commits : \A f \in Files : Settled(commits[c].tree[f])
  BY DEF Settled, Versioned
<1>7. \A f \in Files : Settled(0) /\ Settled(work[f]) /\ Settled(index[f])
  BY DEF WorkInv, AllSettled, Settled
<1>8. ASSUME NEW f \in Files, NEW e, e \in {work'[f], index'[f]}
      PROVE  Settled(e)'
  <2>1. Settled(e)
    BY <1>6, <1>7, <1>8
  <2>2. e \in Nat /\ e <= Len(author)
    BY <1>3, <1>8
  <2> QED BY <1>5, <1>8, <2>1, <2>2
<1>9. AllSettled'
  <2> SUFFICES ASSUME NEW f \in Files PROVE Settled(work[f])' /\ Settled(index[f])'
    BY DEF AllSettled
  <2>1. \A e : e \in {work'[f], index'[f]} => Settled(e)'
    BY <1>8
  <2>2. PICK w, x : w = work'[f] /\ x = index'[f]
    OBVIOUS
  <2>3. Settled(w)' /\ Settled(x)'
    BY <2>1, <2>2
  <2> QED BY <2>2, <2>3 DEF Settled, Versioned
<1> QED BY <1>1, <1>4, <1>9 DEF WorkInv

LEMMA WorkEdits ==
  ASSUME Types, WorkInv, NEW i \in DOMAIN req, NEW f \in Files,
         Edit(i, f) \/ Upload(i, f) \/ ImportRefused(i, f)
  PROVE  WorkInv'
<1> DEFINE q == req[i]
<1>0. q \in Reqs /\ "written" \in Pcs /\ "over" \in Pcs
  BY Elements DEF Pcs
<1>1. CASE Edit(i, f)
  <2>1. q.kind = "turn" /\ q.pc = "start" /\ Write(i, f) /\ req' = req
    BY <1>1 DEF Edit, At
  <2>2. req \in [1 .. Len(req) -> Reqs]
    BY LenProperties DEF Types
  <2>3. req' = [req EXCEPT ![i] = q]
    BY <2>1, <2>2
  <2> QED BY <1>0, <2>1, <2>3, WorkWrite
<1>2. CASE Upload(i, f)
  <2> DEFINE r == [q EXCEPT !.pc = "written"]
  <2>1. q.kind = "upload" /\ q.pc = "start" /\ Write(i, f) /\ req' = [req EXCEPT ![i] = r]
    BY <1>2 DEF Upload, At, Goes
  <2>2. r \in Reqs /\ r.kind = q.kind /\ r.calm = q.calm /\ r.lost = q.lost
        /\ r.failed = q.failed /\ r.pc = "written"
    BY <1>0 DEF Reqs
  <2> HIDE DEF r
  <2> QED BY <2>1, <2>2, WorkWrite
<1>3. CASE ImportRefused(i, f)
  <2> DEFINE r == [q EXCEPT !.pc = "over", !.failed = TRUE]
  <2>1. q.kind = "upload" /\ q.pc = "start" /\ Write(i, f) /\ req' = [req EXCEPT ![i] = r]
    BY <1>3 DEF ImportRefused, At
  <2>2. r \in Reqs /\ r.kind = q.kind /\ r.calm = q.calm /\ r.lost = q.lost
        /\ r.failed /\ r.pc = "over"
    BY <1>0 DEF Reqs
  <2> HIDE DEF r
  <2> QED BY <2>1, <2>2, WorkWrite
<1> QED BY <1>1, <1>2, <1>3

\* What a request of a writer keeps of itself in every step but the last ones below.
LEMMA OwnLost ==
  ASSUME WorkInv, NEW i \in DOMAIN req, req[i].kind \in Writers
  PROVE  /\ \A e \in req[i].lost : e \in 1 .. Len(author) /\
              (req[i].kind = "restore" /\ req[i].calm => Excused(author[e]))
         /\ req[i].kind = "restore" /\ req[i].calm => req[i].exact
  BY DEF WorkInv, Contents, Restored

\* A request that fails, or takes a step that touches no tree.
LEMMA WorkRests ==
  ASSUME Types, WorkInv, NEW i \in DOMAIN req,
         Fail(i) \/ Name(i) \/ NoRepo(i) \/ (\E escaped \in BOOLEAN : Record(i, escaped))
         \/ (\E f \in Files : UploadRefused(i, f))
  PROVE  WorkInv'
<1> DEFINE q == req[i]
<1>0. q \in Reqs /\ "named" \in Pcs /\ "over" \in Pcs /\ Top \in Nat
  BY Elements DEF Pcs
<1>1. ASSUME NEW r \in Reqs, q.kind \in Writers, q.pc # "over", req' = [req EXCEPT ![i] = r],
             r.kind = q.kind, r.calm = q.calm, q.failed => r.failed,
             r.lost = q.lost, r.exact = q.exact,
             r.pc \in {"named", "over"}, ~ Busy(i) \/ r.failed, r.pc = "over" \/ r.kind = "turn",
             UNCHANGED <<index, commits, author>>, \A f \in Files : work'[f] \in {0, work[f]}
      PROVE  WorkInv'
  <2>1. Works(i, r)
    BY <1>1, OwnSteps
  <2>2. Busy(i) /\ ~ Excused(i) => Excused(i)'
    BY <1>1, <2>1 DEF Works, Excused
  <2> QED BY <1>1, <2>1, <2>2, OwnLost, WorkStays
<1>2. CASE Fail(i) \/ NoRepo(i) \/ \E f \in Files : UploadRefused(i, f)
  <2> DEFINE r == [q EXCEPT !.pc = "over", !.failed = TRUE]
  <2>1. /\ req' = [req EXCEPT ![i] = r] /\ q.kind \in Writers /\ q.pc # "over"
        /\ UNCHANGED <<index, commits, author>>
    <3>1. CASE Fail(i)
      BY <3>1 DEF Fail, At, tree, Writers
    <3>2. CASE NoRepo(i)
      BY <3>2 DEF NoRepo, Flying, tree, Writers
    <3>3. CASE \E f \in Files : UploadRefused(i, f)
      BY <3>3 DEF UploadRefused, At, Writers
    <3> QED BY <1>2, <3>1, <3>2, <3>3
  <2>2. \A f \in Files : work'[f] \in {0, work[f]}
    <3>1. CASE Fail(i) \/ NoRepo(i)
      BY <3>1 DEF Fail, NoRepo, tree
    <3>2. CASE \E f \in Files : UploadRefused(i, f)
      <4>1. PICK f \in Files : work' = [work EXCEPT ![f] = 0]
        BY <3>2 DEF UploadRefused
      <4>2. DOMAIN work = Files
        BY DEF Types, Trees
      <4> QED BY <4>1, <4>2
    <3> QED BY <1>2, <3>1, <3>2
  <2>3. r \in Reqs /\ r.kind = q.kind /\ r.calm = q.calm /\ r.lost = q.lost
        /\ r.exact = q.exact /\ r.failed /\ r.pc = "over"
    BY <1>0 DEF Reqs
  <2> HIDE DEF r
  <2> QED BY <1>1, <2>1, <2>2, <2>3
<1>3. CASE Name(i)
  <2> DEFINE r == [q EXCEPT !.pc = "named", !.head = Top]
  <2>1. /\ req' = [req EXCEPT ![i] = r] /\ q.kind = "turn" /\ q.pc = "committed"
        /\ UNCHANGED <<work, index, commits, author>>
    BY <1>3 DEF Name, At, tree
  <2>3. r \in Reqs /\ r.kind = q.kind /\ r.calm = q.calm /\ r.lost = q.lost
        /\ r.exact = q.exact /\ r.failed = q.failed /\ r.pc = "named"
    BY <1>0 DEF Reqs
  <2>4. ~ Busy(i) /\ q.kind \in Writers
    BY <2>1 DEF Busy, Writers
  <2> HIDE DEF r
  <2> QED BY <1>1, <2>1, <2>3, <2>4
<1>4. CASE \E escaped \in BOOLEAN : Record(i, escaped)
  <2>0. PICK escaped \in BOOLEAN : Record(i, escaped)
    BY <1>4
  <2> DEFINE r == [q EXCEPT !.pc = "over", !.escaped = escaped]
  <2>1. /\ req' = [req EXCEPT ![i] = r] /\ q.kind = "turn" /\ q.pc = "named"
        /\ UNCHANGED <<work, index, commits, author>>
    BY <2>0 DEF Record, At, tree
  <2>3. r \in Reqs /\ r.kind = q.kind /\ r.calm = q.calm /\ r.lost = q.lost
        /\ r.exact = q.exact /\ r.failed = q.failed /\ r.pc = "over"
    BY <1>0 DEF Reqs
  <2>4. ~ Busy(i) /\ q.kind \in Writers
    BY <2>1 DEF Busy, Writers
  <2> HIDE DEF r
  <2> QED BY <1>1, <2>1, <2>3, <2>4
<1> QED BY <1>2, <1>3, <1>4

\* git add -A.
LEMMA WorkStage ==
  ASSUME Types, WorkInv, NEW i \in DOMAIN req, Stage(i)
  PROVE  WorkInv'
<1> DEFINE q == req[i]
           r == [q EXCEPT !.pc = "staged"]
<1>0. q \in Reqs /\ "staged" \in Pcs /\ WorkFacts
  BY Elements, WorkTypes DEF Pcs
<1>1. /\ req' = [req EXCEPT ![i] = r] /\ q.kind \in Writers /\ q.pc # "over"
      /\ q.kind = "restore" => q.pc = "cleaned"
      /\ index' = work /\ UNCHANGED <<work, commits, author>>
  BY DEF Stage, Goes, At, Writers
<1>2. r \in Reqs /\ r.kind = q.kind /\ r.calm = q.calm /\ r.lost = q.lost /\ r.base = q.base
      /\ r.exact = q.exact /\ r.failed = q.failed /\ r.pc = "staged"
  BY <1>0 DEF Reqs
<1> HIDE DEF r
<1>3. Works(i, r)
  BY <1>1, <1>2, OwnSteps
<1>4. Busy(i)'
  BY <1>2, <1>3 DEF Works, Busy
<1>5. r.kind = "restore" /\ r.calm => index' = commits'[r.base].tree
  <2> SUFFICES ASSUME r.kind = "restore", r.calm PROVE index' = commits'[r.base].tree
    OBVIOUS
  <2>1. work = index /\ index = commits[q.base].tree
    BY <1>1, <1>2 DEF WorkInv, Restored
  <2> QED BY <1>1, <1>2, <2>1
<1> QED BY <1>1, <1>2, <1>3, <1>4, <1>5, OwnLost, WorkStays

\* git diff --cached.
LEMMA WorkDiff ==
  ASSUME Types, WorkInv, NEW i \in DOMAIN req, Diff(i)
  PROVE  WorkInv'
<1> DEFINE q == req[i]
           changed == index # commits[Top].tree
           pc == IF changed THEN "differs" ELSE IF q.kind = "turn" THEN "named" ELSE "over"
           exact == ~ changed => Exact(i)
           r == [q EXCEPT !.pc = pc, !.exact = exact]
<1>0. q \in Reqs /\ pc \in Pcs /\ exact \in BOOLEAN /\ WorkFacts /\ Top \in DOMAIN commits
  BY Elements, WorkTypes DEF Pcs, WorkFacts
<1>1. /\ req' = [req EXCEPT ![i] = r] /\ q.kind \in Writers /\ q.pc = "staged"
      /\ UNCHANGED <<work, index, commits, author>>
  BY DEF Diff, Types
<1>2. r \in Reqs /\ r.kind = q.kind /\ r.calm = q.calm /\ r.lost = q.lost /\ r.base = q.base
      /\ r.exact = exact /\ r.failed = q.failed /\ r.pc = pc
  BY <1>0 DEF Reqs
<1> HIDE DEF r
<1>3. Works(i, r)
  BY <1>1, <1>2, OwnSteps
<1>4. q.kind = "restore" /\ q.calm => index = commits[q.base].tree
  BY <1>1 DEF WorkInv, Restored
<1>5. q.kind \in {"turn", "upload"} /\ q.calm => index = work
  BY <1>1 DEF WorkInv, StagedWork
<1>6. r.kind = "restore" /\ r.calm => r.exact
  BY <1>2, <1>4 DEF Exact
<1>7. r.kind \in {"turn", "upload"} /\ r.pc \in {"staged", "differs"} /\ r.calm => index' = work'
  BY <1>1, <1>2, <1>5
<1>8. r.kind = "restore" /\ r.calm => index' = commits'[r.base].tree
  BY <1>1, <1>2, <1>4
<1>9. r.pc \notin {"out", "cleaned"}
  BY <1>2
<1>10. Excused(i)' <=> Excused(i)
  BY <1>2, <1>3 DEF Works, Excused
<1>11. q.kind # "restore" /\ Busy(i) /\ ~ Excused(i) =>
         \/ Busy(i)' \/ Excused(i)'
         \/ \A f \in Files : Versioned(work[f])' /\ Versioned(index[f])'
  <2>1. CASE changed
    BY <1>2, <1>3, <2>1 DEF Works, Busy
  <2>2. CASE ~ changed /\ q.kind \in {"turn", "upload"} /\ q.calm
    BY <1>0, <1>1, <1>5, <2>2 DEF Versioned
  <2>3. CASE ~ q.calm
    BY <2>3 DEF Excused
  <2> QED BY <1>1, <2>1, <2>2, <2>3 DEF Writers
<1> QED BY <1>1, <1>2, <1>3, <1>6, <1>7, <1>8, <1>9, <1>11, OwnLost, WorkStays

\* git commit.
LEMMA WorkCommit ==
  ASSUME Types, WorkInv, NEW i \in DOMAIN req, Commit(i)
  PROVE  WorkInv'
<1> DEFINE q == req[i]
           pc == IF q.kind = "turn" THEN "committed" ELSE "over"
           exact == Exact(i)
           r == [q EXCEPT !.pc = pc, !.exact = exact]
           made == [tree |-> index, by |-> IF q.kind = "turn" THEN i ELSE 0]
<1>0. q \in Reqs /\ pc \in Pcs /\ exact \in BOOLEAN /\ WorkFacts /\ Top \in DOMAIN commits
  BY Elements, WorkTypes DEF Pcs, WorkFacts, Exact
<1>1. /\ req' = [req EXCEPT ![i] = r] /\ q.kind \in Writers /\ q.pc = "differs"
      /\ UNCHANGED <<work, index, author>>
      /\ commits' = IF index = commits[Top].tree THEN commits ELSE Append(commits, made)
  BY DEF Commit, Types
<1>2. r \in Reqs /\ r.kind = q.kind /\ r.calm = q.calm /\ r.lost = q.lost /\ r.base = q.base
      /\ r.exact = exact /\ r.failed = q.failed /\ r.pc = pc
  BY <1>0 DEF Reqs
<1> HIDE DEF r
<1>3. Works(i, r)
  BY <1>1, <1>2, OwnSteps
<1>4. /\ \A c \in DOMAIN commits : c \in DOMAIN commits' /\ commits'[c] = commits[c]
      /\ \A c \in DOMAIN commits' \ DOMAIN commits : commits'[c].tree = index
      /\ \E c \in DOMAIN commits' : commits'[c].tree = index
  <2>1. CASE index = commits[Top].tree
    BY <1>0, <1>1, <2>1
  <2>2. CASE index # commits[Top].tree
    <3>1. commits' = Append(commits, made) /\ made.tree = index /\ made \in Versions
          /\ commits \in Seq(Versions)
      BY <1>0, <1>1, <2>2, Elements, DeliveryAssumption DEF WorkFacts, Versions, Types, Requests
    <3> HIDE DEF made
    <3>2. /\ commits' \in Seq(Versions) /\ Len(commits') = Len(commits) + 1
          /\ \A c \in 1 .. Len(commits) : commits'[c] = commits[c]
          /\ commits'[Len(commits) + 1] = made
      BY <3>1, AppendProperties
    <3>3. DOMAIN commits = 1 .. Len(commits) /\ DOMAIN commits' = 1 .. Len(commits')
          /\ Len(commits) \in Nat
      BY <3>1, <3>2, LenProperties
    <3>4. \A c \in DOMAIN commits' \ DOMAIN commits : c = Len(commits) + 1
      BY <3>2, <3>3
    <3>5. Len(commits) + 1 \in DOMAIN commits' /\ \A c \in DOMAIN commits : c \in DOMAIN commits'
      BY <3>2, <3>3
    <3> QED BY <3>1, <3>2, <3>3, <3>4, <3>5
  <2> QED BY <2>1, <2>2
<1>5. q.kind = "restore" /\ q.calm => index = commits[q.base].tree
  BY <1>1 DEF WorkInv, Restored
<1>6. q.kind \in {"turn", "upload"} /\ q.calm => index = work
  BY <1>1 DEF WorkInv, StagedWork
<1>7. r.kind = "restore" /\ r.calm => r.exact
  BY <1>2, <1>5 DEF Exact
<1>8. q.kind # "restore" /\ Busy(i) /\ ~ Excused(i) =>
        \A f \in Files : Versioned(work[f])' /\ Versioned(index[f])'
  BY <1>1, <1>4, <1>6 DEF Excused, Versioned, Writers
<1>9. r.pc \notin {"read", "out", "cleaned", "staged", "differs"}
  BY <1>2
<1> QED BY <1>1, <1>2, <1>3, <1>4, <1>7, <1>8, <1>9, OwnLost, WorkStays

\* git read-tree.
LEMMA WorkRead ==
  ASSUME Types, WorkInv, NEW i \in DOMAIN req, ReadTree(i)
  PROVE  WorkInv'
<1> DEFINE q == req[i]
           r == [q EXCEPT !.pc = "read"]
<1>0. q \in Reqs /\ "read" \in Pcs /\ WorkFacts
  BY Elements, WorkTypes DEF Pcs
<1>1. /\ req' = [req EXCEPT ![i] = r] /\ q.kind = "restore" /\ q.pc = "start"
      /\ index' = commits[q.base].tree /\ UNCHANGED <<work, commits, author>>
  BY DEF ReadTree, Goes, At
<1>2. r \in Reqs /\ r.kind = q.kind /\ r.calm = q.calm /\ r.lost = q.lost /\ r.base = q.base
      /\ r.exact = q.exact /\ r.failed = q.failed /\ r.pc = "read"
  BY <1>0 DEF Reqs
<1>3. q.base \in DOMAIN commits /\ q.kind \in Writers /\ q.pc # "over"
  BY <1>0, <1>1 DEF WorkFacts, Writers
<1> HIDE DEF r
<1>4. Works(i, r)
  BY <1>1, <1>2, <1>3, OwnSteps
<1> QED BY <1>1, <1>2, <1>3, <1>4, OwnLost, WorkStays

\* git checkout-index and git clean, which discard what the working tree held.
LEMMA WorkReplace ==
  ASSUME Types, WorkInv, NEW i \in DOMAIN req, Checkout(i) \/ Clean(i)
  PROVE  WorkInv'
<1> DEFINE q == req[i]
           S == IF q.pc = "read" THEN {f \in Files : index[f] # 0} ELSE {f \in Files : index[f] = 0}
           pc == IF q.pc = "read" THEN "out" ELSE "cleaned"
           L == Unversioned({work[f] : f \in {g \in S : index[g] # work[g]}})
           r == [q EXCEPT !.pc = pc, !.lost = q.lost \cup L]
<1>0. q \in Reqs /\ pc \in Pcs /\ WorkFacts
  BY Elements, WorkTypes DEF Pcs
<1>1. /\ req' = [req EXCEPT ![i] = r] /\ q.kind = "restore" /\ q.pc \in {"read", "out"}
      /\ work' = [f \in Files |-> IF f \in S THEN index[f] ELSE work[f]]
      /\ UNCHANGED <<index, commits, author>>
  <2>1. CASE Checkout(i)
    BY <2>1, <1>0 DEF Checkout, Replace, At, Reqs
  <2>2. CASE Clean(i)
    BY <2>2, <1>0 DEF Clean, Replace, At, Reqs
  <2> QED BY <2>1, <2>2
<1>2. \A e \in L : e \in 1 .. Len(author) /\ (q.calm => Excused(author[e]))
  <2> SUFFICES ASSUME NEW e \in L
               PROVE  e \in 1 .. Len(author) /\ (q.calm => Excused(author[e]))
    OBVIOUS
  <2>1. PICK f \in Files : e = work[f]
    BY DEF Unversioned
  <2>2. e # 0 /\ ~ Versioned(e)
    BY DEF Unversioned, Versioned
  <2>3. Settled(e) /\ e \in 1 .. Len(author)
    BY <1>0, <2>1, <2>2 DEF WorkInv, AllSettled, Contents, WorkFacts
  <2>4. author[e] \in DOMAIN req /\ req[author[e]].kind \in {"turn", "upload"}
    BY <2>3 DEF WorkInv, Contents
  <2>5. q.calm => ~ Busy(author[e])
    <3> SUFFICES ASSUME q.calm, Busy(author[e]) PROVE FALSE
      OBVIOUS
    <3>1. i \in Flying(Writers) /\ author[e] \in Flying(Writers \cup {"delete"})
      BY <1>1, <2>4 DEF Flying, Busy, Writers
    <3>2. author[e] = i
      BY <3>1 DEF WorkInv, Undisturbed
    <3> QED BY <1>1, <2>4, <3>2
  <2> QED BY <2>2, <2>3, <2>5 DEF Settled
<1>3. L \subseteq Nat
  BY <1>0, <1>2 DEF WorkFacts
<1> HIDE DEF L
<1>4. r \in Reqs /\ r.kind = q.kind /\ r.calm = q.calm /\ r.lost = q.lost \cup L
      /\ r.base = q.base /\ r.exact = q.exact /\ r.failed = q.failed /\ r.pc = pc
  BY <1>0, <1>3 DEF Reqs
<1> HIDE DEF r
<1>5. Works(i, r)
  BY <1>1, <1>4, OwnSteps DEF Writers
<1>6. \A f \in Files : work'[f] \in {work[f], index[f]}
  BY <1>1
<1>7. ASSUME q.calm
      PROVE  /\ index = commits[q.base].tree
             /\ r.pc = "out" => \A f \in Files : index[f] # 0 => work'[f] = index[f]
             /\ r.pc = "cleaned" => work' = index
  <2>1. /\ index = commits[q.base].tree
        /\ q.pc = "out" => \A f \in Files : index[f] # 0 => work[f] = index[f]
    BY <1>1, <1>7 DEF WorkInv, Restored
  <2>2. r.pc = "out" => \A f \in Files : index[f] # 0 => work'[f] = index[f]
    BY <1>1, <1>4
  <2>3. r.pc = "cleaned" => \A f \in Files : work'[f] = index[f]
    BY <1>1, <1>4, <2>1
  <2>4. work' \in [Files -> Int] /\ index \in [Files -> Int]
    BY <1>0, <1>1, <1>6 DEF WorkFacts, Trees
  <2>5. r.pc = "cleaned" => work' = index
    BY <2>3, <2>4
  <2> QED BY <2>1, <2>2, <2>5
<1>8. \A e \in r.lost : e \in 1 .. Len(author) /\
                         (r.kind = "restore" /\ r.calm => Excused(author[e]))
  BY <1>1, <1>2, <1>4, OwnLost DEF Writers
<1> QED BY <1>1, <1>4, <1>5, <1>6, <1>7, <1>8, OwnLost, WorkStays DEF Writers

\* A step that is no writer's leaves the writers alone; only a deletion, which is
\* beside no undisturbed writer, takes files away.
LEMMA WorkFrame ==
  ASSUME Types, WorkInv, DOMAIN req' = DOMAIN req,
         \A j \in DOMAIN req : req'[j].kind = req[j].kind,
         \A j \in DOMAIN req : req[j].kind \in Writers => req'[j] = req[j],
         Flying(Writers \cup {"delete"})' \subseteq Flying(Writers \cup {"delete"}),
         UNCHANGED <<index, commits, author>>,
         work' = work \/ (work' = Empty /\ Flying({"delete"}) # {})
  PROVE  WorkInv'
<1>0. WorkFacts /\ \A e \in 1 .. Len(author) :
                     /\ author[e] \in DOMAIN req /\ req'[author[e]] = req[author[e]]
                     /\ req[author[e]].kind \in {"turn", "upload"}
  BY WorkTypes DEF WorkInv, Contents, Writers
<1>1. \A f \in Files : work'[f] \in {0, work[f]}
  BY DEF Empty
<1>2. ASSUME NEW i \in DOMAIN req, req[i].kind \in Writers, req[i].pc # "over", req[i].calm
      PROVE  work' = work
  <2> SUFFICES ASSUME NEW d \in Flying({"delete"}) PROVE FALSE
    OBVIOUS
  <2>1. i \in Flying(Writers) /\ d \in Flying(Writers \cup {"delete"}) /\ d # i
    BY <1>2 DEF Flying, Writers
  <2> QED BY <1>2, <2>1 DEF WorkInv, Undisturbed
<1>3. Contents'
  <2>1. \A f \in Files : work'[f] <= Len(author) /\ index[f] <= Len(author)
    BY <1>0, <1>1 DEF WorkInv, Contents, WorkFacts
  <2>2. \A c \in DOMAIN commits : \A f \in Files : commits[c].tree[f] <= Len(author)
    BY DEF WorkInv, Contents
  <2>3. \A j \in DOMAIN req : req[j].kind \in Writers => req'[j].lost \subseteq 1 .. Len(author)
    BY DEF WorkInv, Contents
  <2> QED BY <1>0, <2>1, <2>2, <2>3 DEF Contents
<1>4. Undisturbed'
  <2> SUFFICES ASSUME NEW k \in Flying(Writers)', req'[k].calm,
                      NEW j \in Flying(Writers \cup {"delete"})'
               PROVE  j = k
    BY DEF Undisturbed
  <2>1. k \in Flying(Writers) /\ req[k].calm /\ j \in Flying(Writers \cup {"delete"})
    BY DEF Flying
  <2> QED BY <2>1 DEF WorkInv, Undisturbed
<1>5. ASSUME NEW e, e \in Nat, e <= Len(author), Settled(e)
      PROVE  Settled(e)'
  <2>1. e # 0 => e \in 1 .. Len(author)
    BY <1>0, <1>5 DEF WorkFacts
  <2>2. Versioned(e)' <=> Versioned(e)
    BY DEF Versioned
  <2>3. e # 0 => (Excused(author[e])' <=> Excused(author[e]))
    BY <1>0, <2>1 DEF Excused
  <2>4. e # 0 => (Busy(author[e])' <=> Busy(author[e]))
    BY <1>0, <2>1 DEF Busy
  <2> QED BY <1>5, <2>2, <2>3, <2>4 DEF Settled
<1>6. \A f \in Files : /\ work[f] \in Nat /\ work[f] <= Len(author) /\ Settled(work[f])
                       /\ index[f] \in Nat /\ index[f] <= Len(author) /\ Settled(index[f])
                       /\ 0 \in Nat /\ 0 <= Len(author) /\ Settled(0)
  BY <1>0 DEF WorkFacts, WorkInv, Contents, AllSettled, Settled
<1>7. AllSettled'
  <2> SUFFICES ASSUME NEW f \in Files PROVE Settled(work[f])' /\ Settled(index[f])'
    BY DEF AllSettled
  <2>1. PICK w, x : w = work'[f] /\ x = index'[f]
    OBVIOUS
  <2>2. /\ w \in Nat /\ w <= Len(author) /\ Settled(w)
        /\ x \in Nat /\ x <= Len(author) /\ Settled(x)
    BY <1>1, <1>6, <2>1
  <2>3. Settled(w)' /\ Settled(x)'
    BY <1>5, <2>2
  <2> QED BY <2>1, <2>3 DEF Settled, Versioned
<1>8. StagedWork'
  <2> SUFFICES ASSUME NEW j \in DOMAIN req, req'[j].kind \in {"turn", "upload"},
                      req'[j].pc \in {"staged", "differs"}, req'[j].calm
               PROVE  index = work'
    BY DEF StagedWork
  <2>1. req'[j] = req[j] /\ req[j].kind \in Writers
    BY DEF Writers
  <2>2. index = work
    BY <2>1 DEF WorkInv, StagedWork
  <2> QED BY <1>2, <2>1, <2>2
<1>9. Restored'
  <2> SUFFICES ASSUME NEW j \in DOMAIN req, req'[j].kind = "restore", req'[j].calm
               PROVE  /\ req'[j].exact /\ \A e \in req'[j].lost : Excused(author[e])'
                      /\ req'[j].pc \in {"read", "out", "cleaned", "staged", "differs"}
                           => index = commits[req'[j].base].tree
                      /\ req'[j].pc = "out" => \A f \in Files : index[f] # 0 => work'[f] = index[f]
                      /\ req'[j].pc = "cleaned" => work' = index
    BY DEF Restored
  <2>1. req'[j] = req[j] /\ req[j].kind \in Writers
    BY DEF Writers
  <2>2. \A e \in req[j].lost : Excused(author[e])'
    BY <1>0, <2>1 DEF WorkInv, Restored, Contents, Excused
  <2>3. req[j].pc # "over" => work' = work
    BY <1>2, <2>1
  <2> QED BY <2>1, <2>2, <2>3 DEF WorkInv, Restored
<1> QED BY <1>3, <1>4, <1>7, <1>8, <1>9 DEF WorkInv

LEMMA WorkElsewhere ==
  ASSUME Types, WorkInv, NEW i \in DOMAIN req, Packing(i) \/ Linking(i)
  PROVE  WorkInv'
<1>1. PICK r \in Reqs : req' = [req EXCEPT ![i] = r] /\ r.kind = req[i].kind
                        /\ req[i].kind \notin Writers /\ req[i].pc # "over"
  <2>1. CASE Packing(i)
    BY <2>1, PackageMoves DEF Writers
  <2>2. CASE Linking(i)
    BY <2>2, LinkMoves DEF Writers
  <2> QED BY <2>1, <2>2
<1>2. /\ DOMAIN req' = DOMAIN req /\ req'[i] = r
      /\ \A j \in DOMAIN req : j # i => req'[j] = req[j]
  BY <1>1, MoveOne
<1>3. /\ \A j \in DOMAIN req : req'[j].kind = req[j].kind
      /\ \A j \in DOMAIN req : req[j].kind \in Writers => req'[j] = req[j]
  BY <1>1, <1>2
<1>4. Flying(Writers \cup {"delete"})' \subseteq Flying(Writers \cup {"delete"})
  BY <1>1, <1>2 DEF Flying
<1>5. UNCHANGED <<index, commits, author>>
      /\ (work' = work \/ (work' = Empty /\ Flying({"delete"}) # {}))
  <2>1. CASE Packing(i)
    BY <2>1, PackageMoves DEF tree
  <2>2. CASE Linking(i)
    <3>1. req[i].kind = "delete" => i \in Flying({"delete"})
      BY <1>1 DEF Flying
    <3> QED BY <2>2, <3>1, LinkMoves
  <2> QED BY <2>1, <2>2
<1> QED BY <1>2, <1>3, <1>4, <1>5, WorkFrame

LEMMA WorkCrash ==
  ASSUME Types, WorkInv, Crash
  PROVE  WorkInv'
<1>0. WorkFacts /\ \A e \in 1 .. Len(author) :
                     author[e] \in DOMAIN req /\ req[author[e]].kind \in {"turn", "upload"}
  BY WorkTypes DEF WorkInv, Contents
<1>1. /\ DOMAIN req' = DOMAIN req /\ UNCHANGED <<work, index, commits, author>>
      /\ \A j \in DOMAIN req : req'[j].kind = req[j].kind /\ req'[j].pc = "over"
  BY CrashMoves DEF tree
<1>2. ASSUME NEW j \in DOMAIN req, req[j].kind \in Writers
      PROVE  /\ req'[j].calm = req[j].calm /\ req'[j].exact = req[j].exact
             /\ req'[j].lost = req[j].lost /\ (req[j].failed => req'[j].failed)
             /\ req[j].pc # "over" => req'[j].failed
  <2>1. req[j] \in Reqs /\ Over(req[j]) = [req[j] EXCEPT !.pc = "over"]
    BY <1>2, OverType, Elements
  <2>2. req'[j] = IF req[j].pc # "over"
                  THEN [Over(req[j]) EXCEPT !.failed = TRUE] ELSE req[j]
    <3>1. (req[j].kind \in Writers) = TRUE
      BY <1>2
    <3> QED BY <3>1, CrashMoves
  <2> QED BY <2>1, <2>2 DEF Reqs
<1>3. Contents'
  BY <1>0, <1>1, <1>2 DEF WorkInv, Contents
<1>4. Undisturbed' /\ StagedWork'
  BY <1>1 DEF Undisturbed, StagedWork, Flying
<1>5. ASSUME NEW e, e \in Nat, e <= Len(author), Settled(e)
      PROVE  Settled(e)'
  <2>1. e # 0 => e \in 1 .. Len(author)
    BY <1>0, <1>5 DEF WorkFacts
  <2>2. Versioned(e)' <=> Versioned(e)
    BY <1>1 DEF Versioned
  <2>3. e # 0 /\ (Excused(author[e]) \/ Busy(author[e])) => Excused(author[e])'
    BY <1>0, <1>1, <1>2, <2>1 DEF Excused, Busy, Writers
  <2> QED BY <1>5, <2>2, <2>3 DEF Settled
<1>6. \A f \in Files : /\ work[f] \in Nat /\ work[f] <= Len(author) /\ Settled(work[f])
                       /\ index[f] \in Nat /\ index[f] <= Len(author) /\ Settled(index[f])
  BY <1>0 DEF WorkFacts, WorkInv, Contents, AllSettled
<1>7. AllSettled'
  <2> SUFFICES ASSUME NEW f \in Files PROVE Settled(work[f])' /\ Settled(index[f])'
    BY DEF AllSettled
  <2>1. PICK w, x : w = work'[f] /\ x = index'[f]
    OBVIOUS
  <2>2. Settled(w)' /\ Settled(x)'
    BY <1>1, <1>5, <1>6, <2>1
  <2> QED BY <2>1, <2>2 DEF Settled, Versioned
<1>8. Restored'
  <2> SUFFICES ASSUME NEW j \in DOMAIN req, req'[j].kind = "restore", req'[j].calm
               PROVE  req'[j].exact /\ \A e \in req'[j].lost : Excused(author[e])'
    BY <1>1 DEF Restored
  <2>1. req[j].kind = "restore" /\ req[j].kind \in Writers
    BY <1>1 DEF Writers
  <2>2. req[j].calm /\ req[j].exact /\ \A e \in req[j].lost : Excused(author[e])
    BY <1>2, <2>1 DEF WorkInv, Restored
  <2>3. \A e \in req[j].lost : Excused(author[e])'
    BY <1>0, <1>1, <1>2, <2>1, <2>2 DEF WorkInv, Contents, Excused, Writers
  <2> QED BY <1>2, <2>1, <2>2, <2>3
<1> QED BY <1>3, <1>4, <1>7, <1>8 DEF WorkInv

LEMMA WorkArrive ==
  ASSUME Types, WorkInv, NEW kind, NEW allow, NEW pin, NEW version,
         Arrives(kind, allow, pin, version)
  PROVE  WorkInv'
<1> DEFINE n == Len(req) + 1
<1>0. WorkFacts /\ \A e \in 1 .. Len(author) :
                     author[e] \in DOMAIN req /\ req[author[e]].kind \in {"turn", "upload"}
  BY WorkTypes DEF WorkInv, Contents
<1>1. /\ DOMAIN req' = DOMAIN req \cup {n} /\ n \notin DOMAIN req
      /\ \A j \in DOMAIN req : req'[j] = Disturbed(kind, j)
      /\ req'[n] = Newcomer(kind, allow, pin, version)
      /\ UNCHANGED <<work, index, commits, author>>
  BY ArriveMoves DEF tree
<1>2. ASSUME NEW j \in DOMAIN req
      PROVE  /\ req'[j].kind = req[j].kind /\ req'[j].pc = req[j].pc
             /\ req'[j].exact = req[j].exact /\ req'[j].lost = req[j].lost
             /\ req'[j].failed = req[j].failed /\ req'[j].base = req[j].base
             /\ req'[j].calm => req[j].calm
             /\ req'[j].calm /\ j \in Flying(Writers) => kind \notin Writers \cup {"delete"}
  <2>1. CASE kind \in Writers \cup {"delete"} /\ j \in Flying(Writers)
    <3>1. req'[j] = [req[j] EXCEPT !.calm = FALSE]
      BY <1>1, <2>1 DEF Disturbed
    <3> QED BY <1>0, <3>1 DEF WorkFacts, Reqs
  <2>2. CASE ~ (kind \in Writers \cup {"delete"} /\ j \in Flying(Writers))
    <3>1. req'[j] = req[j]
      BY <1>1, <2>2 DEF Disturbed
    <3> QED BY <2>2, <3>1
  <2> QED BY <2>1, <2>2
<1>3. /\ req'[n].kind = kind /\ req'[n].pc = "start" /\ req'[n].lost = {} /\ req'[n].exact
      /\ req'[n].calm = (Flying(Writers \cup {"delete"}) = {})
  BY <1>1 DEF Newcomer, Blank
<1>4. Contents'
  BY <1>0, <1>1, <1>2, <1>3 DEF WorkInv, Contents
<1>5. Undisturbed'
  <2> SUFFICES ASSUME NEW k \in Flying(Writers)', req'[k].calm,
                      NEW j \in Flying(Writers \cup {"delete"})'
               PROVE  j = k
    BY DEF Undisturbed
  <2>1. /\ k \in DOMAIN req \cup {n} /\ j \in DOMAIN req \cup {n}
        /\ req'[k].kind \in Writers /\ req'[k].pc # "over"
        /\ req'[j].kind \in Writers \cup {"delete"} /\ req'[j].pc # "over"
    BY <1>1 DEF Flying
  <2>2. j \in DOMAIN req => j \in Flying(Writers \cup {"delete"})
    BY <1>2, <2>1 DEF Flying
  <2>3. CASE k = n
    BY <1>3, <2>1, <2>2, <2>3
  <2>4. CASE k \in DOMAIN req
    <3>1. k \in Flying(Writers) /\ req[k].calm /\ kind \notin Writers \cup {"delete"}
      BY <1>2, <2>1, <2>4 DEF Flying
    <3>2. j # n
      BY <1>3, <2>1, <3>1
    <3> QED BY <2>1, <2>2, <3>1, <3>2 DEF WorkInv, Undisturbed
  <2> QED BY <2>1, <2>3, <2>4
<1>6. ASSUME NEW e, e \in Nat, e <= Len(author), Settled(e)
      PROVE  Settled(e)'
  <2>1. e # 0 => e \in 1 .. Len(author)
    BY <1>0, <1>6 DEF WorkFacts
  <2>2. Versioned(e)' <=> Versioned(e)
    BY <1>1 DEF Versioned
  <2>3. e # 0 /\ Excused(author[e]) => Excused(author[e])'
    BY <1>0, <1>1, <1>2, <2>1 DEF Excused
  <2>4. e # 0 /\ Busy(author[e]) => Busy(author[e])'
    BY <1>0, <1>1, <1>2, <2>1 DEF Busy
  <2> QED BY <1>6, <2>2, <2>3, <2>4 DEF Settled
<1>7. \A f \in Files : /\ work[f] \in Nat /\ work[f] <= Len(author) /\ Settled(work[f])
                       /\ index[f] \in Nat /\ index[f] <= Len(author) /\ Settled(index[f])
  BY <1>0 DEF WorkFacts, WorkInv, Contents, AllSettled
<1>8. AllSettled'
  <2> SUFFICES ASSUME NEW f \in Files PROVE Settled(work[f])' /\ Settled(index[f])'
    BY DEF AllSettled
  <2>1. PICK w, x : w = work'[f] /\ x = index'[f]
    OBVIOUS
  <2>2. Settled(w)' /\ Settled(x)'
    BY <1>1, <1>6, <1>7, <2>1
  <2> QED BY <2>1, <2>2 DEF Settled, Versioned
<1>9. StagedWork'
  BY <1>1, <1>2, <1>3 DEF WorkInv, StagedWork
<1>10. Restored'
  <2> SUFFICES ASSUME NEW j \in DOMAIN req', req'[j].kind = "restore", req'[j].calm
               PROVE  /\ req'[j].exact /\ \A e \in req'[j].lost : Excused(author[e])'
                      /\ req'[j].pc \in {"read", "out", "cleaned", "staged", "differs"}
                           => index = commits[req'[j].base].tree
                      /\ req'[j].pc = "out" => \A f \in Files : index[f] # 0 => work[f] = index[f]
                      /\ req'[j].pc = "cleaned" => work = index
    BY <1>1 DEF Restored
  <2>1. CASE j = n
    BY <1>3, <2>1
  <2>2. CASE j \in DOMAIN req
    <3>1. req[j].kind = "restore" /\ req[j].calm
      BY <1>2, <2>2
    <3>2. \A e \in req[j].lost : e \in 1 .. Len(author) /\ Excused(author[e])
      BY <2>2, <3>1 DEF WorkInv, Contents, Restored, Writers
    <3>3. \A e \in req[j].lost : Excused(author[e])'
      BY <1>0, <1>1, <1>2, <3>2 DEF Excused
    <3> QED BY <1>2, <2>2, <3>1, <3>3 DEF WorkInv, Restored
  <2> QED BY <1>1, <2>1, <2>2
<1> QED BY <1>4, <1>5, <1>8, <1>9, <1>10 DEF WorkInv

LEMMA NextWork ==
  ASSUME Types, WorkInv, [Next]_vars
  PROVE  WorkInv'
<1>1. CASE \E kind, allow, pin, version : Arrives(kind, allow, pin, version)
  BY <1>1, WorkArrive
<1>2. ASSUME NEW i \in DOMAIN req, Writing(i)
      PROVE  WorkInv'
  BY <1>2, WorkEdits, WorkRests, WorkStage, WorkDiff, WorkCommit, WorkRead, WorkReplace
  DEF Writing
<1>3. ASSUME NEW i \in DOMAIN req, Packing(i) \/ Linking(i)
      PROVE  WorkInv'
  BY <1>3, WorkElsewhere
<1>4. CASE Crash
  BY <1>4, WorkCrash
<1>5. CASE UNCHANGED vars
  <2>1. UNCHANGED <<req, work, index, commits, author>>
    BY <1>5 DEF vars, tree
  <2>2. Flying(Writers \cup {"delete"})' = Flying(Writers \cup {"delete"})
    BY <2>1 DEF Flying
  <2> QED BY <2>1, <2>2, WorkFrame
<1> QED BY <1>1, <1>2, <1>3, <1>4, <1>5, StepCases

\* RestoresAreExact holds in every state: undisturbed, a restore leaves its target
\* and loses no edit but those of a request that failed or was itself disturbed.
THEOREM RestoresExact == Spec => []RestoresAreExact
<1>1. Init => Types /\ WorkInv
  BY InitTypes, InitWork
<1>2. Types /\ WorkInv /\ [Next]_vars => (Types /\ WorkInv)'
  BY NextTypes, NextWork
<1>3. Types /\ WorkInv => RestoresAreExact
  BY WorkImplies
<1> QED BY <1>1, <1>2, <1>3, PTL DEF Spec

-----------------------------------------------------------------------------
(* Packages.                                                               *)

\* An undisturbed turn commits what it found to differ, and the version it names
\* is its own.
Named ==
  \A t \in DOMAIN req :
    req[t].kind = "turn" /\ req[t].calm =>
      /\ req[t].pc = "differs" => index # commits[Top].tree
      /\ req[t].pc = "committed" => commits[Top].by = t
      /\ req[t].head # 0 => commits[req[t].head].by = t

\* The turns that claim a commit, and the one that they make its producer.
Claimants(commit) ==
  {t \in DOMAIN req : /\ req[t].kind = "turn" /\ req[t].pc = "over"
                      /\ ~ req[t].failed /\ req[t].head = commit}
Verdict(S) ==
  LET producing == Max(S \cup {0}) IN
  IF producing # 0 /\ ~ req[producing].escaped THEN producing ELSE 0
Attributed(turn, claims, commit) ==
  claims \subseteq Claimants(commit) /\ turn = Verdict(claims)

Judged == {"judged", "based", "clean", "walked", "fresh", "pinning"}
Read == {"based", "clean", "walked", "fresh", "pinning"}
Walked == {"walked", "fresh", "pinning"}
\* What a packaging knows at each of its steps.
Packaging ==
  \A i \in DOMAIN req :
    req[i].kind = "package" =>
      /\ req[i].pc \in Judged \cup {"headed"} => req[i].head >= 1
      /\ req[i].pc \in Judged => Attributed(req[i].turn, req[i].claims, req[i].head)
      /\ req[i].pc \in Read => req[i].base >= 1
      /\ req[i].pc = "clean" /\ req[i].calm /\ Top = req[i].base
           => req[i].tree = commits[req[i].base].tree
      /\ req[i].pc \in Walked =>
           /\ req[i].base = req[i].head
           /\ req[i].calm => req[i].tree = commits[req[i].base].tree
      /\ req[i].pc = "fresh" =>
           \A p \in packages : p.commit = req[i].base => i \in p.beside
      /\ req[i].pc = "pinning" =>
           /\ req[i].turn # 0
           /\ \A p \in packages : p.id \in req[i].pinning =>
                p.turn # 0 \/ p.id \in story.late \/ p.commit = req[i].base
\* What a package's row says.
RowsTrue ==
  /\ \A p \in packages :
       /\ p.id \in DOMAIN req /\ req[p.id].kind = "package" /\ req[p.id].pc = "over"
       /\ p.commit \in DOMAIN commits
       /\ p.calm => p.tree = commits[p.commit].tree
       /\ Attributed(p.turn, p.claims, p.commit)
       /\ p.id \in pins => p.turn # 0 \/ p.id \in story.late
  /\ \A p, q \in packages :
       /\ p.id = q.id => p = q
       /\ p.commit = q.commit /\ p # q => p.id \in q.beside \/ q.id \in p.beside

PackInv == Named /\ Packaging /\ RowsTrue

LEMMA PackImplies == Types /\ PackInv => PackagesAreTrue
<1> SUFFICES ASSUME Types, PackInv PROVE PackagesAreTrue
  OBVIOUS
<1>1. ASSUME NEW p \in packages, p.turn # 0
      PROVE  /\ ~ req[p.turn].failed /\ ~ req[p.turn].escaped
             /\ req[p.turn].calm => commits[p.commit].by = p.turn
  <2>1. p.turn = Verdict(p.claims) /\ p.claims \subseteq Claimants(p.commit)
        /\ p.commit \in DOMAIN commits
    BY DEF PackInv, RowsTrue, Attributed
  <2>2. p.turn \in p.claims /\ ~ req[p.turn].escaped
    <3>1. p.turn = Max(p.claims \cup {0})
      BY <1>1, <2>1 DEF Verdict
    <3>2. p.claims \cup {0} \in SUBSET (0 .. Len(req)) /\ Len(req) \in Nat
      BY <2>1, Elements DEF Claimants
    <3>3. Max(p.claims \cup {0}) \in p.claims \cup {0}
      BY <3>2, MaxOf
    <3> QED BY <1>1, <2>1, <3>1, <3>3 DEF Verdict
  <2>3. /\ p.turn \in DOMAIN req /\ req[p.turn].kind = "turn"
        /\ ~ req[p.turn].failed /\ req[p.turn].head = p.commit
    BY <2>1, <2>2 DEF Claimants
  <2>4. p.commit # 0
    BY <2>1, Elements
  <2> QED BY <2>2, <2>3, <2>4 DEF PackInv, Named
<1>2. \A p \in packages :
        /\ p.calm => p.tree = commits[p.commit].tree
        /\ p.id \in pins => p.turn # 0 \/ p.id \in story.late
  BY DEF PackInv, RowsTrue
<1>3. \A p, q \in packages :
        p.commit = q.commit /\ p # q => p.id \in q.beside \/ q.id \in p.beside
  BY DEF PackInv, RowsTrue
<1> QED BY <1>1, <1>2, <1>3 DEF PackagesAreTrue

LEMMA InitPack == Init => PackInv
<1> SUFFICES ASSUME Init PROVE PackInv
  OBVIOUS
<1>1. req = <<>> /\ DOMAIN req = {} /\ packages = {}
  BY EmptySeq, LenProperties DEF Init
<1> QED BY <1>1 DEF PackInv, Named, Packaging, RowsTrue

\* What a request that is over has done stays done, and so does what was read of it.
Lasting ==
  /\ DOMAIN req \subseteq DOMAIN req'
  /\ \A t \in DOMAIN req : req[t].kind = "turn" /\ req[t].pc = "over" => req'[t] = req[t]
  /\ \A c \in DOMAIN commits : c \in DOMAIN commits' /\ commits'[c] = commits[c]

LEMMA AttributionLasts ==
  ASSUME Types, Lasting, NEW turn, NEW claims, NEW commit, Attributed(turn, claims, commit)
  PROVE  Attributed(turn, claims, commit)'
<1>1. claims \subseteq Claimants(commit) /\ turn = Verdict(claims)
  BY DEF Attributed
<1>2. claims \subseteq Claimants(commit)'
  BY <1>1 DEF Claimants, Lasting
<1>3. Max(claims \cup {0}) \in claims \cup {0}
  <2>1. claims \cup {0} \in SUBSET (0 .. Len(req)) /\ Len(req) \in Nat
    BY <1>1, Elements DEF Claimants
  <2> QED BY <2>1, MaxOf
<1>4. Verdict(claims)' = Verdict(claims)
  <2> DEFINE m == Max(claims \cup {0})
  <2>1. m # 0 => req'[m] = req[m]
    BY <1>1, <1>3 DEF Claimants, Lasting
  <2> HIDE DEF m
  <2>2. Verdict(claims) = IF m # 0 /\ ~ req[m].escaped THEN m ELSE 0
    BY DEF Verdict, m
  <2>3. Verdict(claims)' = IF m # 0 /\ ~ req'[m].escaped THEN m ELSE 0
    BY DEF Verdict, m
  <2> QED BY <2>1, <2>2, <2>3
<1> QED BY <1>1, <1>2, <1>4 DEF Attributed

\* A row says what it said, as long as nothing is taken from the store.
LEMMA RowsLast ==
  ASSUME Types, PackInv, Lasting,
         \A j \in DOMAIN req : req[j].kind = "package" /\ req[j].pc = "over" =>
                               req'[j].kind = "package" /\ req'[j].pc = "over",
         NEW p \in packages
  PROVE  /\ p.id \in DOMAIN req' /\ req'[p.id].kind = "package" /\ req'[p.id].pc = "over"
         /\ p.commit \in DOMAIN commits'
         /\ p.calm => p.tree = commits'[p.commit].tree
         /\ Attributed(p.turn, p.claims, p.commit)'
<1>1. /\ p.id \in DOMAIN req /\ req[p.id].kind = "package" /\ req[p.id].pc = "over"
      /\ p.commit \in DOMAIN commits
      /\ p.calm => p.tree = commits[p.commit].tree
      /\ Attributed(p.turn, p.claims, p.commit)
  BY DEF PackInv, RowsTrue
<1>2. PICK a, b, c : a = p.turn /\ b = p.claims /\ c = p.commit
  OBVIOUS
<1>3. Attributed(a, b, c)'
  BY <1>1, <1>2, AttributionLasts
<1> QED BY <1>1, <1>2, <1>3 DEF Lasting

\* What a packaging under way knows, at what it is about to be.
Knows(i, r) ==
  /\ r.pc \in Judged \cup {"headed"} => r.head >= 1
  /\ r.pc \in Judged => Attributed(r.turn, r.claims, r.head)
  /\ r.pc \in Read => r.base >= 1
  /\ r.pc = "clean" /\ r.calm /\ Top = r.base => r.tree = commits[r.base].tree
  /\ r.pc \in Walked =>
       /\ r.base = r.head
       /\ r.calm => r.tree = commits[r.base].tree
  /\ r.pc = "fresh" => \A p \in packages : p.commit = r.base => i \in p.beside
  /\ r.pc = "pinning" =>
       /\ r.turn # 0
       /\ \A p \in packages : p.id \in r.pinning =>
            p.turn # 0 \/ p.id \in story.late \/ p.commit = r.base

LEMMA KnowsAll == Packaging <=> \A i \in DOMAIN req : req[i].kind = "package" => Knows(i, req[i])
  BY DEF Packaging, Knows

\* It still knows it after a step of another, if what was stored since is new to it.
LEMMA KnowledgeLasts ==
  ASSUME Types, PackInv, Lasting, NEW i \in DOMAIN req, req[i].kind = "package",
         req'[i] = req[i], Top \in Nat, Top' \in Nat, Top <= Top',
         \A p \in packages' \ packages :
           /\ req[i].pc = "fresh" /\ p.commit = req[i].base => i \in p.beside
           /\ p.id \notin req[i].pinning,
         story.late \subseteq story'.late
  PROVE  Knows(i, req[i])'
<1>1. PICK r : r = req[i]
  OBVIOUS
<1>2. Knows(i, r) /\ req'[i] = r
  BY <1>1, KnowsAll DEF PackInv
<1>3. r.head \in 0 .. Top /\ r.base \in 0 .. Top /\ DOMAIN commits = 1 .. Top
  BY <1>1, Elements DEF Types, Top
<1>4. r.pc \in Judged => Attributed(r.turn, r.claims, r.head)'
  BY <1>2, AttributionLasts DEF Knows
<1>5. r.pc \in Read /\ r.base >= 1 => commits'[r.base] = commits[r.base]
  BY <1>3 DEF Lasting
<1>6. r.pc = "clean" /\ r.calm /\ Top' = r.base => r.tree = commits'[r.base].tree
  <2> SUFFICES ASSUME r.pc = "clean", r.calm, Top' = r.base PROVE r.tree = commits'[r.base].tree
    OBVIOUS
  <2>1. Top = r.base
    BY <1>3
  <2>2. r.tree = commits[r.base].tree /\ r.base >= 1
    BY <1>2, <2>1 DEF Knows, Read
  <2> QED BY <1>5, <2>2 DEF Read
<1>7. r.pc \in Walked => r.base = r.head /\ (r.calm => r.tree = commits'[r.base].tree)
  BY <1>2, <1>5 DEF Knows, Read, Walked
<1>8. r.pc = "fresh" => \A p \in packages' : p.commit = r.base => i \in p.beside
  BY <1>1, <1>2 DEF Knows
<1>9. r.pc = "pinning" =>
        /\ r.turn # 0
        /\ \A p \in packages' : p.id \in r.pinning =>
             p.turn # 0 \/ p.id \in story'.late \/ p.commit = r.base
  BY <1>1, <1>2 DEF Knows
<1>10. Knows(i, r)'
  BY <1>2, <1>4, <1>6, <1>7, <1>8, <1>9 DEF Knows
<1> QED BY <1>2, <1>10 DEF Knows, Attributed, Claimants, Verdict

\* A step of no packaging.
LEMMA PackFrame ==
  ASSUME Types, PackInv, Lasting, Top' \in Nat, Top <= Top',
         \A j \in DOMAIN req : req[j].kind = "package" =>
           req'[j] = req[j] \/ (req'[j].kind = "package" /\ req'[j].pc = "over"),
         \A j \in DOMAIN req' : req'[j].kind = "package" =>
           (j \in DOMAIN req /\ req[j].kind = "package") \/ req'[j].pc = "start",
         UNCHANGED <<packages, pins>>, story'.late = story.late
  PROVE  Packaging' /\ RowsTrue'
<1>1. Top \in Nat
  BY Elements
<1>2. RowsTrue'
  <2>1. \A p \in packages :
          /\ p.id \in DOMAIN req' /\ req'[p.id].kind = "package" /\ req'[p.id].pc = "over"
          /\ p.commit \in DOMAIN commits'
          /\ p.calm => p.tree = commits'[p.commit].tree
          /\ Attributed(p.turn, p.claims, p.commit)'
    BY RowsLast
  <2> QED BY <2>1 DEF PackInv, RowsTrue
<1>3. Packaging'
  <2> SUFFICES ASSUME NEW j \in DOMAIN req', req'[j].kind = "package"
               PROVE  Knows(j, req[j])'
    BY DEF Packaging, Knows
  <2>1. CASE req'[j].pc \in {"start", "over"}
    BY <2>1 DEF Knows, Judged, Read, Walked
  <2>2. CASE j \in DOMAIN req /\ req[j].kind = "package" /\ req'[j] = req[j]
    BY <1>1, <2>2, KnowledgeLasts
  <2> QED BY <2>1, <2>2
<1> QED BY <1>2, <1>3

LEMMA NamedFrame ==
  ASSUME PackInv, UNCHANGED <<index, commits>>,
         \A t \in DOMAIN req' : req'[t].kind = "turn" /\ req'[t].calm =>
           \/ req'[t].pc = "start" /\ req'[t].head = 0
           \/ /\ t \in DOMAIN req /\ req[t].kind = "turn" /\ req[t].calm
              /\ req'[t].head = req[t].head /\ req'[t].pc \in {req[t].pc, "over"}
  PROVE  Named'
  BY DEF PackInv, Named, Top

\* A step of a packaging that stores no row: it is enough that it knows what it should.
LEMMA PackStep ==
  ASSUME Types, PackInv, NEW i \in DOMAIN req, NEW r \in Reqs, req' = [req EXCEPT ![i] = r],
         req[i].kind = "package", req[i].pc # "over", r.kind = "package",
         UNCHANGED <<index, commits, packages>>, r.pc = "over" \/ Knows(i, r),
         story.late \subseteq story'.late,
         \A p \in packages : p.id \in pins' => p.turn # 0 \/ p.id \in story'.late
  PROVE  PackInv'
<1>1. /\ DOMAIN req' = DOMAIN req /\ req'[i] = r
      /\ \A j \in DOMAIN req : j # i => req'[j] = req[j]
  BY MoveOne
<1>2. Lasting /\ Top \in Nat /\ Top' = Top
  BY <1>1, Elements DEF Lasting, Top
<1>3. Named'
  BY <1>1, NamedFrame
<1>4. RowsTrue'
  <2>1. \A p \in packages :
          /\ p.id \in DOMAIN req' /\ req'[p.id].kind = "package" /\ req'[p.id].pc = "over"
          /\ p.commit \in DOMAIN commits'
          /\ p.calm => p.tree = commits'[p.commit].tree
          /\ Attributed(p.turn, p.claims, p.commit)'
    BY <1>1, <1>2, RowsLast
  <2> QED BY <2>1 DEF PackInv, RowsTrue
<1>5. Packaging'
  <2> SUFFICES ASSUME NEW j \in DOMAIN req', req'[j].kind = "package"
               PROVE  Knows(j, req[j])'
    BY DEF Packaging, Knows
  <2>1. CASE j # i
    BY <1>1, <1>2, <2>1, KnowledgeLasts
  <2>2. CASE j = i /\ r.pc = "over"
    BY <1>1, <2>2 DEF Knows, Judged, Read, Walked
  <2>3. CASE j = i /\ Knows(i, r)
    <3>1. r.pc \in Judged => Attributed(r.turn, r.claims, r.head)'
      BY <1>2, <2>3, AttributionLasts DEF Knows
    <3>2. Knows(i, r)'
      BY <1>2, <2>3, <3>1 DEF Knows
    <3> QED BY <1>1, <2>3, <3>2 DEF Knows, Attributed, Claimants, Verdict
  <2> QED BY <2>1, <2>2, <2>3
<1> QED BY <1>3, <1>4, <1>5 DEF PackInv

LEMMA PackReads ==
  ASSUME Types, PackInv, NEW i \in DOMAIN req,
         ReadHead(i) \/ Attribute(i) \/ ReadBase(i) \/ Status(i) \/ Walk(i) \/ Look(i)
  PROVE  PackInv'
<1> DEFINE q == req[i]
<1>0. /\ q \in Reqs /\ Top \in Nat /\ Top >= 1 /\ work \in Trees /\ Len(req) \in Nat
      /\ DOMAIN req = 1 .. Len(req) /\ DOMAIN req \subseteq Requests /\ Ids \subseteq Requests
      /\ pins \subseteq Ids
  <2>1. packages \subseteq Rows /\ pins \subseteq Ids /\ Len(req) <= MaxRequests
    BY DEF Types
  <2>2. Ids \subseteq Requests
    BY <2>1 DEF Ids, Rows
  <2> QED BY <2>1, <2>2, Elements, DeliveryAssumption DEF Types, Requests, Top
<1>1. ASSUME NEW from, NEW to \in Reqs, NEW ok, Step(i, from, to, ok), from # "over",
             to.kind = "package", ok => Knows(i, to)
      PROVE  PackInv'
  <2>1. /\ q.kind = "package" /\ q.pc = from
        /\ UNCHANGED <<index, commits, packages, pins, story>>
        /\ req' = [req EXCEPT ![i] = IF ok THEN to ELSE Over(to)]
    BY <1>1 DEF Step, At, tree, store
  <2>2. \A p \in packages : p.id \in pins => p.turn # 0 \/ p.id \in story.late
    BY DEF PackInv, RowsTrue
  <2>3. CASE ok
    BY <1>1, <2>1, <2>2, <2>3, PackStep
  <2>4. CASE ~ ok
    <3>1. Over(to) \in Reqs /\ Over(to).kind = "package" /\ Over(to).pc = "over"
      BY <1>1, OverType
    <3> QED BY <1>1, <2>1, <2>2, <2>4, <3>1, PackStep
  <2> QED BY <2>3, <2>4
<1>2. q.kind = "package" => Knows(i, q)
  BY KnowsAll DEF PackInv
<1>p. /\ "headed" \in Pcs /\ "judged" \in Pcs /\ "based" \in Pcs /\ "clean" \in Pcs
      /\ "walked" \in Pcs /\ "fresh" \in Pcs /\ "pinning" \in Pcs
  BY DEF Pcs
<1>3. CASE ReadHead(i)
  <2> DEFINE to == [q EXCEPT !.pc = "headed", !.head = Top]
  <2>1. q.kind = "package" /\ Step(i, "start", to, repo)
    BY <1>3 DEF ReadHead, Step, At
  <2>2. to \in Reqs /\ to.kind = q.kind /\ to.pc = "headed" /\ to.head = Top
    BY <1>0, <1>p DEF Reqs
  <2> HIDE DEF to
  <2>3. Knows(i, to)
    BY <1>0, <2>2 DEF Knows, Judged, Read, Walked
  <2> QED BY <1>1, <2>1, <2>2, <2>3
<1>4. CASE Attribute(i)
  <2> DEFINE S == Producers(q.head)
             producing == Max(S \cup {0})
             turn == IF producing # 0 /\ ~ req[producing].escaped THEN producing ELSE 0
             to == [q EXCEPT !.pc = "judged", !.turn = turn, !.claims = S]
  <2>1. /\ q.kind = "package" /\ q.pc = "headed"
        /\ Step(i, "headed", to, turn # 0 \/ q.allow)
    BY <1>4 DEF Attribute, Step, At
  <2>2. S \subseteq Claimants(q.head) /\ S \subseteq DOMAIN req
    BY DEF Producers, Claimants
  <2>3. turn = Verdict(S)
    BY DEF Verdict
  <2>4. turn \in Requests \cup {0}
    <3>1. S \cup {0} \in SUBSET (0 .. Len(req))
      BY <1>0, <2>2
    <3>2. producing \in S \cup {0}
      BY <1>0, <3>1, MaxOf
    <3> QED BY <1>0, <2>2, <3>2
  <2> HIDE DEF turn, S
  <2>5. /\ to \in Reqs /\ to.kind = q.kind /\ to.pc = "judged" /\ to.head = q.head
        /\ to.turn = turn /\ to.claims = S
    BY <1>0, <1>p, <2>2, <2>4 DEF Reqs
  <2>6. q.head >= 1
    BY <1>2, <2>1 DEF Knows
  <2> HIDE DEF to
  <2>7. Knows(i, to)
    BY <2>2, <2>3, <2>5, <2>6 DEF Knows, Attributed, Judged, Read, Walked
  <2> DEFINE ok == turn # 0 \/ q.allow
  <2>8. Step(i, "headed", to, ok)
    BY <2>1
  <2> HIDE DEF ok
  <2> QED BY <1>1, <2>1, <2>5, <2>7, <2>8
<1>5. CASE ReadBase(i)
  <2> DEFINE to == [q EXCEPT !.pc = "based", !.base = Top, !.tree = work]
  <2>1. q.kind = "package" /\ q.pc = "judged" /\ Step(i, "judged", to, repo)
    BY <1>5 DEF ReadBase, Step, At
  <2>2. /\ to \in Reqs /\ to.kind = q.kind /\ to.pc = "based" /\ to.head = q.head
        /\ to.turn = q.turn /\ to.claims = q.claims /\ to.base = Top
    BY <1>0, <1>p DEF Reqs
  <2> HIDE DEF to
  <2>3. Knows(i, to)
    BY <1>0, <1>2, <2>1, <2>2 DEF Knows, Judged, Read, Walked
  <2> QED BY <1>1, <2>1, <2>2, <2>3
<1>6. CASE Status(i)
  <2> DEFINE b == work = q.tree
             to == [q EXCEPT !.pc = "clean", !.calm = b]
             ok == repo /\ work = index /\ index = commits[Top].tree
  <2>1. q.kind = "package" /\ q.pc = "based" /\ Step(i, "based", to, ok)
    BY <1>6 DEF Status, Step, At
  <2>2. /\ to \in Reqs /\ to.kind = q.kind /\ to.pc = "clean" /\ to.head = q.head
        /\ to.turn = q.turn /\ to.claims = q.claims /\ to.base = q.base /\ to.tree = q.tree
        /\ to.calm = b
    <3>1. b \in BOOLEAN
      OBVIOUS
    <3> HIDE DEF b
    <3> QED BY <1>0, <1>p, <3>1 DEF Reqs
  <2> HIDE DEF to
  <2>3. ok => Knows(i, to)
    BY <1>2, <2>1, <2>2 DEF Knows, Judged, Read, Walked
  <2> HIDE DEF ok
  <2> QED BY <1>1, <2>1, <2>2, <2>3
<1>7. CASE Walk(i)
  <2> DEFINE b == q.calm /\ work = q.tree /\ Top = q.base
             to == [q EXCEPT !.pc = "walked", !.tree = work, !.calm = b]
             ok == q.base = q.head
  <2>1. q.kind = "package" /\ q.pc = "clean" /\ Step(i, "clean", to, ok)
    BY <1>7 DEF Walk, Step, At
  <2>2. /\ to \in Reqs /\ to.kind = q.kind /\ to.pc = "walked" /\ to.head = q.head
        /\ to.turn = q.turn /\ to.claims = q.claims /\ to.base = q.base /\ to.tree = work
        /\ to.calm = b
    <3>1. b \in BOOLEAN
      BY <1>0 DEF Reqs
    <3> HIDE DEF b
    <3> QED BY <1>0, <1>p, <3>1 DEF Reqs
  <2> HIDE DEF to
  <2>3. ok => Knows(i, to)
    BY <1>2, <2>1, <2>2 DEF Knows, Judged, Read, Walked
  <2> HIDE DEF ok
  <2> QED BY <1>1, <2>1, <2>2, <2>3
<1>8. CASE Look(i)
  <2> DEFINE existing == {p.id : p \in {x \in packages : x.commit = q.base}}
             pc == IF existing = {} THEN "fresh" ELSE "pinning"
             to == [q EXCEPT !.pc = pc, !.pinning = pins \cup existing]
             ok == existing = {} \/ (Cardinality(existing) = 1 /\ q.pin /\ q.turn # 0)
  <2>1. q.kind = "package" /\ q.pc = "walked" /\ Step(i, "walked", to, ok)
    BY <1>8 DEF Look, Step, At
  <2>2. existing \subseteq Ids
    BY DEF Ids
  <2>3. pc \in Pcs
    BY <1>p
  <2>4. /\ to \in Reqs /\ to.kind = q.kind /\ to.pc = pc /\ to.head = q.head
        /\ to.turn = q.turn /\ to.claims = q.claims /\ to.base = q.base /\ to.tree = q.tree
        /\ to.calm = q.calm /\ to.pinning = pins \cup existing
    <3> HIDE DEF pc, existing
    <3> QED BY <1>0, <2>2, <2>3 DEF Reqs
  <2>5. existing = {} => \A p \in packages : p.commit # q.base
    OBVIOUS
  <2>6. \A p \in packages : p.id \in existing => p.commit = q.base
    BY DEF PackInv, RowsTrue
  <2>7. \A p \in packages : p.id \in pins => p.turn # 0 \/ p.id \in story.late
    BY DEF PackInv, RowsTrue
  <2>8. /\ (pc = "fresh" /\ existing = {}) \/ (pc = "pinning" /\ existing # {})
        /\ ok /\ existing # {} => q.turn # 0
    OBVIOUS
  <2> HIDE DEF to, existing, pc, ok
  <2>9. ok => Knows(i, to)
    BY <1>2, <2>1, <2>4, <2>5, <2>6, <2>7, <2>8 DEF Knows, Judged, Read, Walked
  <2> QED BY <1>1, <2>1, <2>4, <2>9
<1> QED BY <1>3, <1>4, <1>5, <1>6, <1>7, <1>8

LEMMA PackPin ==
  ASSUME Types, PackInv, NEW i \in DOMAIN req, Pin(i)
  PROVE  PackInv'
<1> DEFINE q == req[i]
           passed == {p.id : p \in {x \in packages : x.commit = q.base /\ x.claims # q.claims}}
<1>1. /\ q.kind = "package" /\ q.pc = "pinning" /\ pins' = q.pinning
      /\ story'.late = story.late \cup passed
      /\ req' = [req EXCEPT ![i] = Over(q)] /\ UNCHANGED <<index, commits, packages>>
  BY DEF Pin, At, Ends, tree, Types
<1>2. Over(q) \in Reqs /\ Over(q).kind = "package" /\ Over(q).pc = "over"
  BY <1>1, Elements, OverType
<1>3. Knows(i, q)
  BY <1>1, KnowsAll DEF PackInv
<1>4. ASSUME NEW p \in packages, p.id \in q.pinning
      PROVE  p.turn # 0 \/ p.id \in story'.late
  <2>1. CASE p.commit = q.base /\ p.claims = q.claims
    <3>1. Attributed(p.turn, p.claims, p.commit) /\ Attributed(q.turn, q.claims, q.head)
          /\ q.turn # 0
      BY <1>1, <1>3 DEF PackInv, RowsTrue, Knows, Judged
    <3> QED BY <2>1, <3>1 DEF Attributed
  <2>2. CASE p.commit = q.base /\ p.claims # q.claims
    BY <1>1, <2>2
  <2>3. CASE p.commit # q.base
    BY <1>1, <1>3, <1>4, <2>3 DEF Knows
  <2> QED BY <2>1, <2>2, <2>3
<1> HIDE DEF passed
<1> QED BY <1>1, <1>2, <1>4, PackStep

LEMMA PackStore ==
  ASSUME Types, PackInv, NEW i \in DOMAIN req, Store(i)
  PROVE  PackInv'
<1> DEFINE q == req[i]
           refused == q.pin /\ q.turn = 0
<1>0. PICK x : x = Row(i)
  OBVIOUS
<1>1. /\ q.kind = "package" /\ q.pc = "fresh"
      /\ packages' = IF refused THEN packages ELSE packages \cup {x}
      /\ pins' = IF q.pin /\ ~ refused THEN pins \cup {i} ELSE pins
      /\ req' = [req EXCEPT ![i] = Over(q)] /\ UNCHANGED <<index, commits, story>>
  BY <1>0 DEF Store, At, Ends, tree
<1>2. Over(q) \in Reqs /\ Over(q).kind = "package" /\ Over(q).pc = "over"
  BY <1>1, Elements, OverType
<1>3. /\ DOMAIN req' = DOMAIN req /\ req'[i] = Over(q)
      /\ \A j \in DOMAIN req : j # i => req'[j] = req[j]
  BY <1>1, <1>2, MoveOne
<1>4. Lasting /\ Top \in Nat /\ Top' = Top
  BY <1>1, <1>3, Elements DEF Lasting, Top
<1>5. /\ q.head >= 1 /\ q.base = q.head /\ Attributed(q.turn, q.claims, q.head)
      /\ q.calm => q.tree = commits[q.base].tree
      /\ \A p \in packages : p.commit = q.base => i \in p.beside
  BY <1>1, KnowsAll DEF PackInv, Knows, Judged, Walked
<1>6. /\ x.id = i /\ x.commit = q.base /\ x.turn = q.turn /\ x.tree = q.tree
      /\ x.calm = q.calm /\ x.claims = q.claims
      /\ x.beside = {j \in Flying({"package"}) \ {i} : req[j].pc = "fresh"}
  BY <1>0 DEF Row
<1>7. i \notin Ids /\ pins \subseteq Ids /\ \A p \in packages : p.id \in Ids /\ p.id # i
  BY <1>1 DEF PackInv, RowsTrue, Types, Ids
<1>8. q.base \in DOMAIN commits
  BY <1>5, Elements DEF Types, Top
<1>9. Named'
  BY <1>1, <1>2, <1>3, NamedFrame
<1>10. RowsTrue'
  <2>1. \A p \in packages :
          /\ p.id \in DOMAIN req' /\ req'[p.id].kind = "package" /\ req'[p.id].pc = "over"
          /\ p.commit \in DOMAIN commits'
          /\ p.calm => p.tree = commits'[p.commit].tree
          /\ Attributed(p.turn, p.claims, p.commit)'
    BY <1>2, <1>3, <1>4, RowsLast
  <2>2. \A p \in packages : p.id \in pins' => p.turn # 0 \/ p.id \in story'.late
    BY <1>1, <1>7 DEF PackInv, RowsTrue
  <2>3. /\ i \in DOMAIN req' /\ req'[i].kind = "package" /\ req'[i].pc = "over"
        /\ q.base \in DOMAIN commits' /\ (x.calm => x.tree = commits'[x.commit].tree)
    BY <1>1, <1>2, <1>3, <1>5, <1>6, <1>8
  <2>4. Attributed(x.turn, x.claims, x.commit)'
    BY <1>4, <1>5, <1>6, AttributionLasts
  <2>5. q.pin /\ ~ refused => x.turn # 0
    BY <1>6
  <2>6. ~ q.pin \/ refused => i \notin pins'
    BY <1>1, <1>7
  <2>7. ASSUME NEW p \in packages'
        PROVE  /\ p.id \in DOMAIN req' /\ req'[p.id].kind = "package" /\ req'[p.id].pc = "over"
               /\ p.commit \in DOMAIN commits'
               /\ p.calm => p.tree = commits'[p.commit].tree
               /\ Attributed(p.turn, p.claims, p.commit)'
               /\ p.id \in pins' => p.turn # 0 \/ p.id \in story'.late
    <3>1. CASE p \in packages
      BY <2>1, <2>2, <3>1
    <3>2. CASE p = x
      BY <1>6, <2>3, <2>4, <2>5, <2>6, <3>2
    <3> QED BY <1>1, <2>7, <3>1, <3>2
  <2>8. ASSUME NEW p \in packages', NEW r \in packages'
        PROVE  /\ p.id = r.id => p = r
               /\ p.commit = r.commit /\ p # r => p.id \in r.beside \/ r.id \in p.beside
    <3>1. p \in packages \cup {x} /\ r \in packages \cup {x}
      BY <1>1, <2>8
    <3>2. CASE p \in packages /\ r \in packages
      BY <3>2 DEF PackInv, RowsTrue
    <3>3. CASE p = x /\ r \in packages
      BY <1>5, <1>6, <1>7, <3>3
    <3>4. CASE p \in packages /\ r = x
      BY <1>5, <1>6, <1>7, <3>4
    <3>5. CASE p = x /\ r = x
      BY <3>5
    <3> QED BY <3>1, <3>2, <3>3, <3>4, <3>5
  <2> QED BY <2>7, <2>8 DEF RowsTrue
<1>11. Packaging'
  <2> SUFFICES ASSUME NEW j \in DOMAIN req', req'[j].kind = "package"
               PROVE  Knows(j, req[j])'
    BY DEF Packaging, Knows
  <2>1. CASE j = i
    BY <1>2, <1>3, <2>1 DEF Knows, Judged, Read, Walked
  <2>2. CASE j # i
    <3>1. j \in DOMAIN req /\ req'[j] = req[j] /\ req[j].kind = "package"
      BY <1>3, <2>2
    <3>2. req[j].pc = "fresh" => j \in x.beside
      BY <1>6, <2>2, <3>1 DEF Flying
    <3>3. x.id \notin req[j].pinning
      BY <1>6, <1>7, <3>1 DEF Types
    <3>4. packages' \ packages \subseteq {x}
      BY <1>1
    <3> QED BY <1>1, <1>4, <3>1, <3>2, <3>3, <3>4, KnowledgeLasts
  <2> QED BY <2>1, <2>2
<1> QED BY <1>9, <1>10, <1>11 DEF PackInv

\* What a turn does to the workspace, step by step.
LEMMA NamedOwn ==
  ASSUME Types, WorkInv, PackInv, NEW i \in DOMAIN req, Writing(i),
         req[i].kind = "turn", req'[i].calm
  PROVE  /\ req'[i].pc = "differs" => index' # commits'[Top'].tree
         /\ req'[i].pc = "committed" => commits'[Top'].by = i
         /\ req'[i].head # 0 => commits'[req'[i].head].by = i
<1> DEFINE q == req[i]
<1>0. /\ q \in Reqs /\ WorkFacts /\ q.head \in 0 .. Top
      /\ \A r \in Reqs : req' = [req EXCEPT ![i] = r] => req'[i] = r
  BY WorkTypes, Elements, MoveOne DEF Types, Top
<1>1. /\ q.calm => /\ q.pc = "differs" => index # commits[Top].tree
                   /\ q.pc = "committed" => commits[Top].by = i
                   /\ q.head # 0 => commits[q.head].by = i
  BY DEF PackInv, Named
<1>p. /\ "over" \in Pcs /\ "staged" \in Pcs /\ "differs" \in Pcs /\ "named" \in Pcs
      /\ "committed" \in Pcs
  BY DEF Pcs
<1>2. ASSUME NEW r \in Reqs, req' = [req EXCEPT ![i] = r], r.head = q.head, r.calm = q.calm,
             r.pc \notin {"differs", "committed"}, commits' = commits
      PROVE  /\ req'[i].pc = "differs" => index' # commits'[Top'].tree
             /\ req'[i].pc = "committed" => commits'[Top'].by = i
             /\ req'[i].head # 0 => commits'[req'[i].head].by = i
  BY <1>0, <1>1, <1>2
<1>3. CASE \E f \in Files : Edit(i, f)
  <2>1. req' = req /\ q.pc = "start" /\ commits' = commits
    BY <1>3 DEF Edit, At, Write
  <2> QED BY <1>1, <2>1
<1>4. CASE Fail(i) \/ NoRepo(i)
  <2> DEFINE r == [q EXCEPT !.pc = "over", !.failed = TRUE]
  <2>1. req' = [req EXCEPT ![i] = r] /\ commits' = commits
    BY <1>4 DEF Fail, NoRepo, tree
  <2>2. r \in Reqs /\ r.head = q.head /\ r.calm = q.calm /\ r.pc = "over"
    BY <1>0, <1>p DEF Reqs
  <2> HIDE DEF r
  <2> QED BY <1>2, <2>1, <2>2
<1>5. CASE \E escaped \in BOOLEAN : Record(i, escaped)
  <2>0. PICK escaped \in BOOLEAN : Record(i, escaped)
    BY <1>5
  <2> DEFINE r == [q EXCEPT !.pc = "over", !.escaped = escaped]
  <2>1. req' = [req EXCEPT ![i] = r] /\ commits' = commits
    BY <2>0 DEF Record, tree
  <2>2. r \in Reqs /\ r.head = q.head /\ r.calm = q.calm /\ r.pc = "over"
    BY <1>0, <1>p DEF Reqs
  <2> HIDE DEF r
  <2> QED BY <1>2, <2>1, <2>2
<1>6. CASE Stage(i)
  <2> DEFINE r == [q EXCEPT !.pc = "staged"]
  <2>1. req' = [req EXCEPT ![i] = r] /\ commits' = commits
    BY <1>6 DEF Stage, Goes
  <2>2. r \in Reqs /\ r.head = q.head /\ r.calm = q.calm /\ r.pc = "staged"
    BY <1>0, <1>p DEF Reqs
  <2> HIDE DEF r
  <2> QED BY <1>2, <2>1, <2>2
<1>7. CASE Diff(i)
  <2> DEFINE changed == index # commits[Top].tree
             pc == IF changed THEN "differs" ELSE "named"
             exact == ~ changed => Exact(i)
             r == [q EXCEPT !.pc = pc, !.exact = exact]
  <2>1. req' = [req EXCEPT ![i] = r] /\ UNCHANGED <<index, commits>>
    BY <1>7 DEF Diff
  <2>2. r \in Reqs /\ r.head = q.head /\ r.calm = q.calm /\ r.pc = pc
    <3>1. exact \in BOOLEAN /\ pc \in Pcs
      BY <1>p
    <3> HIDE DEF exact, pc
    <3> QED BY <1>0, <3>1 DEF Reqs
  <2>3. pc = "differs" => index # commits[Top].tree
    OBVIOUS
  <2> HIDE DEF r
  <2>4. CASE changed
    <3>1. req'[i] = r /\ r.pc = "differs" /\ Top' = Top
      BY <1>0, <2>1, <2>2, <2>4 DEF Top
    <3> QED BY <1>1, <2>1, <2>2, <2>4, <3>1
  <2>5. CASE ~ changed
    <3>1. r.pc = "named"
      BY <2>2, <2>5
    <3> QED BY <1>2, <2>1, <2>2, <3>1
  <2> QED BY <2>4, <2>5
<1>8. CASE Commit(i)
  <2> DEFINE made == [tree |-> index, by |-> i]
             exact == Exact(i)
             r == [q EXCEPT !.pc = "committed", !.exact = exact]
  <2>1. /\ req' = [req EXCEPT ![i] = r] /\ q.pc = "differs"
        /\ commits' = IF index = commits[Top].tree THEN commits ELSE Append(commits, made)
    BY <1>8 DEF Commit
  <2>2. r \in Reqs /\ r.head = q.head /\ r.calm = q.calm /\ r.pc = "committed"
    <3>1. exact \in BOOLEAN
      BY DEF Exact
    <3> HIDE DEF exact
    <3> QED BY <1>0, <1>p, <3>1 DEF Reqs
  <2> HIDE DEF r
  <2>3. req'[i] = r /\ q.calm
    BY <1>0, <2>1, <2>2
  <2>4. commits' = Append(commits, made) /\ commits \in Seq(Versions) /\ made \in Versions
        /\ made.by = i
    <3>1. i \in Requests
      BY Elements, DeliveryAssumption DEF Types, Requests
    <3> QED BY <1>0, <1>1, <2>1, <2>3, <3>1 DEF Versions, Types
  <2> HIDE DEF made
  <2>5. /\ Len(commits') = Len(commits) + 1 /\ commits'[Len(commits) + 1] = made
        /\ \A c \in 1 .. Len(commits) : commits'[c] = commits[c]
    BY <2>4, AppendProperties
  <2>6. commits'[Top'].by = i
    BY <2>4, <2>5 DEF Top
  <2>7. q.head # 0 => commits'[q.head].by = i
    BY <1>0, <1>1, <2>3, <2>5 DEF Top
  <2> QED BY <2>2, <2>3, <2>6, <2>7
<1>9. CASE Name(i)
  <2> DEFINE r == [q EXCEPT !.pc = "named", !.head = Top]
  <2>1. req' = [req EXCEPT ![i] = r] /\ q.pc = "committed" /\ UNCHANGED <<index, commits>>
    BY <1>9 DEF Name, At, tree
  <2>2. r \in Reqs /\ r.head = Top /\ r.calm = q.calm /\ r.pc = "named"
    BY <1>0, <1>p DEF Reqs, WorkFacts
  <2> HIDE DEF r
  <2>3. req'[i] = r /\ q.calm /\ Top' = Top
    BY <1>0, <2>1, <2>2 DEF Top
  <2> QED BY <1>1, <2>1, <2>2, <2>3
<1>10. CASE \E f \in Files : Upload(i, f) \/ UploadRefused(i, f) \/ ImportRefused(i, f)
  BY <1>10 DEF Upload, UploadRefused, ImportRefused, At
<1>11. CASE ReadTree(i) \/ Checkout(i) \/ Clean(i)
  BY <1>11 DEF ReadTree, Checkout, Clean, At
<1> QED BY <1>3, <1>4, <1>5, <1>6, <1>7, <1>8, <1>9, <1>10, <1>11 DEF Writing

LEMMA PackWrites ==
  ASSUME Types, WorkInv, PackInv, NEW i \in DOMAIN req, Writing(i)
  PROVE  PackInv'
<1>1. PICK r \in Reqs : /\ req' = [req EXCEPT ![i] = r] /\ Keeps(r, i)
                        /\ req[i].kind \in Writers /\ req[i].pc # "over"
  BY WriterMoves
<1>2. /\ DOMAIN req' = DOMAIN req /\ req'[i] = r /\ r.kind = req[i].kind
      /\ r.calm = req[i].calm /\ \A j \in DOMAIN req : j # i => req'[j] = req[j]
  BY <1>1, MoveOne DEF Keeps
<1>3. /\ commits' \in Seq(Versions) /\ Top' \in Nat /\ Top <= Top' /\ Top \in Nat
      /\ \A c \in 1 .. Top : commits'[c] = commits[c]
      /\ DOMAIN commits = 1 .. Top /\ DOMAIN commits' = 1 .. Top'
  <2>1. /\ commits' \in Seq(Versions) /\ Top' \in Nat /\ Top <= Top'
        /\ \A c \in 1 .. Top : commits'[c] = commits[c]
    BY WriterMoves, VersionsStay
  <2>2. DOMAIN commits' = 1 .. Top'
    BY <2>1, LenProperties DEF Top
  <2> QED BY <2>1, <2>2, Elements
<1>4. Lasting
  BY <1>1, <1>2, <1>3 DEF Lasting
<1>5. UNCHANGED <<packages, pins, story>>
  BY WriterMoves DEF store
<1>6. Packaging' /\ RowsTrue'
  BY <1>1, <1>2, <1>3, <1>4, <1>5, PackFrame DEF Writers
<1>7. Named'
  <2> SUFFICES ASSUME NEW t \in DOMAIN req', req'[t].kind = "turn", req'[t].calm
               PROVE  /\ req'[t].pc = "differs" => index' # commits'[Top'].tree
                      /\ req'[t].pc = "committed" => commits'[Top'].by = t
                      /\ req'[t].head # 0 => commits'[req'[t].head].by = t
    BY DEF Named
  <2>1. CASE t = i
    BY <1>2, <2>1, NamedOwn
  <2>2. CASE t # i
    <3>1. t \in DOMAIN req /\ req'[t] = req[t]
      BY <1>2, <2>2
    <3>2. req[t].pc = "over"
      <4> SUFFICES ASSUME req[t].pc # "over" PROVE FALSE
        OBVIOUS
      <4>1. t \in Flying(Writers) /\ i \in Flying(Writers \cup {"delete"})
        BY <1>1, <3>1 DEF Flying, Writers
      <4> QED BY <2>2, <3>1, <4>1 DEF WorkInv, Undisturbed
    <3>3. req[t].head \in 0 .. Top
      BY <3>1 DEF Types, Top
    <3>4. req[t].head # 0 => commits'[req[t].head].by = t
      BY <1>3, <3>1, <3>3 DEF PackInv, Named
    <3> QED BY <3>1, <3>2, <3>4
  <2> QED BY <2>1, <2>2
<1> QED BY <1>6, <1>7 DEF PackInv

LEMMA PackLinks ==
  ASSUME Types, PackInv, NEW i \in DOMAIN req, Linking(i)
  PROVE  PackInv'
<1>1. PICK r \in Reqs : /\ req' = [req EXCEPT ![i] = r] /\ r.kind = req[i].kind
                        /\ req[i].kind \notin {"turn", "package"}
  BY LinkMoves
<1>2. /\ DOMAIN req' = DOMAIN req /\ req'[i] = r
      /\ \A j \in DOMAIN req : j # i => req'[j] = req[j]
  BY <1>1, MoveOne
<1>3. UNCHANGED <<index, commits, packages, pins>> /\ Top' = Top /\ Top \in Nat
  BY LinkMoves, Elements DEF store, Top
<1>4. Lasting
  BY <1>1, <1>2, <1>3 DEF Lasting
<1>5. story'.late = story.late
  BY DEF Linking, Publish, PublishCommit, Revoke, RevokeCommit, Delete, DeleteCommit, Types
<1>6. Packaging' /\ RowsTrue'
  BY <1>1, <1>2, <1>3, <1>4, <1>5, PackFrame
<1>7. Named'
  BY <1>1, <1>2, <1>3, NamedFrame
<1> QED BY <1>6, <1>7 DEF PackInv

LEMMA PackCrash ==
  ASSUME Types, PackInv, Crash
  PROVE  PackInv'
<1>1. /\ DOMAIN req' = DOMAIN req
      /\ \A j \in DOMAIN req :
           req'[j] = IF req[j].pc # "over"
                     THEN [Over(req[j]) EXCEPT !.failed = req[j].kind \in Writers] ELSE req[j]
      /\ \A j \in DOMAIN req : req'[j].kind = req[j].kind /\ req'[j].pc = "over"
      /\ UNCHANGED <<index, commits, packages, pins>>
  BY CrashMoves DEF tree, store
<1>2. Top' = Top /\ Top \in Nat /\ Lasting
  BY <1>1, Elements DEF Top, Lasting
<1>3. story'.late = story.late
  BY DEF Crash, Types
<1>4. Packaging' /\ RowsTrue'
  BY <1>1, <1>2, <1>3, PackFrame
<1>5. \A t \in DOMAIN req : req[t].kind = "turn" =>
        req'[t].calm = req[t].calm /\ req'[t].head = req[t].head
  <2> SUFFICES ASSUME NEW t \in DOMAIN req, req[t].kind = "turn", req[t].pc # "over"
               PROVE  req'[t].calm = req[t].calm /\ req'[t].head = req[t].head
    BY <1>1
  <2>1. req[t] \in Reqs /\ Over(req[t]) = [req[t] EXCEPT !.pc = "over"]
    BY OverType, Elements DEF Writers
  <2>2. req'[t] = [Over(req[t]) EXCEPT !.failed = req[t].kind \in Writers]
    BY <1>1
  <2> QED BY <2>1, <2>2 DEF Reqs
<1>6. Named'
  BY <1>1, <1>5, NamedFrame
<1> QED BY <1>4, <1>6 DEF PackInv

LEMMA PackArrive ==
  ASSUME Types, PackInv, NEW kind, NEW allow, NEW pin, NEW version,
         Arrives(kind, allow, pin, version)
  PROVE  PackInv'
<1> DEFINE n == Len(req) + 1
<1>1. /\ DOMAIN req' = DOMAIN req \cup {n} /\ n \notin DOMAIN req
      /\ \A j \in DOMAIN req : req'[j] = Disturbed(kind, j)
      /\ req'[n] = Newcomer(kind, allow, pin, version)
      /\ UNCHANGED <<index, commits, packages, pins>>
  BY ArriveMoves DEF tree, store
<1>2. \A j \in DOMAIN req : j \notin Flying(Writers) => req'[j] = req[j]
  BY <1>1 DEF Disturbed
<1>3. \A j \in DOMAIN req : /\ req'[j].kind = req[j].kind /\ req'[j].pc = req[j].pc
                            /\ req'[j].head = req[j].head /\ (req'[j].calm => req[j].calm)
  BY <1>1, Elements DEF Disturbed, Reqs
<1>4. req'[n].kind = kind /\ req'[n].pc = "start" /\ req'[n].head = 0
  BY <1>1 DEF Newcomer, Blank
<1>5. Lasting /\ Top' = Top /\ Top \in Nat
  BY <1>1, <1>2, Elements DEF Lasting, Flying, Top
<1>6. story'.late = story.late
  BY DEF Arrives, Arrive, Types
<1>7. /\ \A j \in DOMAIN req : req[j].kind = "package" => req'[j] = req[j]
      /\ \A j \in DOMAIN req' : req'[j].kind = "package" =>
           (j \in DOMAIN req /\ req[j].kind = "package") \/ req'[j].pc = "start"
  BY <1>1, <1>2, <1>3, <1>4 DEF Flying, Writers
<1>8. Packaging' /\ RowsTrue'
  BY <1>1, <1>5, <1>6, <1>7, PackFrame
<1>9. Named'
  BY <1>1, <1>3, <1>4, NamedFrame
<1> QED BY <1>8, <1>9 DEF PackInv

LEMMA NextPack ==
  ASSUME Types, WorkInv, PackInv, [Next]_vars
  PROVE  PackInv'
<1>1. CASE \E kind, allow, pin, version : Arrives(kind, allow, pin, version)
  BY <1>1, PackArrive
<1>2. ASSUME NEW i \in DOMAIN req, Writing(i) \/ Packing(i) \/ Linking(i)
      PROVE  PackInv'
  BY <1>2, PackWrites, PackReads, PackPin, PackStore, PackLinks DEF Packing
<1>3. CASE Crash
  BY <1>3, PackCrash
<1>4. CASE UNCHANGED vars
  <2>1. UNCHANGED <<req, index, commits, packages, pins, story>>
    BY <1>4 DEF vars, tree, store
  <2>2. Lasting /\ Top' = Top /\ Top \in Nat
    BY <2>1, Elements DEF Lasting, Top
  <2>3. Packaging' /\ RowsTrue'
    BY <2>1, <2>2, PackFrame
  <2>4. Named'
    BY <2>1, NamedFrame
  <2> QED BY <2>3, <2>4 DEF PackInv
<1> QED BY <1>1, <1>2, <1>3, <1>4, StepCases

\* PackagesAreTrue holds in every state: a package of a tree that stood still is of
\* its commit, its producer made that commit, and a pinned one has a producer unless
\* its pinning saw other claimants.
THEOREM PackagesTrue == Spec => []PackagesAreTrue
<1>1. Init => Types /\ WorkInv /\ PackInv
  BY InitTypes, InitWork, InitPack
<1>2. Types /\ WorkInv /\ PackInv /\ [Next]_vars => (Types /\ WorkInv /\ PackInv)'
  BY NextTypes, NextWork, NextPack
<1>3. Types /\ PackInv => PackagesAreTrue
  BY PackImplies
<1> QED BY <1>1, <1>2, <1>3, PTL DEF Spec
===============================================================================
