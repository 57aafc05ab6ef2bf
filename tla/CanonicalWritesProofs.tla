------------------------- MODULE CanonicalWritesProofs -------------------------
(***************************************************************************)
(* What module CanonicalWrites keeps for every number of proposals, files  *)
(* and decide requests, whatever other hands and crashes do: nothing in    *)
(* the root without a grant, one decision for each proposal, batches that  *)
(* do not write over themselves, and promotions that displace nothing.     *)
(*                                                                         *)
(* The argument is about the one request that holds the write lock: the    *)
(* row it deals with is pending as long as it holds it, unless somebody    *)
(* had decided that row before.  What a promotion leaves in the projection *)
(* is an argument about the order in which sources are read.               *)
(***************************************************************************)
EXTENDS CanonicalWrites, SequenceTheorems, FiniteSetTheorems, TLAPS

Request  == [pc : Pcs, todo : Seq(Proposals), batch : BOOLEAN, yes : BOOLEAN,
             declare : BOOLEAN, fresh : BOOLEAN]
Statuses == {"absent", "pending", "approved", "denied", "expired"}
Working  == {"check", "stamp", "write", "close"}
Holding  == {"write", "close"}

\* What the proofs need of the types.
Types ==
  /\ status \in [Proposals -> Statuses]
  /\ kind \in [Proposals -> Kinds] /\ path \in [Proposals -> Paths]
  /\ batch \in [Proposals -> Deciders \cup {Nobody}]
  /\ tasks \in [Proposals -> Nat]
  /\ root \in [Paths -> Bodies]
  /\ req \in [Deciders -> Request]
  /\ lock \in Deciders \cup {Nobody}

\* The rows still to deal with were proposed, those of a batch for one path each, and
\* only an approved write gets to the file.
Fine(r, st, pa, ki) ==
  /\ r.pc \in Working =>
       /\ r.todo # <<>>
       /\ \A i \in 1..Len(r.todo) : st[r.todo[i]] # "absent"
       /\ r.batch => \A i, j \in 1..Len(r.todo) : i # j => pa[r.todo[i]] # pa[r.todo[j]]
  /\ r.pc = "write" => r.yes /\ ki[Head(r.todo)] = "write"

Requesting ==
  \A d \in Deciders : Fine(req[d], status, path, kind) /\ (lock = d <=> req[d].pc \in Holding)

\* The row of the request that holds the lock is pending, or was decided before it.
Stamped ==
  \A d \in Deciders : req[d].pc \in Holding =>
    status[Row(d)] = "pending" \/ Row(d) \in overlapped

Excusable(p) == status[p] = "approved" \/ InFlight(p) \/ p \in torn \cup overlapped

\* What a proposal put into the root is in the proposal's file, for a reason.
Clean ==
  \A x \in Paths :
    /\ root[x] # Altered
    /\ \A p \in Proposals : root[x] = p => path[p] = x /\ status[p] # "absent" /\ Excusable(p)

Stands(p) == tasks[p] = IF status[p] = "approved" /\ kind[p] = "schedule" THEN 1 ELSE 0
Counted == \A p \in Proposals : p \in overlapped \/ Stands(p)

\* What a batch has decided and what it has still to decide are for different paths.
Batched ==
  \A q \in Proposals, d \in Deciders : batch[q] = d =>
    /\ req[d].pc # "idle" /\ status[q] # "absent"
    /\ req[d].pc \in Working => \A i \in 1..Len(req[d].todo) : path[req[d].todo[i]] # path[q]

Inv == Types /\ Requesting /\ Stamped /\ Clean /\ Counted /\ Batched

-----------------------------------------------------------------------------
(* Requests.                                                                *)

\* Nobody is no request, and an id is neither of the other things a file may hold.
LEMMA Apart ==
  /\ \A d \in Deciders : d # Nobody
  /\ \A p \in Proposals : p # Altered /\ p # Typed /\ p # Absent
  /\ Altered # Typed
  BY CanonicalAssumption DEF Nobody, Altered, Typed, Absent

\* The row at hand is the first of those to do.
LEMMA RowIsFirst ==
  ASSUME Types, Requesting, NEW d \in Deciders, req[d].pc \in Working
  PROVE  /\ req[d].todo \in Seq(Proposals) /\ req[d].todo # <<>>
         /\ 1 \in 1..Len(req[d].todo) /\ Row(d) = req[d].todo[1]
         /\ Row(d) \in Proposals /\ status[Row(d)] # "absent"
<1>1. req[d] \in Request /\ req[d].todo \in Seq(Proposals)
  BY DEF Types, Request
<1>2. req[d].todo # <<>> /\ \A i \in 1..Len(req[d].todo) : status[req[d].todo[i]] # "absent"
  BY DEF Requesting, Fine
<1>3. Len(req[d].todo) \in Nat \ {0}
  BY <1>1, <1>2, EmptySeq
<1>4. 1 \in 1..Len(req[d].todo)
  BY <1>3
<1>5. Row(d) = req[d].todo[1]
  BY <1>2 DEF Row
<1>6. req[d].todo[1] \in Proposals
  BY <1>1, <1>4, ElementOfSeq
<1> QED
  BY <1>1, <1>2, <1>4, <1>5, <1>6

\* A request that goes on has the rest of its rows; one that does not has none.
LEMMA NextRowIs ==
  ASSUME Types, Requesting, NEW d \in Deciders, NEW fresh \in BOOLEAN,
         req[d].pc \in Working, req' = NextRow(d, fresh)
  PROVE  \E r \in Request :
           /\ req' = [req EXCEPT ![d] = r]
           /\ \/ /\ r.pc \in {"check", "stamp"} /\ r.batch = req[d].batch
                 /\ r.todo = Tail(req[d].todo) /\ Len(r.todo) = Len(req[d].todo) - 1
                 /\ r.todo # <<>>
                 /\ \A i \in 1..Len(r.todo) : i + 1 \in 1..Len(req[d].todo)
                                              /\ r.todo[i] = req[d].todo[i + 1]
              \/ r.pc \in {"audit", "over"}
<1>1. req[d] \in Request /\ req[d].todo \in Seq(Proposals) /\ req[d].todo # <<>>
  BY RowIsFirst DEF Types
<1>2. /\ Tail(req[d].todo) \in Seq(Proposals) /\ Len(req[d].todo) \in Nat \ {0}
      /\ Len(Tail(req[d].todo)) = Len(req[d].todo) - 1
      /\ \A i \in 1..Len(Tail(req[d].todo)) : Tail(req[d].todo)[i] = req[d].todo[i + 1]
  BY <1>1, HeadTailProperties, EmptySeq
<1>3. <<>> \in Seq(Proposals) /\ Len(<<>>) = 0
  BY EmptySeq
<1>4. CASE Len(req[d].todo) > 1
  <2> DEFINE r == [req[d] EXCEPT !.pc = IF fresh THEN "check" ELSE "stamp",
                                 !.todo = Tail(req[d].todo), !.fresh = fresh]
  <2>1. req' = [req EXCEPT ![d] = r]
    <3>1. NextRow(d, fresh) = [req EXCEPT ![d] =
            IF Len(req[d].todo) > 1 THEN r
            ELSE IF req[d].batch THEN [req[d] EXCEPT !.pc = "audit", !.todo = <<>>]
            ELSE NoRequest("over")]
      BY DEF NextRow
    <3> HIDE DEF r
    <3> QED
      BY <1>4, <3>1
  <2>2. r \in Request
    BY <1>1, <1>2 DEF Request, Pcs
  <2>3. r.pc \in {"check", "stamp"} /\ r.batch = req[d].batch /\ r.todo = Tail(req[d].todo)
    BY <1>1 DEF Request
  <2>4. Tail(req[d].todo) # <<>>
    <3>1. Len(Tail(req[d].todo)) > 0
      BY <1>2, <1>4
    <3>2. \A t : Len(t) > 0 => t # <<>>
      BY <1>3
    <3> QED
      BY <3>1, <3>2, Zenon
  <2>5. \A i \in 1..Len(Tail(req[d].todo)) : i + 1 \in 1..Len(req[d].todo)
    BY <1>2
  <2> HIDE DEF r
  <2> QED
    BY <1>2, <2>1, <2>2, <2>3, <2>4, <2>5
<1>5. CASE ~(Len(req[d].todo) > 1) /\ req[d].batch
  <2> DEFINE r == [req[d] EXCEPT !.pc = "audit", !.todo = <<>>]
  <2>1. req' = [req EXCEPT ![d] = r]
    BY <1>5 DEF NextRow
  <2>2. r \in Request /\ r.pc = "audit"
    BY <1>1, <1>3 DEF Request, Pcs
  <2> QED
    BY <2>1, <2>2
<1>6. CASE ~(Len(req[d].todo) > 1) /\ ~req[d].batch
  <2>1. req' = [req EXCEPT ![d] = NoRequest("over")]
    BY <1>6 DEF NextRow
  <2>2. NoRequest("over") \in Request /\ NoRequest("over").pc = "over"
    BY <1>3 DEF NoRequest, Request, Pcs
  <2> QED
    BY <2>1, <2>2
<1> QED
  BY <1>4, <1>5, <1>6

\* Only the request that moves is another.
LEMMA Moved ==
  ASSUME req \in [Deciders -> Request], NEW d \in Deciders, NEW r \in Request,
         req' = [req EXCEPT ![d] = r]
  PROVE  /\ req' \in [Deciders -> Request]
         /\ \A e \in Deciders : req'[e] = IF e = d THEN r ELSE req[e]
OBVIOUS

\* A move of a request is the same as a record with another place.
LEMMA GotoIs ==
  ASSUME Types, NEW d \in Deciders, NEW where \in Pcs, Goto(d, where)
  PROVE  \E r \in Request :
           /\ req' = [req EXCEPT ![d] = r]
           /\ r.pc = where /\ r.todo = req[d].todo /\ r.batch = req[d].batch /\ r.yes = req[d].yes
<1> DEFINE r == [req[d] EXCEPT !.pc = where]
<1>1. req[d] \in Request
  BY DEF Types
<1>2. r \in Request /\ r.pc = where /\ r.todo = req[d].todo /\ r.batch = req[d].batch
      /\ r.yes = req[d].yes
  BY <1>1 DEF Request
<1>3. req' = [req EXCEPT ![d] = r]
  BY DEF Goto
<1> HIDE DEF r
<1> QED
  BY <1>2, <1>3

\* A request that moves without touching a row or a file leaves everything in order, if
\* where it arrives is in order.
LEMMA Shifts ==
  ASSUME Inv, NEW d \in Deciders, NEW r \in Request, req' = [req EXCEPT ![d] = r],
         UNCHANGED <<status, kind, path, batch, tasks, root, torn>>,
         overlapped \subseteq overlapped',
         lock' \in Deciders \cup {Nobody},
         lock' = d <=> r.pc \in Holding,
         \A e \in Deciders : e # d => (lock' = e <=> lock = e),
         Fine(r, status, path, kind),
         r.pc \in Holding => status[Head(r.todo)] = "pending" \/ Head(r.todo) \in overlapped',
         r.pc # "idle", req[d].pc # "close",
         \/ req[d].pc = "idle"
         \/ r.pc \in Working =>
              /\ req[d].pc \in Working
              /\ \A i \in 1..Len(r.todo) : \E j \in 1..Len(req[d].todo) : r.todo[i] = req[d].todo[j]
  PROVE  Inv'
<1>1. Types /\ Requesting /\ Stamped /\ Clean /\ Counted /\ Batched
  BY DEF Inv
<1>2. /\ req' \in [Deciders -> Request]
      /\ \A e \in Deciders : req'[e] = IF e = d THEN r ELSE req[e]
  BY <1>1, Moved DEF Types
<1>3. Types'
  BY <1>1, <1>2 DEF Types
<1>4. Requesting'
  BY <1>1, <1>2 DEF Requesting
<1>5. Stamped'
  BY <1>1, <1>2 DEF Stamped, Row
<1>6. \A p : InFlight(p) => InFlight(p)'
  BY <1>1, <1>2 DEF InFlight, Writes, Row
<1>7. \A p : Excusable(p) => Excusable(p)'
  BY <1>6 DEF Excusable
<1>8. Clean'
  BY <1>1, <1>7 DEF Clean
<1>9. Counted'
  BY <1>1 DEF Counted, Stands
<1>10. Batched'
  <2> SUFFICES ASSUME NEW q \in Proposals, NEW e \in Deciders, batch[q] = e
               PROVE  /\ req'[e].pc # "idle" /\ status[q] # "absent"
                      /\ req'[e].pc \in Working =>
                           \A i \in 1..Len(req'[e].todo) : path[req'[e].todo[i]] # path[q]
    BY DEF Batched
  <2>1. /\ req[e].pc # "idle" /\ status[q] # "absent"
        /\ req[e].pc \in Working => \A i \in 1..Len(req[e].todo) : path[req[e].todo[i]] # path[q]
    BY <1>1 DEF Batched
  <2>2. CASE e # d
    BY <1>2, <2>1, <2>2
  <2>3. CASE e = d
    <3>1. req'[e] = r
      BY <1>2, <2>3
    <3>2. r.pc \in Working => \A i \in 1..Len(r.todo) : path[r.todo[i]] # path[q]
      BY <2>1, <2>3
    <3> QED
      BY <2>1, <3>1, <3>2
  <2> QED
    BY <2>2, <2>3
<1> QED
  BY <1>3, <1>4, <1>5, <1>8, <1>9, <1>10 DEF Inv

\* Other hands change sources and evidence, or a file to what they typed.
LEMMA OtherHands ==
  ASSUME Inv, UNCHANGED <<status, kind, path, batch, tasks, req, lock, torn, overlapped>>,
         root' \in [Paths -> Bodies], \A x \in Paths : root'[x] \in {root[x], Typed}
  PROVE  Inv'
<1>1. Types' /\ Requesting' /\ Stamped' /\ Counted' /\ Batched'
  BY DEF Inv, Types, Requesting, Stamped, Row, Counted, Stands, Batched
<1>2. \A p : Excusable(p) => Excusable(p)'
  BY DEF Excusable, InFlight, Writes, Row
<1>3. Clean'
  BY <1>2, Apart DEF Inv, Clean
<1> QED
  BY <1>1, <1>3 DEF Inv

-----------------------------------------------------------------------------
(* The steps of a request.                                                  *)

\* A request begins with rows in the order of their ids, each once.
LEMMA PicksInv ==
  ASSUME Inv, NEW d \in Deciders, NEW ps \in SUBSET Proposals, NEW batched \in BOOLEAN,
         NEW approve \in BOOLEAN, NEW source \in BOOLEAN, ps # {},
         batched => OneBodyPerPath(ps),
         Picks(d, ps, batched, approve, source)
  PROVE  Inv'
<1>1. PICK rs \in InOrder(ps) :
        req' = [req EXCEPT ![d] = [pc |-> "stamp", todo |-> rs, batch |-> batched,
                                   yes |-> approve, declare |-> source, fresh |-> FALSE]]
  BY DEF Picks
<1> DEFINE r == [pc |-> "stamp", todo |-> rs, batch |-> batched,
                 yes |-> approve, declare |-> source, fresh |-> FALSE]
<1>2. IsFiniteSet(ps) /\ Cardinality(ps) \in Nat /\ Cardinality(ps) # 0
  BY CanonicalAssumption, FS_Subset, FS_CardinalityType, FS_EmptySet
<1>3. /\ rs \in [1..Cardinality(ps) -> ps]
      /\ \A i, j \in 1..Cardinality(ps) : i < j => rs[i] < rs[j]
  BY DEF InOrder
<1>4. rs \in Seq(Proposals) /\ Len(rs) = Cardinality(ps)
  <2>1. rs \in Seq(ps)
    BY <1>2, <1>3
  <2>2. Len(rs) = Cardinality(ps)
    BY <1>2, <1>3, <2>1, LenProperties
  <2> QED
    BY <2>1, <2>2, SeqMonotonic
<1>5. rs # <<>>
  BY <1>2, <1>4, EmptySeq
<1>6. r \in Request /\ r.pc = "stamp" /\ r.todo = rs /\ r.batch = batched
  BY <1>4 DEF Request, Pcs
<1>7. \A i, j \in 1..Len(rs) : i # j => rs[i] # rs[j]
  <2> SUFFICES ASSUME NEW i \in 1..Len(rs), NEW j \in 1..Len(rs), i # j PROVE rs[i] # rs[j]
    OBVIOUS
  <2>1. i < j \/ j < i
    BY <1>2, <1>4
  <2>2. rs[i] \in Nat /\ rs[j] \in Nat
    BY <1>3, <1>4, CanonicalAssumption
  <2> QED
    BY <1>3, <1>4, <2>1, <2>2
<1>8. Fine(r, status, path, kind)
  <2>1. \A i \in 1..Len(rs) : rs[i] \in ps /\ status[rs[i]] # "absent"
    BY <1>3, <1>4 DEF Picks
  <2>2. batched => \A i, j \in 1..Len(rs) : i # j => path[rs[i]] # path[rs[j]]
    BY <1>7, <2>1 DEF OneBodyPerPath
  <2> HIDE DEF r
  <2> QED
    BY <1>5, <1>6, <2>1, <2>2 DEF Fine
<1>9. /\ req[d].pc = "idle" /\ lock' = lock /\ lock # d
      /\ UNCHANGED <<status, kind, path, batch, tasks, root, torn, overlapped>>
  BY DEF Picks, rows, files, story, Inv, Requesting, Holding
<1>10. req' = [req EXCEPT ![d] = r]
  BY <1>1
<1>11. lock' \in Deciders \cup {Nobody}
  BY <1>9 DEF Inv, Types
<1> HIDE DEF r
<1> QED
  BY <1>6, <1>8, <1>9, <1>10, <1>11, Shifts DEF Holding

\* A row that fails is the request's no more, and neither is the lock.
LEMMA FailsInv ==
  ASSUME Inv, NEW d \in Deciders, req[d].pc \in {"check", "stamp", "write"}, Fails(d)
  PROVE  Inv'
<1>1. Types /\ Requesting /\ req[d].pc \in Working /\ req' = NextRow(d, TRUE)
  BY DEF Inv, Working, Fails, Drops
<1>2. PICK r \in Request :
        /\ req' = [req EXCEPT ![d] = r]
        /\ \/ /\ r.pc \in {"check", "stamp"} /\ r.batch = req[d].batch
              /\ r.todo = Tail(req[d].todo) /\ Len(r.todo) = Len(req[d].todo) - 1
              /\ r.todo # <<>>
              /\ \A i \in 1..Len(r.todo) : i + 1 \in 1..Len(req[d].todo)
                                           /\ r.todo[i] = req[d].todo[i + 1]
           \/ r.pc \in {"audit", "over"}
  BY <1>1, NextRowIs
<1>3. /\ UNCHANGED <<status, kind, path, batch, tasks, root, torn, overlapped>>
      /\ lock' = IF lock = d THEN Nobody ELSE lock
  BY DEF Fails, rows, files, story
<1>4. /\ lock' \in Deciders \cup {Nobody} /\ lock' # d
      /\ \A e \in Deciders : e # d => (lock' = e <=> lock = e)
  BY <1>1, <1>3, Apart DEF Types
<1>5. Fine(req[d], status, path, kind)
  BY <1>1 DEF Requesting
<1>6. Fine(r, status, path, kind)
  <2>1. CASE r.pc \in {"audit", "over"}
    BY <2>1 DEF Fine, Working
  <2>2. CASE r.pc \notin {"audit", "over"}
    <3>1. r.todo \in Seq(Proposals) /\ Len(r.todo) \in Nat
      BY LenProperties DEF Request
    <3>2. \A i \in 1..Len(r.todo) : status[r.todo[i]] # "absent"
      <4>1. \A k \in 1..Len(req[d].todo) : status[req[d].todo[k]] # "absent"
        BY <1>1, <1>5 DEF Fine
      <4> QED
        BY <1>2, <2>2, <4>1
    <3>3. ASSUME r.batch, NEW i \in 1..Len(r.todo), NEW j \in 1..Len(r.todo), i # j
          PROVE  path[r.todo[i]] # path[r.todo[j]]
      <4>1. /\ i + 1 \in 1..Len(req[d].todo) /\ r.todo[i] = req[d].todo[i + 1]
            /\ j + 1 \in 1..Len(req[d].todo) /\ r.todo[j] = req[d].todo[j + 1]
            /\ req[d].batch
        BY <1>2, <2>2, <3>3
      <4>2. i + 1 # j + 1
        BY <3>3
      <4>3. \A k, l \in 1..Len(req[d].todo) : k # l => path[req[d].todo[k]] # path[req[d].todo[l]]
        BY <1>1, <1>5, <4>1 DEF Fine
      <4> QED
        BY <4>1, <4>2, <4>3
    <3> QED
      BY <1>2, <2>2, <3>2, <3>3 DEF Fine
  <2> QED
    BY <2>1, <2>2
<1>7. r.pc \in Working => \A i \in 1..Len(r.todo) :
        \E j \in 1..Len(req[d].todo) : r.todo[i] = req[d].todo[j]
  BY <1>2 DEF Working
<1>8. r.pc \notin Holding /\ r.pc # "idle"
  BY <1>2 DEF Holding
<1> QED
  BY <1>1, <1>2, <1>3, <1>4, <1>6, <1>7, <1>8, Shifts

\* The lock is taken for a row that is pending, or that is noted.
LEMMA StampInv == ASSUME Inv, NEW d \in Deciders, Stamp(d) PROVE Inv'
<1> DEFINE where == IF Writes(d) THEN "write" ELSE "close"
<1>1. /\ req[d].pc = "stamp" /\ lock = Nobody /\ lock' = d /\ Goto(d, where)
      /\ overlapped' = IF status[Row(d)] = "pending" THEN overlapped ELSE overlapped \cup {Row(d)}
      /\ UNCHANGED <<status, kind, path, batch, tasks, root, torn>>
  BY DEF Stamp, rows, files
<1>2. where \in Pcs /\ where \in Holding /\ where # "idle" /\ req[d].pc \in Working
  BY <1>1 DEF Pcs, Holding, Working
<1>3. PICK r \in Request :
        /\ req' = [req EXCEPT ![d] = r]
        /\ r.pc = where /\ r.todo = req[d].todo /\ r.batch = req[d].batch /\ r.yes = req[d].yes
  BY <1>1, <1>2, GotoIs DEF Inv
<1>4. where = "write" => req[d].yes /\ kind[Head(req[d].todo)] = "write"
  BY DEF Writes, Row
<1> HIDE DEF where
<1>5. Fine(r, status, path, kind)
  BY <1>2, <1>3, <1>4 DEF Inv, Requesting, Fine
<1>6. status[Head(r.todo)] = "pending" \/ Head(r.todo) \in overlapped'
  BY <1>1, <1>3 DEF Row
<1>7. \A e \in Deciders : e # d => (lock' = e <=> lock = e)
  BY <1>1, Apart
<1> QED
  BY <1>1, <1>2, <1>3, <1>5, <1>6, <1>7, Shifts

\* A row read anew is dealt with if it is pending, and fails otherwise.
LEMMA CheckInv == ASSUME Inv, NEW d \in Deciders, Check(d) PROVE Inv'
<1>1. req[d].pc = "check" /\ req[d].pc \in Working
  BY DEF Check, Working
<1>2. CASE status[Row(d)] = "pending"
  <2>1. /\ Goto(d, "stamp")
        /\ UNCHANGED <<status, kind, path, batch, tasks, root, torn, overlapped, lock>>
    BY <1>2 DEF Check, rows, files, story
  <2>2. PICK r \in Request :
          /\ req' = [req EXCEPT ![d] = r]
          /\ r.pc = "stamp" /\ r.todo = req[d].todo /\ r.batch = req[d].batch /\ r.yes = req[d].yes
    BY <2>1, GotoIs DEF Inv, Pcs
  <2>3. Fine(r, status, path, kind)
    BY <1>1, <2>2 DEF Inv, Requesting, Fine, Working
  <2>4. lock' # d /\ lock' \in Deciders \cup {Nobody}
    BY <1>1, <2>1 DEF Inv, Requesting, Types, Holding
  <2>5. r.pc \notin Holding /\ r.pc # "idle"
    BY <2>2 DEF Holding
  <2> QED
    BY <1>1, <2>1, <2>2, <2>3, <2>4, <2>5, Shifts
<1>3. CASE status[Row(d)] # "pending"
  BY <1>1, <1>3, FailsInv DEF Check
<1> QED
  BY <1>2, <1>3

\* The audit event is the end of a batch.
LEMMA AuditInv == ASSUME Inv, NEW d \in Deciders, Audit(d) PROVE Inv'
<1> DEFINE r == NoRequest("over")
<1>1. r \in Request /\ r.pc = "over"
  BY EmptySeq DEF NoRequest, Request, Pcs
<1>2. /\ req[d].pc = "audit" /\ req' = [req EXCEPT ![d] = r] /\ lock' = lock
      /\ UNCHANGED <<status, kind, path, batch, tasks, root, torn, overlapped>>
  BY DEF Audit, rows, files, story
<1>3. lock' # d /\ lock' \in Deciders \cup {Nobody}
  BY <1>2 DEF Inv, Requesting, Types, Holding
<1> HIDE DEF r
<1>4. Fine(r, status, path, kind) /\ r.pc \notin Holding /\ r.pc \notin Working
  BY <1>1 DEF Fine, Holding, Working
<1> QED
  BY <1>1, <1>2, <1>3, <1>4, Shifts

\* A file is written for the row at hand, from then on in flight.
LEMMA WriteInv == ASSUME Inv, NEW d \in Deciders, Write(d) PROVE Inv'
<1>1. Types /\ Requesting /\ Stamped /\ Clean /\ Counted /\ Batched
  BY DEF Inv
<1>2. /\ req[d].pc = "write" /\ req[d].pc \in Working /\ req[d].pc \in Holding /\ Goto(d, "close")
      /\ root' = [root EXCEPT ![path[Row(d)]] = Row(d)]
      /\ UNCHANGED <<status, kind, path, batch, tasks, lock, torn, overlapped>>
  BY DEF Write, IsIntact, Bytes, Working, Holding, rows, story
<1>3. /\ req[d].todo # <<>> /\ Row(d) \in Proposals /\ status[Row(d)] # "absent" /\ lock = d
      /\ Writes(d)
  BY <1>1, <1>2, RowIsFirst DEF Requesting, Fine, Writes, Row
<1>4. PICK r \in Request :
        /\ req' = [req EXCEPT ![d] = r]
        /\ r.pc = "close" /\ r.todo = req[d].todo /\ r.batch = req[d].batch /\ r.yes = req[d].yes
  BY <1>1, <1>2, GotoIs DEF Pcs
<1>5. /\ req' \in [Deciders -> Request]
      /\ \A e \in Deciders : req'[e] = IF e = d THEN r ELSE req[e]
  BY <1>1, <1>4, Moved DEF Types
<1>6. Types'
  BY <1>1, <1>2, <1>3, <1>5 DEF Types, Bodies
<1>7. Fine(r, status, path, kind)
  BY <1>1, <1>2, <1>4 DEF Requesting, Fine, Working
<1>8. Requesting'
  BY <1>1, <1>2, <1>3, <1>4, <1>5, <1>7 DEF Requesting, Holding
<1>9. Stamped'
  BY <1>1, <1>2, <1>4, <1>5 DEF Stamped, Row, Holding
<1>10. InFlight(Row(d))'
  BY <1>2, <1>3, <1>4, <1>5 DEF InFlight, Writes, Row
<1>11. \A q : ~InFlight(q)
  BY <1>2, <1>3 DEF InFlight
<1>12. Clean'
  <2> SUFFICES ASSUME NEW x \in Paths
               PROVE  /\ root'[x] # Altered
                      /\ \A q \in Proposals : root'[x] = q =>
                           path[q] = x /\ status[q] # "absent" /\ Excusable(q)'
    BY <1>2 DEF Clean
  <2>1. CASE x = path[Row(d)]
    <3>1. root'[x] = Row(d)
      BY <1>1, <1>2, <2>1 DEF Types
    <3>2. \A q \in Proposals : q = Row(d) => Excusable(q)'
      <4> SUFFICES ASSUME NEW q \in Proposals, q = Row(d) PROVE InFlight(q)'
        BY DEF Excusable
      <4> QED
        BY <1>2, <1>3, <1>4, <1>5 DEF InFlight, Writes, Row
    <3> QED
      BY <1>3, <2>1, <3>1, <3>2, Apart
  <2>2. CASE x # path[Row(d)]
    <3>1. root'[x] = root[x]
      BY <1>1, <1>2, <2>2 DEF Types
    <3>2. \A q : Excusable(q) => Excusable(q)'
      BY <1>2, <1>11 DEF Excusable
    <3> QED
      BY <1>1, <3>1, <3>2 DEF Clean
  <2> QED
    BY <2>1, <2>2
<1>13. Counted'
  BY <1>1, <1>2 DEF Counted, Stands
<1>14. Batched'
  <2>1. \A e \in Deciders : /\ req'[e].todo = req[e].todo
                            /\ req[e].pc # "idle" => req'[e].pc # "idle"
                            /\ req'[e].pc \in Working => req[e].pc \in Working
    BY <1>2, <1>4, <1>5
  <2> QED
    BY <1>1, <1>2, <2>1 DEF Batched
<1> QED
  BY <1>6, <1>8, <1>9, <1>12, <1>13, <1>14 DEF Inv

\* The verdict is on the row that was pending, and the request has the others.
LEMMA FinishInv == ASSUME Inv, NEW d \in Deciders, Finish(d) PROVE Inv'
<1>1. Types /\ Requesting /\ Stamped /\ Clean /\ Counted /\ Batched
  BY DEF Inv
<1>2. PICK p : p = Row(d)
  OBVIOUS
<1>3. /\ req[d].pc = "close" /\ req[d].pc \in Working /\ req[d].pc \in Holding
      /\ status' = [status EXCEPT ![p] = Verdict(d)]
      /\ batch' = IF req[d].batch THEN [batch EXCEPT ![p] = d] ELSE batch
      /\ tasks' = IF req[d].yes /\ kind[p] = "schedule" THEN [tasks EXCEPT ![p] = @ + 1] ELSE tasks
      /\ req' = NextRow(d, req[d].fresh) /\ lock' = Nobody
      /\ UNCHANGED <<kind, path, root, torn, overlapped>>
  BY <1>2 DEF Finish, Working, Holding, files, story
<1>4. /\ req[d].todo \in Seq(Proposals) /\ req[d].todo # <<>> /\ 1 \in 1..Len(req[d].todo)
      /\ p = req[d].todo[1] /\ p \in Proposals /\ status[p] # "absent"
  BY <1>1, <1>2, <1>3, RowIsFirst
<1>5. /\ lock = d
      /\ status[p] = "pending" \/ p \in overlapped
      /\ Fine(req[d], status, path, kind)
  BY <1>1, <1>2, <1>3 DEF Requesting, Stamped
<1>6. req[d].fresh \in BOOLEAN
  BY <1>1 DEF Types, Request
<1>7. PICK r \in Request :
        /\ req' = [req EXCEPT ![d] = r]
        /\ \/ /\ r.pc \in {"check", "stamp"} /\ r.batch = req[d].batch
              /\ r.todo = Tail(req[d].todo) /\ Len(r.todo) = Len(req[d].todo) - 1
              /\ r.todo # <<>>
              /\ \A i \in 1..Len(r.todo) : i + 1 \in 1..Len(req[d].todo)
                                           /\ r.todo[i] = req[d].todo[i + 1]
           \/ r.pc \in {"audit", "over"}
  BY <1>1, <1>3, <1>6, NextRowIs
<1>8. /\ req' \in [Deciders -> Request]
      /\ \A e \in Deciders : req'[e] = IF e = d THEN r ELSE req[e]
  BY <1>1, <1>7, Moved DEF Types
<1>9. /\ Verdict(d) \in {"approved", "denied"} /\ (Verdict(d) = "approved" <=> req[d].yes)
      /\ \A q \in Proposals : status'[q] = IF q = p THEN Verdict(d) ELSE status[q]
      /\ \A q \in Proposals : status[q] # "absent" => status'[q] # "absent"
  BY <1>1, <1>3 DEF Types, Verdict
<1>10. Types'
  BY <1>1, <1>3, <1>4, <1>8, <1>9 DEF Types, Statuses
<1>11. r.pc \in Working =>
         /\ r.todo # <<>> /\ r.batch = req[d].batch
         /\ \A i \in 1..Len(r.todo) : i + 1 \in 1..Len(req[d].todo) /\ r.todo[i] = req[d].todo[i + 1]
  BY <1>7 DEF Working
<1>12. r.pc \notin Holding /\ r.pc # "idle"
  BY <1>7 DEF Holding
<1>13. \A e \in Deciders : e # d => req[e].pc \notin Holding
  BY <1>1, <1>5 DEF Requesting
<1>14. Fine(r, status', path, kind)
  <2> SUFFICES ASSUME r.pc \in Working
               PROVE  /\ \A i \in 1..Len(r.todo) : status'[r.todo[i]] # "absent"
                      /\ r.batch => \A i, j \in 1..Len(r.todo) : i # j => path[r.todo[i]] # path[r.todo[j]]
    BY <1>11, <1>12 DEF Fine, Holding
  <2>1. \A k \in 1..Len(req[d].todo) : status[req[d].todo[k]] # "absent" /\ req[d].todo[k] \in Proposals
    BY <1>3, <1>4, <1>5, ElementOfSeq DEF Fine
  <2>2. \A i \in 1..Len(r.todo) : status'[r.todo[i]] # "absent"
    BY <1>9, <1>11, <2>1
  <2>3. ASSUME r.batch, NEW i \in 1..Len(r.todo), NEW j \in 1..Len(r.todo), i # j
        PROVE  path[r.todo[i]] # path[r.todo[j]]
    <3>1. /\ i + 1 \in 1..Len(req[d].todo) /\ r.todo[i] = req[d].todo[i + 1]
          /\ j + 1 \in 1..Len(req[d].todo) /\ r.todo[j] = req[d].todo[j + 1]
          /\ req[d].batch
      BY <1>11, <2>3
    <3>2. i + 1 # j + 1
      BY <2>3
    <3>3. \A k, l \in 1..Len(req[d].todo) : k # l => path[req[d].todo[k]] # path[req[d].todo[l]]
      BY <1>3, <1>5, <3>1 DEF Fine
    <3> QED
      BY <3>1, <3>2, <3>3
  <2> QED
    BY <2>2, <2>3
<1>15. ASSUME NEW e \in Deciders, e # d
       PROVE  Fine(req[e], status', path, kind)
  <2>1. Fine(req[e], status, path, kind) /\ req[e].todo \in Seq(Proposals)
    BY <1>1 DEF Requesting, Types, Request
  <2>2. \A i \in 1..Len(req[e].todo) : req[e].todo[i] \in Proposals
    BY <2>1, ElementOfSeq
  <2> QED
    BY <1>9, <2>1, <2>2 DEF Fine
<1>16. Requesting'
  <2> SUFFICES ASSUME NEW e \in Deciders
               PROVE  Fine(req'[e], status', path, kind) /\ (lock' = e <=> req'[e].pc \in Holding)
    BY <1>3 DEF Requesting
  <2> QED
    BY <1>3, <1>8, <1>12, <1>13, <1>14, <1>15, Apart
<1>17. Stamped'
  BY <1>8, <1>12, <1>13 DEF Stamped
<1>18. ASSUME NEW q \in Proposals, Excusable(q), status[q] # "absent"
       PROVE  Excusable(q)'
  <2>1. CASE q \in torn \cup overlapped
    BY <1>3, <2>1 DEF Excusable
  <2>2. CASE InFlight(q)
    BY <1>2, <1>3, <1>5, <1>9, <2>2 DEF Excusable, InFlight, Writes
  <2>3. CASE status[q] = "approved"
    <3>1. CASE q = p
      BY <1>3, <1>5, <2>3, <3>1 DEF Excusable
    <3>2. CASE q # p
      BY <1>9, <2>3, <3>2 DEF Excusable
    <3> QED
      BY <3>1, <3>2
  <2> QED
    BY <1>18, <2>1, <2>2, <2>3 DEF Excusable
<1>19. Clean'
  BY <1>1, <1>3, <1>9, <1>18 DEF Clean
<1>20. Counted'
  <2> SUFFICES ASSUME NEW q \in Proposals, q \notin overlapped
               PROVE  tasks'[q] = IF status'[q] = "approved" /\ kind[q] = "schedule" THEN 1 ELSE 0
    BY <1>3 DEF Counted, Stands
  <2>1. tasks[q] = IF status[q] = "approved" /\ kind[q] = "schedule" THEN 1 ELSE 0
    BY <1>1 DEF Counted, Stands
  <2>2. CASE q = p
    <3>1. status[q] = "pending" /\ tasks[q] = 0
      BY <1>5, <2>1, <2>2
    <3>2. tasks'[q] = IF req[d].yes /\ kind[q] = "schedule" THEN 1 ELSE 0
      BY <1>1, <1>3, <2>2, <3>1 DEF Types
    <3> QED
      BY <1>9, <2>2, <3>2
  <2>3. CASE q # p
    <3>1. tasks'[q] = tasks[q]
      BY <1>1, <1>3, <2>3 DEF Types
    <3> QED
      BY <1>9, <2>1, <2>3, <3>1
  <2> QED
    BY <2>2, <2>3
<1>21. Batched'
  <2> SUFFICES ASSUME NEW q \in Proposals, NEW e \in Deciders, batch'[q] = e
               PROVE  /\ req'[e].pc # "idle" /\ status'[q] # "absent"
                      /\ req'[e].pc \in Working =>
                           \A i \in 1..Len(req'[e].todo) : path[req'[e].todo[i]] # path[q]
    BY <1>3 DEF Batched
  <2>1. CASE batch[q] = e
    <3>1. /\ req[e].pc # "idle" /\ status'[q] # "absent"
          /\ req[e].pc \in Working => \A i \in 1..Len(req[e].todo) : path[req[e].todo[i]] # path[q]
      BY <1>1, <1>9, <2>1 DEF Batched
    <3>2. CASE e # d
      BY <1>8, <3>1, <3>2
    <3>3. CASE e = d
      <4>1. r.pc \in Working => \A i \in 1..Len(r.todo) : path[r.todo[i]] # path[q]
        BY <1>3, <1>11, <3>1, <3>3
      <4> QED
        BY <1>8, <1>12, <3>1, <3>3, <4>1
    <3> QED
      BY <3>2, <3>3
  <2>2. CASE batch[q] # e
    <3>1. q = p /\ e = d /\ req[d].batch
      BY <1>1, <1>3, <2>2 DEF Types
    <3>2. r.pc \in Working => \A i \in 1..Len(r.todo) : path[r.todo[i]] # path[p]
      <4> SUFFICES ASSUME r.pc \in Working, NEW i \in 1..Len(r.todo) PROVE path[r.todo[i]] # path[p]
        OBVIOUS
      <4>1. i + 1 \in 1..Len(req[d].todo) /\ r.todo[i] = req[d].todo[i + 1] /\ i + 1 # 1
        BY <1>11
      <4>2. \A k, l \in 1..Len(req[d].todo) : k # l => path[req[d].todo[k]] # path[req[d].todo[l]]
        BY <1>3, <1>5, <3>1 DEF Fine
      <4> QED
        BY <1>4, <4>1, <4>2
    <3> QED
      BY <1>4, <1>8, <1>9, <1>12, <3>1, <3>2
  <2> QED
    BY <2>1, <2>2
<1> QED
  BY <1>10, <1>16, <1>17, <1>19, <1>20, <1>21 DEF Inv

\* A crash ends every request, keeps every row, and notes what was in flight.
LEMMA CrashInv == ASSUME Inv, Crash PROVE Inv'
<1>1. Types /\ Clean /\ Counted /\ Batched
  BY DEF Inv
<1>2. /\ UNCHANGED <<kind, path, batch, tasks, root, overlapped>> /\ lock' = Nobody
      /\ status' = [q \in Proposals |-> status[q]]
      /\ torn' = torn \cup {Row(d) : d \in {e \in Deciders : req[e].pc = "close" /\ Writes(e)}}
      /\ req' = [d \in Deciders |-> NoRequest(IF req[d].pc = "idle" THEN "idle" ELSE "over")]
  BY DEF Crash, Reaped, files
<1>3. status' = status
  BY <1>1, <1>2 DEF Types
<1>4. \A d \in Deciders :
        /\ req'[d] \in Request /\ req'[d].pc \notin Working /\ req'[d].pc \notin Holding
        /\ req[d].pc # "idle" => req'[d].pc # "idle"
  <2> SUFFICES ASSUME NEW d \in Deciders
               PROVE  /\ req'[d] \in Request /\ req'[d].pc \notin Working /\ req'[d].pc \notin Holding
                      /\ req[d].pc # "idle" => req'[d].pc # "idle"
    OBVIOUS
  <2>1. \A w \in {"idle", "over"} : NoRequest(w) \in Request /\ NoRequest(w).pc = w
    BY EmptySeq DEF NoRequest, Request, Pcs
  <2>2. req'[d] = NoRequest(IF req[d].pc = "idle" THEN "idle" ELSE "over")
    BY <1>2
  <2>3. CASE req[d].pc = "idle"
    BY <2>1, <2>2, <2>3 DEF Working, Holding
  <2>4. CASE req[d].pc # "idle"
    BY <2>1, <2>2, <2>4 DEF Working, Holding
  <2> QED
    BY <2>3, <2>4
<1>5. req' \in [Deciders -> Request]
  BY <1>2, <1>4
<1>6. Types' /\ Requesting' /\ Stamped'
  <2>1. Types'
    BY <1>1, <1>2, <1>3, <1>5 DEF Types
  <2>2. \A d \in Deciders : Fine(req'[d], status', path', kind')
    BY <1>4 DEF Fine, Working, Holding
  <2>3. Requesting'
    BY <1>2, <1>4, <2>2, Apart DEF Requesting
  <2> QED
    BY <1>4, <2>1, <2>3 DEF Stamped
<1>7. \A q : Excusable(q) => Excusable(q)'
  BY <1>2, <1>3 DEF Excusable, InFlight
<1>8. Clean' /\ Counted'
  BY <1>1, <1>2, <1>3, <1>7 DEF Clean, Counted, Stands
<1>9. Batched'
  BY <1>1, <1>2, <1>3, <1>4 DEF Batched
<1> QED
  BY <1>6, <1>8, <1>9 DEF Inv

\* What is proposed was nowhere: in no request, no batch and no file.
LEMMA ProposeInv ==
  ASSUME Inv, NEW p \in Proposals, NEW k \in Kinds, NEW x \in Paths, Propose(p, k, x)
  PROVE  Inv'
<1>1. Types /\ Requesting /\ Stamped /\ Clean /\ Counted /\ Batched
  BY DEF Inv
<1>2. /\ status[p] = "absent" /\ lock = Nobody
      /\ status' = [status EXCEPT ![p] = "pending"]
      /\ kind' = [kind EXCEPT ![p] = k] /\ path' = [path EXCEPT ![p] = x]
      /\ UNCHANGED <<batch, tasks, root, req, lock, torn, overlapped>>
  BY DEF Propose, files, requests, story
<1>3. /\ status'[p] = "pending"
      /\ \A q \in Proposals : q # p => status'[q] = status[q] /\ kind'[q] = kind[q] /\ path'[q] = path[q]
  BY <1>1, <1>2 DEF Types
<1>4. Types'
  BY <1>1, <1>2 DEF Types, Statuses
<1>5. \A d \in Deciders : req[d].pc \notin Holding
  BY <1>1, <1>2, Apart DEF Requesting
<1>6. ASSUME NEW d \in Deciders, req[d].pc \in Working, NEW i \in 1..Len(req[d].todo)
      PROVE  req[d].todo[i] \in Proposals /\ req[d].todo[i] # p
  <2>1. req[d].todo \in Seq(Proposals)
    BY <1>1 DEF Types, Request
  <2>2. status[req[d].todo[i]] # "absent"
    BY <1>1, <1>6 DEF Requesting, Fine
  <2> QED
    BY <1>2, <2>1, <2>2, ElementOfSeq
<1>7. Requesting' /\ Stamped'
  <2>1. ASSUME NEW d \in Deciders PROVE Fine(req[d], status', path', kind')
    <3>1. Fine(req[d], status, path, kind)
      BY <1>1 DEF Requesting
    <3>2. CASE req[d].pc \in Working
      <4>1. req[d].pc # "write"
        BY <1>5 DEF Holding
      <4>2. \A i \in 1..Len(req[d].todo) : req[d].todo[i] \in Proposals /\ req[d].todo[i] # p
        BY <1>6, <3>2
      <4> QED
        BY <1>3, <3>1, <3>2, <4>1, <4>2 DEF Fine
    <3>3. CASE req[d].pc \notin Working
      BY <3>3 DEF Fine, Working
    <3> QED
      BY <3>2, <3>3
  <2> QED
    BY <1>1, <1>2, <1>5, <2>1 DEF Requesting, Stamped
<1>8. ASSUME NEW q \in Proposals, q # p, Excusable(q) PROVE Excusable(q)'
  <2>1. ~InFlight(q)
    BY <1>2, Apart DEF InFlight
  <2> QED
    BY <1>2, <1>3, <1>8, <2>1 DEF Excusable
<1>9. Clean'
  BY <1>1, <1>2, <1>3, <1>8 DEF Clean
<1>10. Counted'
  <2> SUFFICES ASSUME NEW q \in Proposals, q \notin overlapped
               PROVE  tasks[q] = IF status'[q] = "approved" /\ kind'[q] = "schedule" THEN 1 ELSE 0
    BY <1>2 DEF Counted, Stands
  <2>1. tasks[q] = IF status[q] = "approved" /\ kind[q] = "schedule" THEN 1 ELSE 0
    BY <1>1 DEF Counted, Stands
  <2>2. CASE q = p
    BY <1>2, <1>3, <2>1, <2>2
  <2>3. CASE q # p
    BY <1>3, <2>1, <2>3
  <2> QED
    BY <2>2, <2>3
<1>11. Batched'
  <2> SUFFICES ASSUME NEW q \in Proposals, NEW e \in Deciders, batch[q] = e
               PROVE  /\ req[e].pc # "idle" /\ status'[q] # "absent"
                      /\ req[e].pc \in Working =>
                           \A i \in 1..Len(req[e].todo) : path'[req[e].todo[i]] # path'[q]
    BY <1>2 DEF Batched
  <2>1. /\ req[e].pc # "idle" /\ status[q] # "absent" /\ q # p
        /\ req[e].pc \in Working => \A i \in 1..Len(req[e].todo) : path[req[e].todo[i]] # path[q]
    BY <1>1, <1>2 DEF Batched
  <2> QED
    BY <1>3, <1>6, <2>1
<1> QED
  BY <1>4, <1>7, <1>9, <1>10, <1>11 DEF Inv

-----------------------------------------------------------------------------
(* The invariant, and what follows from it.                                 *)

\* Nothing is proposed, decided or written at first.
LEMMA InvInit == Init => Inv
<1> SUFFICES ASSUME Init PROVE Inv
  OBVIOUS
<1>1. NoRequest("idle") \in Request /\ NoRequest("idle").pc = "idle"
  BY EmptySeq DEF NoRequest, Request, Pcs
<1>2. \A d \in Deciders : req[d] = NoRequest("idle")
  BY DEF Init
<1>3. (CHOOSE x \in Paths : TRUE) \in Paths
  BY CanonicalAssumption
<1>4. Types
  BY <1>1, <1>2, <1>3 DEF Init, Types, Statuses, Kinds, Bodies
<1>5. Requesting
  BY <1>1, <1>2, Apart DEF Init, Requesting, Fine, Working, Holding
<1>6. Stamped
  BY <1>1, <1>2 DEF Stamped, Holding
<1>7. Clean /\ Counted /\ Batched
  BY Apart DEF Init, Clean, Counted, Stands, Batched, Absent, Altered
<1> QED
  BY <1>4, <1>5, <1>6, <1>7 DEF Inv

LEMMA InvNext == Inv /\ [Next]_vars => Inv'
<1> SUFFICES ASSUME Inv, [Next]_vars PROVE Inv'
  OBVIOUS
<1>1. root \in [Paths -> Bodies]
  BY DEF Inv, Types
<1>2. CASE \E p \in Proposals, k \in Kinds, x \in Paths : Propose(p, k, x)
  BY <1>2, ProposeInv
<1>3. CASE \E x \in Paths : Edit(x)
  <2>1. PICK x \in Paths : Edit(x)
    BY <1>3
  <2>2. /\ UNCHANGED <<status, kind, path, batch, tasks, req, lock, torn, overlapped>>
        /\ root' = [root EXCEPT ![x] = Typed]
    BY <2>1 DEF Edit, rows, requests, story
  <2>3. root' \in [Paths -> Bodies] /\ \A y \in Paths : root'[y] \in {root[y], Typed}
    BY <1>1, <2>2 DEF Bodies
  <2> QED
    BY <2>2, <2>3, OtherHands
<1>4. ASSUME UNCHANGED <<status, kind, path, batch, tasks, req, lock, torn, overlapped>>, root' = root
      PROVE  Inv'
  BY <1>1, <1>4, OtherHands
<1>5. CASE \E p \in Proposals, how \in {"altered", "missing"} : Tamper(p, how)
  BY <1>4, <1>5 DEF Tamper, rows, requests, story
<1>6. CASE \E rel \in Paths \cup {Folder} : DeclareLooks(rel)
  BY <1>4, <1>6 DEF DeclareLooks, rows, files, story
<1>7. CASE DeclareInserts
  BY <1>4, <1>7 DEF DeclareInserts, files, story
<1>8. CASE Import
  BY <1>4, <1>8 DEF Import, files, requests, story
<1>9. ASSUME NEW d \in Deciders, NEW approve \in BOOLEAN, NEW source \in BOOLEAN,
             NEW p \in Proposals, Decide(d, p, approve, source)
      PROVE  Inv'
  <2>1. {p} \in SUBSET Proposals /\ {p} # {} /\ FALSE \in BOOLEAN
    OBVIOUS
  <2>2. Picks(d, {p}, FALSE, approve, source)
    BY <1>9 DEF Decide
  <2> QED
    BY <2>1, <2>2, PicksInv
<1>10. ASSUME NEW d \in Deciders, NEW approve \in BOOLEAN, NEW source \in BOOLEAN,
              NEW ps \in SUBSET Proposals, DecideBatch(d, ps, approve, source)
       PROVE  Inv'
  <2>1. ps # {} /\ OneBodyPerPath(ps) /\ Picks(d, ps, TRUE, approve, source)
    BY <1>10 DEF DecideBatch
  <2> QED
    BY <2>1, PicksInv
<1>11. ASSUME NEW d \in Deciders, Proceeds(d) PROVE Inv'
  <2>1. CASE Check(d)
    BY <2>1, CheckInv
  <2>2. CASE Stamp(d)
    BY <2>2, StampInv
  <2>3. CASE TimesOut(d)
    BY <2>3, FailsInv DEF TimesOut
  <2>4. CASE Write(d)
    BY <2>4, WriteInv
  <2>5. CASE WriteFails(d)
    BY <2>5, FailsInv DEF WriteFails
  <2>6. CASE Finish(d)
    BY <2>6, FinishInv
  <2>7. CASE Audit(d)
    BY <2>7, AuditInv
  <2> QED
    BY <1>11, <2>1, <2>2, <2>3, <2>4, <2>5, <2>6, <2>7 DEF Proceeds
<1>12. CASE Crash
  BY <1>12, CrashInv
<1>13. CASE UNCHANGED vars
  BY <1>4, <1>13 DEF vars, rows, files, requests, story
<1> QED
  BY <1>2, <1>3, <1>5, <1>6, <1>7, <1>8, <1>9, <1>10, <1>11, <1>12, <1>13 DEF Next

LEMMA Always == Spec => []Inv
  BY InvInit, InvNext, PTL DEF Spec

\* The root holds what was approved, as it was proposed, and each approved schedule has its
\* one task, but for what a crash caught between file and commit and what two requests
\* decided at once.
THEOREM GrantedOrAbsent == Spec => []NothingWithoutGrant
<1>1. Inv => NothingWithoutGrant
  <2> SUFFICES ASSUME Inv PROVE NothingWithoutGrant
    OBVIOUS
  <2>1. \A x \in Paths : root[x] # Altered
    BY DEF Inv, Clean
  <2>2. ASSUME NEW p \in Proposals, NEW x \in Paths, root[x] = p
        PROVE  status[p] = "approved" \/ InFlight(p) \/ p \in torn \cup overlapped
    BY <2>2 DEF Inv, Clean, Excusable
  <2>3. \A p \in Proposals : \/ p \in overlapped
                             \/ tasks[p] = IF status[p] = "approved" /\ kind[p] = "schedule" THEN 1 ELSE 0
    BY DEF Inv, Counted, Stands
  <2> QED
    BY <2>1, <2>2, <2>3 DEF NothingWithoutGrant
<1> QED
  BY <1>1, Always, PTL

\* A status changes once more after the proposal is made: by the request that holds the lock
\* for that row, and from pending.
THEOREM DecidedOnce == Spec => DecisionsStand
<1> DEFINE DecidedByHolder ==
      \A p \in Proposals :
        status[p] # "absent" /\ status'[p] # status[p] =>
          /\ \E d \in Deciders : lock = d /\ Row(d) = p /\ status'[p] = Verdict(d)
          /\ status[p] = "pending" \/ p \in overlapped
<1>1. Inv /\ [Next]_vars => DecidedByHolder
  <2> SUFFICES ASSUME Inv, [Next]_vars, NEW p \in Proposals,
                      status[p] # "absent", status'[p] # status[p]
               PROVE  /\ \E d \in Deciders : lock = d /\ Row(d) = p /\ status'[p] = Verdict(d)
                      /\ status[p] = "pending" \/ p \in overlapped
    OBVIOUS
  <2>1. status \in [Proposals -> Statuses]
    BY DEF Inv, Types
  <2>2. ASSUME NEW d \in Deciders, Finish(d)
        PROVE  /\ lock = d /\ Row(d) = p /\ status'[p] = Verdict(d)
               /\ status[p] = "pending" \/ p \in overlapped
    <3>1. /\ req[d].pc = "close" /\ status' = [status EXCEPT ![Row(d)] = Verdict(d)]
      BY <2>2 DEF Finish
    <3>2. Row(d) = p /\ status'[p] = Verdict(d)
      BY <2>1, <3>1
    <3>3. lock = d /\ (status[Row(d)] = "pending" \/ Row(d) \in overlapped)
      BY <3>1 DEF Inv, Requesting, Stamped, Holding
    <3> QED
      BY <3>2, <3>3
  <2>3. ASSUME NEW q \in Proposals, NEW k \in Kinds, NEW x \in Paths, Propose(q, k, x)
        PROVE  FALSE
    BY <2>1, <2>3 DEF Propose
  <2>4. ~Crash
    BY <2>1 DEF Crash, Reaped
  <2>5. status' # status
    OBVIOUS
  <2>6. ASSUME NEW d \in Deciders, Proceeds(d) PROVE Finish(d)
    BY <2>5, <2>6 DEF Proceeds, Check, Stamp, TimesOut, Write, WriteFails, Fails, Audit, rows
  <2>7. PICK d \in Deciders : Finish(d)
    BY <2>3, <2>4, <2>5, <2>6
    DEF Next, Edit, Tamper, DeclareLooks, DeclareInserts, Import, Decide, DecideBatch, Picks, vars, rows
  <2> QED
    BY <2>2, <2>7
<1>2. DecisionsStand <=> [][DecidedByHolder]_vars
  BY DEF DecisionsStand
<1> HIDE DEF DecidedByHolder
<1> QED
  BY <1>1, <1>2, Always, PTL DEF Spec

\* Of a batch, what is in the root is not written over by the rest of it.
THEOREM BatchesAreWhole == Spec => BatchLandsWhole
<1> DEFINE Whole ==
      \A x \in Paths :
        LET old == root[x]
        IN  root'[x] # old /\ root'[x] \in Proposals /\ old \in Proposals =>
              ~(lock # Nobody /\ batch[old] = lock)
<1>1. Inv /\ [Next]_vars => Whole
  <2> SUFFICES ASSUME Inv, [Next]_vars, NEW x \in Paths, NEW old \in Proposals, old = root[x],
                      root'[x] # old, root'[x] \in Proposals, lock # Nobody, batch[old] = lock
               PROVE  FALSE
    OBVIOUS
  <2>1. /\ root \in [Paths -> Bodies] /\ Types /\ Requesting
    BY DEF Inv, Types
  <2>2. ASSUME NEW d \in Deciders, Write(d) PROVE FALSE
    <3>1. req[d].pc = "write" /\ root' = [root EXCEPT ![path[Row(d)]] = Bytes(Row(d))]
      BY <2>2 DEF Write
    <3>2. path[Row(d)] = x
      BY <2>1, <3>1
    <3>3. lock = d /\ req[d].pc \in Working
      BY <2>1, <3>1 DEF Requesting, Holding, Working
    <3>4. path[old] = x
      BY DEF Inv, Clean
    <3>5. Row(d) = req[d].todo[1] /\ 1 \in 1..Len(req[d].todo)
      BY <2>1, <3>3, RowIsFirst
    <3>6. path[req[d].todo[1]] # path[old]
      BY <3>3, <3>5 DEF Inv, Batched
    <3> QED
      BY <3>2, <3>4, <3>5, <3>6
  <2>3. ASSUME NEW y \in Paths, Edit(y) PROVE FALSE
    BY <2>1, <2>3, Apart DEF Edit
  <2>4. root' # root
    OBVIOUS
  <2>5. ASSUME NEW d \in Deciders, Proceeds(d) PROVE Write(d)
    BY <2>4, <2>5 DEF Proceeds, Check, Stamp, TimesOut, WriteFails, Fails, Finish, Audit, files
  <2> QED
    BY <2>2, <2>3, <2>4, <2>5
    DEF Next, Propose, Tamper, DeclareLooks, DeclareInserts, Import, Decide, DecideBatch, Picks, Crash,
        vars, files
<1>2. BatchLandsWhole <=> [][Whole]_vars
  BY DEF BatchLandsWhole
<1> HIDE DEF Whole
<1> QED
  BY <1>1, <1>2, Always, PTL DEF Spec

-----------------------------------------------------------------------------
(* What an execution is shown.  The sources are read in an order, so that   *)
(* what is shown of the first of them does not depend on the others; what   *)
(* the library's operators compute along that order is shown by induction,  *)
(* for which a set of naturals has a least member.                          *)

Sourced ==
  /\ sources \in Seq([rel : Paths \cup {Folder}, order : Nat])
  /\ wanted \in Paths \cup {Folder, Nobody}

\* A source is shown if, with what is read before it and shown, it fits.
GreedyOn(P, s) ==
  P \subseteq s /\ \A i \in s : i \in P <=> Fits(i, {j \in P : ReadBefore(j, i)})

\* The sums of f over the subsets of D.
IsTable(h, f, D) ==
  /\ h \in [SUBSET D -> Nat] /\ h[{}] = 0
  /\ \A s \in SUBSET D : \A x \in s : h[s] = f[x] + h[s \ {x}]

SizeOf(i) == Cardinality(Contents(sources[i].rel))
Shown ==
  /\ GreedyOn(Projection, DOMAIN sources)
  /\ \E h : /\ IsTable(h, [i \in DOMAIN sources |-> SizeOf(i)], DOMAIN sources)
            /\ \A is \in SUBSET DOMAIN sources : Size(is) = h[is]

LEMMA LeastOf ==
  ASSUME NEW S \in SUBSET Nat, S # {}
  PROVE  \E x \in S : \A y \in S : x <= y
<1>1. PICK x \in S : \A y \in S : ~ (<<y, x>> \in OpToRel(<, Nat))
  BY NatLessThanWellFounded, WFMin
<1>2. \A y \in S : ~ (y < x)
  BY <1>1 DEF OpToRel
<1> QED BY <1>2

\* A property of all subsets that has no smallest counterexample: T is the set of the
\* subsets of D for which it is false.
LEMMA SmallestSubset ==
  ASSUME NEW D, IsFiniteSet(D), NEW T \in SUBSET (SUBSET D), T # {}
  PROVE  \E s \in T : \A x \in s : s \ {x} \notin T
<1> DEFINE sizes == {n \in Nat : \E s \in T : n = Cardinality(s)}
<1>1. \A s \in T : IsFiniteSet(s) /\ Cardinality(s) \in Nat
  BY FS_Subset, FS_CardinalityType
<1>2. sizes \in SUBSET Nat /\ sizes # {}
  BY <1>1
<1> HIDE DEF sizes
<1>3. PICK n \in sizes : \A m \in sizes : n <= m
  BY <1>2, LeastOf
<1>4. PICK s \in T : n = Cardinality(s)
  BY <1>3 DEF sizes
<1>5. ASSUME NEW x \in s, s \ {x} \in T PROVE FALSE
  <2>1. Cardinality(s \ {x}) = n - 1 /\ n \in Nat
    BY <1>1, <1>4, FS_RemoveElement
  <2>2. Cardinality(s \ {x}) \in sizes
    BY <1>1, <1>5 DEF sizes
  <2>3. n <= n - 1
    BY <1>3, <2>1, <2>2
  <2> QED
    BY <2>1, <2>3
<1> QED
  BY <1>4, <1>5

LEMMA RowsFinite ==
  ASSUME Sourced
  PROVE  /\ Len(sources) \in Nat /\ DOMAIN sources = 1..Len(sources)
         /\ IsFiniteSet(DOMAIN sources)
         /\ \A i \in DOMAIN sources : /\ sources[i] \in [rel : Paths \cup {Folder}, order : Nat]
                                      /\ i \in Nat /\ sources[i].order \in Nat
<1>1. sources \in Seq([rel : Paths \cup {Folder}, order : Nat])
  BY DEF Sourced
<1>2. Len(sources) \in Nat /\ DOMAIN sources = 1..Len(sources)
  BY <1>1, LenProperties
<1>3. \A i \in DOMAIN sources : sources[i] \in [rel : Paths \cup {Folder}, order : Nat]
  BY <1>1, <1>2, ElementOfSeq
<1>4. 1 \in Int /\ Len(sources) \in Int
  BY <1>2
<1>5. IsFiniteSet(DOMAIN sources)
  BY <1>2, <1>4, FS_Interval
<1>6. \A i \in DOMAIN sources : i \in Nat
  BY <1>2
<1> QED
  BY <1>2, <1>3, <1>5, <1>6

-----------------------------------------------------------------------------
(* The order of reading.                                                    *)

LEMMA ReadBeforeOrders ==
  ASSUME Sourced, NEW i \in DOMAIN sources, NEW j \in DOMAIN sources
  PROVE  /\ ~ ReadBefore(i, i)
         /\ i # j => (ReadBefore(i, j) <=> ~ ReadBefore(j, i))
         /\ ReadBefore(i, j) => sources[i].order <= sources[j].order
         /\ \A k \in DOMAIN sources : ReadBefore(i, j) /\ ReadBefore(j, k) => ReadBefore(i, k)
<1>1. /\ i \in Nat /\ j \in Nat /\ sources[i].order \in Nat /\ sources[j].order \in Nat
      /\ \A k \in DOMAIN sources : k \in Nat /\ sources[k].order \in Nat
  BY RowsFinite
<1> QED
  BY <1>1 DEF ReadBefore

LEMMA ReadLastIs ==
  ASSUME Sourced, NEW s \in SUBSET DOMAIN sources, s # {}
  PROVE  ReadLast(s) \in s /\ \A j \in s \ {ReadLast(s)} : ReadBefore(j, ReadLast(s))
<1> DEFINE HasLast(u) == \E i \in u : \A j \in u \ {i} : ReadBefore(j, i)
           T == {u \in SUBSET DOMAIN sources : u # {} /\ ~ HasLast(u)}
<1>1. IsFiniteSet(DOMAIN sources)
  BY RowsFinite
<1>2. ASSUME T # {} PROVE FALSE
  <2>1. PICK u \in T : \A x \in u : u \ {x} \notin T
    <3>1. T \in SUBSET (SUBSET DOMAIN sources)
      OBVIOUS
    <3> HIDE DEF T
    <3> QED BY <1>1, <1>2, <3>1, SmallestSubset
  <2>2. PICK x \in u : TRUE
    BY <2>1
  <2>3. CASE u \ {x} = {}
    <3>1. \A j \in u \ {x} : ReadBefore(j, x)
      BY <2>3
    <3> QED
      BY <2>1, <2>2, <3>1
  <2>4. CASE u \ {x} # {}
    <3>1. PICK l \in u \ {x} : \A j \in (u \ {x}) \ {l} : ReadBefore(j, l)
      BY <2>1, <2>2, <2>4
    <3>2. l \in DOMAIN sources /\ x \in DOMAIN sources /\ l # x
      BY <2>1, <2>2, <3>1
    <3>3. CASE ReadBefore(x, l)
      <4>1. \A j \in u \ {l} : ReadBefore(j, l)
        BY <3>1, <3>3
      <4> QED
        BY <2>1, <3>1, <4>1
    <3>4. CASE ~ ReadBefore(x, l)
      <4>1. ReadBefore(l, x)
        BY <3>2, <3>4, ReadBeforeOrders
      <4>2. ASSUME NEW j \in u \ {x} PROVE ReadBefore(j, x)
        <5>1. j \in DOMAIN sources
          BY <2>1
        <5>2. j = l \/ ReadBefore(j, l)
          BY <3>1
        <5> QED
          BY <3>2, <4>1, <5>1, <5>2, ReadBeforeOrders
      <4> QED
        BY <2>1, <2>2, <4>2
    <3> QED
      BY <3>3, <3>4
  <2> QED
    BY <2>3, <2>4
<1>3. \E i \in s : \A j \in s \ {i} : ReadBefore(j, i)
  BY <1>2
<1> HIDE DEF HasLast, T
<1> QED
  BY <1>3 DEF ReadLast

\* The last of the placed sources has the greatest order, and the next is above it.
LEMMA NextOrderIs ==
  ASSUME Sourced
  PROVE  /\ NextOrder \in Nat
         /\ \A i \in DOMAIN sources : sources[i].order # Plain => sources[i].order < NextOrder
<1> DEFINE orders == {sources[i].order : i \in DOMAIN sources} \ {Plain}
           placed == {i \in DOMAIN sources : sources[i].order # Plain}
<1>1. \A i \in DOMAIN sources : i \in placed => sources[i].order \in orders
  OBVIOUS
<1>2. orders \in SUBSET Nat
  BY RowsFinite
<1>3. NextOrder = IF orders = {} THEN 1 ELSE Max(orders) + 1
  BY DEF NextOrder
<1>4. CASE orders = {}
  BY <1>1, <1>3, <1>4
<1>5. CASE orders # {}
  <2>1. placed # {} /\ placed \in SUBSET DOMAIN sources
    BY <1>5
  <2>2. PICK l \in placed : \A j \in placed \ {l} : ReadBefore(j, l)
    <3> HIDE DEF placed
    <3> QED BY <2>1, ReadLastIs
  <2>3. \A o \in orders : o <= sources[l].order
    <3> SUFFICES ASSUME NEW j \in placed PROVE sources[j].order <= sources[l].order
      BY <1>2
    <3>1. sources[j].order \in Nat /\ sources[l].order \in Nat
      BY RowsFinite
    <3>2. j # l => ReadBefore(j, l)
      BY <2>2
    <3> QED
      BY <3>1, <3>2, ReadBeforeOrders
  <2>4. \E x \in orders : \A y \in orders : x >= y
    BY <1>1, <1>2, <2>2, <2>3
  <2>5. Max(orders) \in orders /\ \A y \in orders : Max(orders) >= y
    <3> HIDE DEF orders
    <3> QED BY <2>4 DEF Max
  <2>6. NextOrder = Max(orders) + 1 /\ Max(orders) \in Nat
    BY <1>2, <1>3, <1>5, <2>5
  <2>7. ASSUME NEW i \in DOMAIN sources, sources[i].order # Plain
        PROVE  sources[i].order < NextOrder
    <3>1. sources[i].order \in orders /\ sources[i].order \in Nat
      BY <1>1, <1>2, <2>7
    <3> HIDE DEF orders
    <3> QED BY <2>5, <2>6, <3>1
  <2> QED
    BY <2>6, <2>7
<1> QED
  BY <1>4, <1>5

LEMMA ReadFirstIs ==
  ASSUME Sourced, NEW s \in SUBSET DOMAIN sources, s # {}
  PROVE  \E i \in s : \A j \in s \ {i} : ReadBefore(i, j)
<1> DEFINE orders == {sources[i].order : i \in s}
<1>1. \A i \in s : i \in Nat /\ sources[i].order \in Nat
  BY RowsFinite
<1>2. orders \in SUBSET Nat /\ orders # {}
  BY <1>1
<1>3. PICK o \in orders : \A n \in orders : o <= n
  <2> HIDE DEF orders
  <2> QED BY <1>2, LeastOf
<1> DEFINE firsts == {i \in s : sources[i].order = o}
<1>4. firsts \in SUBSET Nat /\ firsts # {}
  BY <1>1, <1>3
<1>5. PICK i \in firsts : \A j \in firsts : i <= j
  <2> HIDE DEF firsts
  <2> QED BY <1>4, LeastOf
<1>6. ASSUME NEW j \in s \ {i} PROVE ReadBefore(i, j)
  <2>1. o <= sources[j].order /\ sources[i].order = o
    BY <1>3, <1>5
  <2>2. sources[j].order = o => i <= j
    BY <1>5
  <2> QED
    BY <1>1, <1>5, <2>1, <2>2 DEF ReadBefore
<1> QED
  BY <1>5, <1>6

-----------------------------------------------------------------------------
(* One source after the other.                                              *)

LEMMA GreedyStep ==
  ASSUME Sourced, NEW s \in SUBSET DOMAIN sources, s # {},
         NEW P, GreedyOn(P, s \ {ReadLast(s)})
  PROVE  GreedyOn(IF Fits(ReadLast(s), P) THEN P \cup {ReadLast(s)} ELSE P, s)
<1> DEFINE l == ReadLast(s)
           Q == IF Fits(l, P) THEN P \cup {l} ELSE P
<1>1. l \in s /\ \A j \in s \ {l} : ReadBefore(j, l)
  BY ReadLastIs
<1>2. P \subseteq s \ {l} /\ \A i \in s \ {l} : i \in P <=> Fits(i, {j \in P : ReadBefore(j, i)})
  BY DEF GreedyOn
<1> HIDE DEF l
<1>3. ~ ReadBefore(l, l) /\ \A j \in s \ {l} : ~ ReadBefore(l, j)
  <2>1. l \in DOMAIN sources /\ ~ ReadBefore(l, l)
    BY <1>1, ReadBeforeOrders
  <2>2. ASSUME NEW j \in s \ {l} PROVE ~ ReadBefore(l, j)
    <3>1. j \in DOMAIN sources /\ j # l /\ ReadBefore(j, l)
      BY <1>1
    <3> QED
      BY <2>1, <3>1, ReadBeforeOrders
  <2> QED
    BY <2>1, <2>2
<1>4. ASSUME NEW i \in s \ {l}
      PROVE  i \in Q <=> Fits(i, {j \in Q : ReadBefore(j, i)})
  <2>1. {j \in Q : ReadBefore(j, i)} = {j \in P : ReadBefore(j, i)}
    BY <1>3
  <2>2. i \in Q <=> i \in P
    OBVIOUS
  <2> HIDE DEF Q
  <2> QED
    BY <1>2, <2>1, <2>2
<1>5. l \in Q <=> Fits(l, {j \in Q : ReadBefore(j, l)})
  <2>1. {j \in Q : ReadBefore(j, l)} = P
    BY <1>1, <1>2, <1>3
  <2>2. l \in Q <=> Fits(l, P)
    BY <1>2
  <2> HIDE DEF Q
  <2> QED
    BY <2>1, <2>2
<1>6. Q \subseteq s
  BY <1>1, <1>2
<1>7. GreedyOn(Q, s)
  <2> HIDE DEF Q
  <2> QED BY <1>4, <1>5, <1>6 DEF GreedyOn
<1> QED
  BY <1>7 DEF l

LEMMA GreedyIsOne ==
  ASSUME Sourced, NEW s \in SUBSET DOMAIN sources,
         NEW P, NEW Q, GreedyOn(P, s), GreedyOn(Q, s)
  PROVE  P = Q
<1> DEFINE D == {i \in s : ~ (i \in P <=> i \in Q)}
<1>1. /\ P \subseteq s /\ \A i \in s : i \in P <=> Fits(i, {j \in P : ReadBefore(j, i)})
      /\ Q \subseteq s /\ \A i \in s : i \in Q <=> Fits(i, {j \in Q : ReadBefore(j, i)})
  BY DEF GreedyOn
<1>2. ASSUME D # {} PROVE FALSE
  <2>1. D \in SUBSET DOMAIN sources
    OBVIOUS
  <2>2. PICK i \in D : \A j \in D \ {i} : ReadBefore(i, j)
    <3> HIDE DEF D
    <3> QED BY <1>2, <2>1, ReadFirstIs
  <2>3. ASSUME NEW j \in s, ReadBefore(j, i) PROVE j \in P <=> j \in Q
    <3>1. i \in DOMAIN sources /\ j \in DOMAIN sources /\ ~ ReadBefore(i, i)
      BY <2>2, ReadBeforeOrders
    <3>2. j # i /\ ~ ReadBefore(i, j)
      BY <2>3, <3>1, ReadBeforeOrders
    <3> QED
      BY <2>2, <2>3, <3>2
  <2>4. {j \in P : ReadBefore(j, i)} = {j \in Q : ReadBefore(j, i)}
    BY <1>1, <2>3
  <2>5. i \in s /\ ~ (i \in P <=> i \in Q)
    BY <2>2
  <2> HIDE DEF D
  <2> QED
    BY <1>1, <2>4, <2>5
<1> QED
  BY <1>1, <1>2

LEMMA GreedyExists ==
  ASSUME Sourced
  PROVE  \A s \in SUBSET DOMAIN sources : \E P : GreedyOn(P, s)
<1> DEFINE T == {s \in SUBSET DOMAIN sources : ~ \E P : GreedyOn(P, s)}
<1>1. IsFiniteSet(DOMAIN sources)
  BY RowsFinite
<1>2. T \in SUBSET (SUBSET DOMAIN sources)
  OBVIOUS
<1>3. ASSUME T # {} PROVE FALSE
  <2>1. PICK s \in T : \A x \in s : s \ {x} \notin T
    <3> HIDE DEF T
    <3> QED BY <1>1, <1>2, <1>3, SmallestSubset
  <2>2. s \in SUBSET DOMAIN sources /\ ~ \E P : GreedyOn(P, s)
    BY <2>1
  <2>3. s # {}
    <3>1. GreedyOn({}, {})
      BY DEF GreedyOn
    <3> QED BY <2>2, <3>1
  <2>4. ReadLast(s) \in s
    BY <2>2, <2>3, ReadLastIs
  <2>5. PICK P : GreedyOn(P, s \ {ReadLast(s)})
    <3>1. s \ {ReadLast(s)} \in SUBSET DOMAIN sources /\ s \ {ReadLast(s)} \notin T
      BY <2>1, <2>2, <2>4
    <3> QED BY <3>1
  <2> HIDE DEF T
  <2> QED
    BY <2>2, <2>3, <2>5, GreedyStep
<1> QED
  BY <1>3

\* What an execution is shown is what fits, one source after the other.
LEMMA ProjectionIs ==
  ASSUME Sourced
  PROVE  GreedyOn(Projection, DOMAIN sources)
<1> DEFINE D == DOMAIN sources
           Step(l, P) == IF Fits(l, P) THEN P \cup {l} ELSE P
           G(i) == [s \in SUBSET D |-> IF s = {} THEN {} ELSE Step(ReadLast(s), i[s \ {ReadLast(s)}])]
           it == CHOOSE i : i = G(i)
           k == [s \in SUBSET D |-> CHOOSE P : GreedyOn(P, s)]
<1>1. \A s \in SUBSET D : GreedyOn(k[s], s)
  BY GreedyExists
<1>2. k = G(k)
  <2>1. ASSUME NEW s \in SUBSET D
        PROVE  k[s] = IF s = {} THEN {} ELSE Step(ReadLast(s), k[s \ {ReadLast(s)}])
    <3> HIDE DEF k
    <3>1. GreedyOn(k[s], s)
      BY <1>1
    <3>2. CASE s = {}
      BY <3>1, <3>2 DEF GreedyOn
    <3>3. CASE s # {}
      <4>1. s \ {ReadLast(s)} \in SUBSET D
        OBVIOUS
      <4>2. GreedyOn(k[s \ {ReadLast(s)}], s \ {ReadLast(s)})
        BY <1>1, <4>1
      <4>3. GreedyOn(Step(ReadLast(s), k[s \ {ReadLast(s)}]), s)
        BY <3>3, <4>2, GreedyStep
      <4>4. k[s] = Step(ReadLast(s), k[s \ {ReadLast(s)}])
        <5> HIDE DEF Step
        <5> QED BY <3>1, <4>3, GreedyIsOne
      <4> QED
        BY <3>3, <4>4
    <3> QED
      BY <3>2, <3>3
  <2>2. k = [s \in SUBSET D |-> k[s]]
    OBVIOUS
  <2> HIDE DEF k, Step
  <2> QED
    BY <2>1, <2>2
<1>3. it = G(it)
  <2> HIDE DEF G, k
  <2> QED BY <1>2
<1>4. Projection = it[D]
  BY DEF Projection, MapThenFoldSet
<1> HIDE DEF it, k
<1>5. \A s \in SUBSET D : it[s] = IF s = {} THEN {} ELSE Step(ReadLast(s), it[s \ {ReadLast(s)}])
  <2> HIDE DEF Step
  <2> QED BY <1>3
<1> HIDE DEF G
<1> DEFINE T == {s \in SUBSET D : ~ GreedyOn(it[s], s)}
<1>6. ASSUME T # {} PROVE FALSE
  <2>1. IsFiniteSet(D) /\ T \in SUBSET (SUBSET D)
    BY RowsFinite
  <2>2. PICK s \in T : \A x \in s : s \ {x} \notin T
    <3> HIDE DEF T
    <3> QED BY <1>6, <2>1, SmallestSubset
  <2>3. s \in SUBSET D /\ ~ GreedyOn(it[s], s)
    BY <2>2
  <2>4. s # {}
    <3> SUFFICES ASSUME s = {} PROVE FALSE
      OBVIOUS
    <3>1. it[s] = {}
      BY <1>5, <2>3
    <3> QED
      BY <2>3, <3>1 DEF GreedyOn
  <2>5. ReadLast(s) \in s
    BY <2>3, <2>4, ReadLastIs
  <2>6. GreedyOn(it[s \ {ReadLast(s)}], s \ {ReadLast(s)})
    <3>1. s \ {ReadLast(s)} \in SUBSET D /\ s \ {ReadLast(s)} \notin T
      BY <2>2, <2>3, <2>5
    <3> QED BY <3>1
  <2>7. it[s] = Step(ReadLast(s), it[s \ {ReadLast(s)}])
    <3> HIDE DEF Step
    <3> QED BY <1>5, <2>3, <2>4
  <2> HIDE DEF T
  <2> QED
    BY <2>3, <2>4, <2>6, <2>7, GreedyStep
<1>7. D \in SUBSET D
  OBVIOUS
<1> QED
  BY <1>4, <1>6, <1>7

-----------------------------------------------------------------------------
(* Sizes.                                                                   *)

\* Adding one source to those that have a table.
LEMMA TableGrows ==
  ASSUME NEW D, NEW e \in D, NEW f \in [D -> Nat], NEW h, IsTable(h, f, D \ {e})
  PROVE  \E k : IsTable(k, f, D)
<1> DEFINE C == D \ {e}
           k == [s \in SUBSET D |-> IF e \in s THEN f[e] + h[s \ {e}] ELSE h[s]]
<1>1. \A s \in SUBSET D : s \ {e} \in SUBSET C /\ (e \notin s => s \in SUBSET C)
  OBVIOUS
<1>2. h \in [SUBSET C -> Nat] /\ h[{}] = 0
  BY DEF IsTable
<1>3. f[e] \in Nat /\ \A s \in SUBSET C : h[s] \in Nat
  BY <1>2
<1>4. k \in [SUBSET D -> Nat]
  BY <1>1, <1>3
<1>5. k[{}] = 0
  BY <1>2
<1>6. ASSUME NEW s \in SUBSET D, NEW x \in s
      PROVE  k[s] = f[x] + k[s \ {x}]
  <2>1. s \ {x} \in SUBSET D /\ f[x] \in Nat
    OBVIOUS
  <2>2. CASE x = e
    BY <2>1, <2>2
  <2>3. CASE x # e /\ e \in s
    <3>1. s \ {e} \in SUBSET C /\ x \in s \ {e}
      BY <1>1, <2>3
    <3>2. h[s \ {e}] = f[x] + h[(s \ {e}) \ {x}]
      BY <3>1 DEF IsTable
    <3>3. (s \ {e}) \ {x} = (s \ {x}) \ {e} /\ e \in s \ {x}
      BY <2>3
    <3>4. k[s] = f[e] + h[s \ {e}] /\ k[s \ {x}] = f[e] + h[(s \ {x}) \ {e}]
      BY <2>1, <2>3, <3>3
    <3>5. h[(s \ {x}) \ {e}] \in Nat
      BY <1>1, <1>3, <2>1
    <3>6. h[(s \ {e}) \ {x}] = h[(s \ {x}) \ {e}]
      BY <3>3
    <3>7. k[s] = f[e] + (f[x] + h[(s \ {x}) \ {e}])
      BY <3>2, <3>4, <3>6
    <3> HIDE DEF k
    <3> QED
      BY <1>3, <2>1, <3>4, <3>5, <3>7
  <2>4. CASE e \notin s
    <3>1. k[s] = h[s] /\ k[s \ {x}] = h[s \ {x}] /\ s \in SUBSET C
      BY <1>1, <2>1, <2>4
    <3> QED
      BY <3>1 DEF IsTable
  <2> QED
    BY <2>2, <2>3, <2>4
<1> HIDE DEF k
<1> QED
  BY <1>4, <1>5, <1>6 DEF IsTable

LEMMA TableExists ==
  ASSUME NEW D, IsFiniteSet(D), NEW f \in [D -> Nat]
  PROVE  \E h : IsTable(h, f, D)
<1> DEFINE T == {s \in SUBSET D : ~ \E h : IsTable(h, f, s)}
<1>1. T \in SUBSET (SUBSET D)
  OBVIOUS
<1>2. ASSUME T # {} PROVE FALSE
  <2>1. PICK s \in T : \A x \in s : s \ {x} \notin T
    <3> HIDE DEF T
    <3> QED BY <1>1, <1>2, SmallestSubset
  <2>2. s \in SUBSET D /\ ~ \E h : IsTable(h, f, s)
    BY <2>1
  <2>3. s # {}
    <3> SUFFICES ASSUME s = {} PROVE FALSE
      OBVIOUS
    <3> DEFINE k == [u \in SUBSET {} |-> 0]
    <3>1. k \in [SUBSET {} -> Nat] /\ k[{}] = 0
      OBVIOUS
    <3>2. IsTable(k, f, {})
      BY <3>1 DEF IsTable
    <3> QED
      BY <2>2, <3>2
  <2>4. PICK x \in s : TRUE
    BY <2>3
  <2>5. PICK h : IsTable(h, f, s \ {x})
    <3>1. s \ {x} \in SUBSET D /\ s \ {x} \notin T
      BY <2>1, <2>2
    <3> QED BY <3>1
  <2> DEFINE g == [y \in s |-> f[y]]
  <2>6. g \in [s -> Nat]
    BY <2>2
  <2>7. IsTable(h, g, s \ {x})
    BY <2>5 DEF IsTable
  <2>8. PICK k : IsTable(k, g, s)
    <3> HIDE DEF g
    <3> QED BY <2>6, <2>7, TableGrows
  <2>9. IsTable(k, f, s)
    BY <2>8 DEF IsTable
  <2> QED
    BY <2>2, <2>9
<1>3. D \in SUBSET D
  OBVIOUS
<1> QED
  BY <1>2, <1>3

LEMMA SizesAreNat ==
  ASSUME Sourced
  PROVE  [i \in DOMAIN sources |-> SizeOf(i)] \in [DOMAIN sources -> Nat]
<1> SUFFICES ASSUME NEW i \in DOMAIN sources PROVE SizeOf(i) \in Nat
  OBVIOUS
<1>1. Contents(sources[i].rel) \subseteq Paths
  BY DEF Contents
<1>2. IsFiniteSet(Paths)
  BY CanonicalAssumption
<1> QED
  BY <1>1, <1>2, FS_Subset, FS_CardinalityType DEF SizeOf

\* What the library's operator computes is in the table.
LEMMA SizeInTable ==
  ASSUME Sourced, NEW h, IsTable(h, [i \in DOMAIN sources |-> SizeOf(i)], DOMAIN sources),
         NEW S \in SUBSET DOMAIN sources
  PROVE  Size(S) = h[S]
<1> DEFINE Some(s) == CHOOSE x \in s : TRUE
           G(i) == [s \in SUBSET S |->
                      IF s = {} THEN 0
                      ELSE Cardinality(Contents(sources[Some(s)].rel)) + i[s \ {Some(s)}]]
           it == CHOOSE i : i = G(i)
           k == [s \in SUBSET S |-> h[s]]
<1>1. \A s : s # {} => Some(s) \in s
  OBVIOUS
<1>2. /\ h \in [SUBSET DOMAIN sources -> Nat] /\ h[{}] = 0
      /\ \A s \in SUBSET DOMAIN sources : \A x \in s :
           h[s] = Cardinality(Contents(sources[x].rel)) + h[s \ {x}]
  BY DEF IsTable, SizeOf
<1>3. k = G(k)
  <2> HIDE DEF Some
  <2>1. ASSUME NEW s \in SUBSET S
        PROVE  k[s] = IF s = {} THEN 0
                      ELSE Cardinality(Contents(sources[Some(s)].rel)) + k[s \ {Some(s)}]
    <3>1. s \in SUBSET DOMAIN sources /\ s \ {Some(s)} \in SUBSET S
      OBVIOUS
    <3> QED
      BY <1>1, <1>2, <3>1
  <2>2. k = [s \in SUBSET S |-> k[s]]
    OBVIOUS
  <2> HIDE DEF k
  <2> QED
    BY <2>1, <2>2
<1>4. it = G(it)
  <2> HIDE DEF G, k
  <2> QED BY <1>3
<1>5. Size(S) = it[S]
  BY DEF Size, MapThenSumSet, MapThenFoldSet
<1> HIDE DEF it
<1>6. \A s \in SUBSET S :
        it[s] = IF s = {} THEN 0
                ELSE Cardinality(Contents(sources[Some(s)].rel)) + it[s \ {Some(s)}]
  <2> HIDE DEF Some
  <2> QED BY <1>4
<1> HIDE DEF G, Some, k
<1> DEFINE T == {s \in SUBSET S : it[s] # h[s]}
<1>7. ASSUME T # {} PROVE FALSE
  <2>1. IsFiniteSet(S) /\ T \in SUBSET (SUBSET S)
    BY RowsFinite, FS_Subset
  <2>2. PICK s \in T : \A x \in s : s \ {x} \notin T
    <3> HIDE DEF T
    <3> QED BY <1>7, <2>1, SmallestSubset
  <2>3. s \in SUBSET S /\ s \in SUBSET DOMAIN sources /\ it[s] # h[s]
    BY <2>2
  <2>4. s # {}
    <3> SUFFICES ASSUME s = {} PROVE FALSE
      OBVIOUS
    <3> QED
      BY <1>2, <1>6, <2>3
  <2>5. Some(s) \in s
    BY <1>1, <2>4
  <2> DEFINE u == s \ {Some(s)}
  <2>6. it[u] = h[u]
    <3>1. u \in SUBSET S /\ u \notin T
      BY <2>2, <2>3, <2>5
    <3> QED BY <3>1
  <2>7. it[s] = Cardinality(Contents(sources[Some(s)].rel)) + it[u]
    BY <1>6, <2>3, <2>4
  <2>8. h[s] = Cardinality(Contents(sources[Some(s)].rel)) + h[u]
    BY <1>2, <2>3, <2>5
  <2> HIDE DEF u, T
  <2> QED
    BY <2>3, <2>6, <2>7, <2>8
<1>8. S \in SUBSET S
  OBVIOUS
<1> QED
  BY <1>5, <1>7, <1>8

LEMMA SourcedShows ==
  ASSUME Sourced
  PROVE  Shown
<1>1. PICK h : IsTable(h, [i \in DOMAIN sources |-> SizeOf(i)], DOMAIN sources)
  BY SizesAreNat, RowsFinite, TableExists
<1> QED
  BY <1>1, SizeInTable, ProjectionIs DEF Shown

\* Of two tables that add up the same, one for more sources than the other.
LEMMA TablesAgree ==
  ASSUME NEW D, IsFiniteSet(D), NEW E, D \subseteq E, NEW f, NEW g, \A x \in D : f[x] = g[x],
         NEW h, IsTable(h, f, D), NEW k, IsTable(k, g, E)
  PROVE  \A s \in SUBSET D : h[s] = k[s]
<1> DEFINE T == {s \in SUBSET D : h[s] # k[s]}
<1>1. /\ h[{}] = 0 /\ \A s \in SUBSET D : \A x \in s : h[s] = f[x] + h[s \ {x}]
      /\ k[{}] = 0 /\ \A s \in SUBSET E : \A x \in s : k[s] = g[x] + k[s \ {x}]
  BY DEF IsTable
<1>2. T \in SUBSET (SUBSET D)
  OBVIOUS
<1>3. ASSUME T # {} PROVE FALSE
  <2>1. PICK s \in T : \A x \in s : s \ {x} \notin T
    <3> HIDE DEF T
    <3> QED BY <1>2, <1>3, SmallestSubset
  <2>2. s \in SUBSET D /\ s \in SUBSET E /\ h[s] # k[s]
    BY <2>1
  <2>3. s # {}
    BY <1>1, <2>2
  <2>4. PICK x \in s : TRUE
    BY <2>3
  <2>5. h[s \ {x}] = k[s \ {x}]
    <3>1. s \ {x} \in SUBSET D /\ s \ {x} \notin T
      BY <2>1, <2>2
    <3> QED BY <3>1
  <2>6. f[x] = g[x] /\ h[s] = f[x] + h[s \ {x}] /\ k[s] = g[x] + k[s \ {x}]
    BY <1>1, <2>2
  <2> QED
    BY <2>2, <2>5, <2>6
<1> QED
  BY <1>3

-----------------------------------------------------------------------------
(* The rows stay rows.                                                      *)

LEMMA PlainIsNat == Plain \in Nat /\ Len(Manifest) \in Nat /\ DOMAIN Manifest = 1..Len(Manifest)
<1>1. Manifest \in Seq(Paths) /\ Cardinality(Paths) \in Nat
  BY CanonicalAssumption, FS_CardinalityType
<1>2. Len(Manifest) \in Nat /\ DOMAIN Manifest = 1..Len(Manifest)
  BY <1>1, LenProperties
<1> QED
  BY <1>1, <1>2 DEF Plain

LEMMA ImportRows ==
  ASSUME Sourced, Import
  PROVE  sources' \in Seq([rel : Paths \cup {Folder}, order : Nat])
<1> DEFINE S == [rel : Paths \cup {Folder}, order : Nat]
           declared(rel) == \E i \in DOMAIN sources : sources[i].rel = rel
           placed == [i \in DOMAIN sources |->
                        IF sources[i].rel \in ToSet(Manifest)
                        THEN [sources[i] EXCEPT !.order = CHOOSE k \in DOMAIN Manifest : Manifest[k] = sources[i].rel]
                        ELSE sources[i]]
           missing == {k \in DOMAIN Manifest : ~declared(Manifest[k])}
           added(ks) == [n \in DOMAIN ks |-> [rel |-> Manifest[ks[n]], order |-> ks[n]]]
<1>1. PICK ks \in InOrder(missing) : sources' = placed \o added(ks)
  BY DEF Import
<1>2. \A k \in DOMAIN Manifest : k \in Nat /\ Manifest[k] \in Paths
  <2>1. Manifest \in Seq(Paths) /\ DOMAIN Manifest = 1..Len(Manifest)
    BY CanonicalAssumption, PlainIsNat
  <2>2. \A k \in DOMAIN Manifest : Manifest[k] \in Paths
    BY <2>1, ElementOfSeq
  <2> QED
    BY <2>1, <2>2
<1>3. placed \in Seq(S)
  <2>1. ASSUME NEW i \in DOMAIN sources PROVE placed[i] \in S
    <3>1. sources[i] \in S
      BY RowsFinite
    <3>2. ASSUME sources[i].rel \in ToSet(Manifest)
          PROVE  (CHOOSE k \in DOMAIN Manifest : Manifest[k] = sources[i].rel) \in Nat
      <4>1. \E k \in DOMAIN Manifest : Manifest[k] = sources[i].rel
        BY <3>2 DEF ToSet
      <4> QED
        BY <1>2, <4>1
    <3> QED
      BY <3>1, <3>2
  <2>2. DOMAIN placed = 1..Len(sources) /\ Len(sources) \in Nat
    BY RowsFinite
  <2>3. placed \in [1..Len(sources) -> S]
    <3>1. placed = [i \in DOMAIN sources |-> placed[i]]
      OBVIOUS
    <3>2. DOMAIN sources = 1..Len(sources)
      BY RowsFinite
    <3> HIDE DEF placed, S
    <3> QED
      BY <2>1, <3>1, <3>2
  <2> HIDE DEF placed, S
  <2> QED
    BY <2>2, <2>3
<1>4. added(ks) \in Seq(S)
  <2>1. missing \in SUBSET DOMAIN Manifest
    OBVIOUS
  <2>2. Cardinality(missing) \in Nat
    <3>1. 1 \in Int /\ Len(Manifest) \in Int
      BY PlainIsNat
    <3>2. IsFiniteSet(DOMAIN Manifest)
      BY <3>1, PlainIsNat, FS_Interval
    <3> HIDE DEF missing
    <3> QED
      BY <2>1, <3>2, FS_Subset, FS_CardinalityType
  <2>3. ks \in [1..Cardinality(missing) -> missing]
    BY <1>1 DEF InOrder
  <2> HIDE DEF missing
  <2>4. \A n \in 1..Cardinality(missing) : ks[n] \in Nat /\ Manifest[ks[n]] \in Paths
    BY <1>2, <2>1, <2>3
  <2>5. added(ks) \in [1..Cardinality(missing) -> S]
    BY <2>3, <2>4
  <2> HIDE DEF added, S
  <2> QED
    BY <2>2, <2>5
<1> HIDE DEF placed, added, S
<1>5. placed \o added(ks) \in Seq(S)
  BY <1>3, <1>4, ConcatProperties
<1> QED
  BY <1>1, <1>5 DEF S

\* What an approval declares.
LEMMA PromotedRow ==
  ASSUME Inv, Sourced, NEW d \in Deciders, req[d].pc \in Working
  PROVE  [rel |-> path[Row(d)], order |-> NextOrder] \in [rel : Paths \cup {Folder}, order : Nat]
<1>1. Types /\ Requesting
  BY DEF Inv
<1>2. /\ req[d].todo \in Seq(Proposals) /\ 1 \in 1..Len(req[d].todo)
      /\ Row(d) = req[d].todo[1]
  BY <1>1, RowIsFirst
<1>3. Row(d) \in Proposals
  BY <1>2, ElementOfSeq
<1>4. path[Row(d)] \in Paths
  BY <1>1, <1>3 DEF Types
<1> QED
  BY <1>4, NextOrderIs

LEMMA SourcedNext == Inv /\ Sourced /\ [Next]_vars => Sourced'
<1> SUFFICES ASSUME Inv, Sourced, [Next]_vars PROVE Sourced'
  OBVIOUS
<1> DEFINE S == [rel : Paths \cup {Folder}, order : Nat]
<1>1. sources \in Seq(S) /\ wanted \in Paths \cup {Folder, Nobody}
  BY DEF Sourced
<1>2. ASSUME UNCHANGED <<sources, wanted>> PROVE Sourced'
  BY <1>2 DEF Sourced
<1>3. CASE \E p \in Proposals, k \in Kinds, x \in Paths : Propose(p, k, x)
  BY <1>2, <1>3 DEF Propose, requests
<1>4. CASE \E x \in Paths : Edit(x)
  BY <1>2, <1>4 DEF Edit, rows, requests
<1>5. CASE \E p \in Proposals, how \in {"altered", "missing"} : Tamper(p, how)
  BY <1>2, <1>5 DEF Tamper, rows, requests
<1>6. CASE \E rel \in Paths \cup {Folder} : DeclareLooks(rel)
  <2>1. sources' = sources /\ wanted' \in Paths \cup {Folder}
    BY <1>6 DEF DeclareLooks, rows
  <2> QED
    BY <1>1, <2>1 DEF Sourced
<1>7. CASE DeclareInserts
  <2>1. /\ sources' = Append(sources, [rel |-> wanted, order |-> Plain])
        /\ wanted # Nobody /\ wanted' = Nobody
    BY <1>7 DEF DeclareInserts
  <2>2. [rel |-> wanted, order |-> Plain] \in S
    BY <1>1, <2>1, PlainIsNat
  <2>3. sources' \in Seq(S)
    <3> HIDE DEF S
    <3> QED BY <1>1, <2>1, <2>2, AppendProperties
  <2> QED
    BY <2>1, <2>3 DEF Sourced
<1>8. CASE Import
  <2>1. wanted' = wanted
    BY <1>8 DEF Import, requests
  <2> QED
    BY <1>1, <1>8, <2>1, ImportRows DEF Sourced
<1>9. ASSUME NEW d \in Deciders, NEW ps, NEW b, NEW approve, NEW source, Picks(d, ps, b, approve, source)
      PROVE  Sourced'
  BY <1>2, <1>9 DEF Picks, rows
<1>10. ASSUME NEW d \in Deciders, Finish(d) PROVE Sourced'
  <2>1. /\ req[d].pc = "close" /\ req[d].pc \in Working /\ wanted' = wanted
        /\ \/ sources' = sources
           \/ sources' = Append(sources, [rel |-> path[Row(d)], order |-> NextOrder])
    BY <1>10 DEF Finish, Working
  <2>3. [rel |-> path[Row(d)], order |-> NextOrder] \in S
    BY <2>1, PromotedRow
  <2>4. sources' \in Seq(S)
    <3> HIDE DEF S
    <3> QED BY <1>1, <2>1, <2>3, AppendProperties
  <2> QED
    BY <1>1, <2>1, <2>4 DEF Sourced
<1>11. ASSUME NEW d \in Deciders, Proceeds(d), ~Finish(d) PROVE Sourced'
  BY <1>2, <1>11 DEF Proceeds, Check, Goto, Stamp, TimesOut, Write, WriteFails, Fails, Audit, rows
<1>12. CASE Crash
  BY <1>1, <1>12 DEF Crash, Sourced
<1>13. CASE UNCHANGED vars
  BY <1>2, <1>13 DEF vars, rows, requests
<1> QED
  BY <1>3, <1>4, <1>5, <1>6, <1>7, <1>8, <1>9, <1>10, <1>11, <1>12, <1>13 DEF Next, Decide, DecideBatch

LEMMA SourcedInit == Init => Sourced
<1> SUFFICES ASSUME Init PROVE Sourced
  OBVIOUS
<1>1. sources = <<>> /\ wanted = Nobody
  BY DEF Init
<1> QED
  BY <1>1 DEF Sourced

-----------------------------------------------------------------------------
(* Promotion.                                                               *)

\* The new source is read after every source that has an order, so what was shown of
\* these is shown still: the first that was not would be one that fits no more, after
\* the same sources as before.
LEMMA PromotionKeeps ==
  ASSUME Inv, Sourced, Shown, Shown', NEW d \in Deciders, Finish(d), sources' # sources
  PROVE  \A i \in Projection : sources[i].order # Plain => i \in Projection'
<1> DEFINE D == DOMAIN sources
<1>1. PICK n, P, Q : n = Len(sources) + 1 /\ P = Projection /\ Q = Projection'
  OBVIOUS
<1>2. /\ Len(sources) \in Nat /\ D = 1..Len(sources) /\ IsFiniteSet(D)
      /\ \A i \in D : i \in Nat /\ sources[i].order \in Nat
  BY RowsFinite
<1>3. /\ DOMAIN sources' = D \cup {n} /\ n \notin D
      /\ \A i \in D : sources'[i] = sources[i]
      /\ sources'[n].order = NextOrder
      /\ root' = root
  <2> DEFINE S == [rel : Paths \cup {Folder}, order : Nat]
             r == [rel |-> path[Row(d)], order |-> NextOrder]
  <2>1. sources \in Seq(S) /\ sources' = Append(sources, r) /\ root' = root
    BY DEF Sourced, Finish, files
  <2>2. r \in S /\ r.order = NextOrder
    <3>1. req[d].pc \in Working
      BY DEF Finish, Working
    <3> QED BY <3>1, PromotedRow
  <2> HIDE DEF S, r
  <2>3. /\ Len(sources') = Len(sources) + 1 /\ DOMAIN sources' = 1..Len(sources')
        /\ \A i \in 1..Len(sources) : sources'[i] = sources[i]
        /\ sources'[Len(sources) + 1] = r
    BY <2>1, <2>2, AppendProperties, LenProperties
  <2>4. DOMAIN sources' = 1..n /\ sources'[n].order = NextOrder
    BY <1>1, <2>2, <2>3
  <2>5. 1..n = (1..Len(sources)) \cup {n} /\ n \notin 1..Len(sources)
    BY <1>1, <1>2
  <2>6. \A i \in D : sources'[i] = sources[i]
    BY <1>2, <2>3
  <2> QED
    BY <1>2, <2>1, <2>4, <2>5, <2>6
<1>4. \A i \in D : SizeOf(i)' = SizeOf(i) /\ Contents(sources[i].rel)' = Contents(sources[i].rel)
  BY <1>3 DEF SizeOf, Contents
<1>5. \A s \in SUBSET D : Size(s)' = Size(s)
  <2> DEFINE f == [i \in D |-> SizeOf(i)]
             g == [i \in DOMAIN sources' |-> SizeOf(i)']
  <2>1. PICK h : IsTable(h, f, D) /\ \A s \in SUBSET D : Size(s) = h[s]
    BY DEF Shown
  <2>2. PICK k : IsTable(k, g, DOMAIN sources') /\ \A s \in SUBSET DOMAIN sources' : Size(s)' = k[s]
    BY DEF Shown
  <2>3. D \subseteq DOMAIN sources' /\ \A x \in D : f[x] = g[x]
    BY <1>3, <1>4
  <2>4. \A s \in SUBSET D : h[s] = k[s]
    <3>1. PICK C, E, a, b : C = D /\ E = DOMAIN sources' /\ a = f /\ b = g
      OBVIOUS
    <3>2. IsFiniteSet(C) /\ C \subseteq E
      BY <1>2, <2>3, <3>1
    <3> HIDE DEF f, g
    <3>3. IsTable(h, a, C) /\ IsTable(k, b, E)
      BY <2>1, <2>2, <3>1
    <3>4. \A x \in C : a[x] = b[x]
      BY <2>3, <3>1
    <3>5. \A s \in SUBSET C : h[s] = k[s]
      BY <3>2, <3>3, <3>4, TablesAgree
    <3> QED
      BY <3>1, <3>5
  <2> QED
    BY <2>1, <2>2, <2>3, <2>4
<1>6. \A i \in D, s \in SUBSET D : Fits(i, s)' <=> Fits(i, s)
  <2> SUFFICES ASSUME NEW i \in D, NEW s \in SUBSET D PROVE Fits(i, s)' <=> Fits(i, s)
    OBVIOUS
  <2>1. s \cup {i} \in SUBSET D
    OBVIOUS
  <2>2. Size(s \cup {i})' = Size(s \cup {i})
    BY <1>5, <2>1
  <2>3. Contents(sources[i].rel)' = Contents(sources[i].rel)
    BY <1>4
  <2> QED
    BY <2>2, <2>3 DEF Fits
<1>7. \A i, j \in D : ReadBefore(i, j)' <=> ReadBefore(i, j)
  BY <1>3 DEF ReadBefore
<1>8. \A i \in D : sources[i].order < NextOrder => ~ ReadBefore(n, i)'
  <2>1. NextOrder \in Nat
    BY NextOrderIs
  <2> QED
    BY <1>2, <1>3, <2>1 DEF ReadBefore
<1>9. /\ P \subseteq D /\ \A i \in D : i \in P <=> Fits(i, {j \in P : ReadBefore(j, i)})
      /\ Q \subseteq D \cup {n}
      /\ \A i \in D : \A s : s = {j \in Q : ReadBefore(j, i)'} => (i \in Q <=> Fits(i, s)')
  BY <1>1, <1>3 DEF Shown, GreedyOn
<1> DEFINE W == {i \in D : sources[i].order < NextOrder /\ ~ (i \in P <=> i \in Q)}
<1>10. ASSUME W # {} PROVE FALSE
  <2>1. W \in SUBSET D
    OBVIOUS
  <2>2. PICK i \in W : \A j \in W \ {i} : ReadBefore(i, j)
    <3> HIDE DEF W
    <3> QED BY <1>10, <2>1, ReadFirstIs
  <2>3. i \in D /\ sources[i].order < NextOrder /\ ~ (i \in P <=> i \in Q)
    BY <2>2
  <2>4. ASSUME NEW j \in D, ReadBefore(j, i) PROVE j \in P <=> j \in Q
    <3>1. ~ ReadBefore(i, i) /\ sources[j].order <= sources[i].order
      BY <2>3, <2>4, ReadBeforeOrders
    <3>2. j # i /\ ~ ReadBefore(i, j)
      BY <2>3, <2>4, <3>1, ReadBeforeOrders
    <3>3. sources[j].order < NextOrder
      BY <1>2, <2>3, <3>1, NextOrderIs
    <3> QED
      BY <2>2, <3>2, <3>3
  <2>5. PICK A : A = {j \in P : ReadBefore(j, i)}
    OBVIOUS
  <2>6. A \in SUBSET D
    BY <1>9, <2>5
  <2> HIDE DEF W
  <2>7. A = {j \in Q : ReadBefore(j, i)'}
    <3>1. ASSUME NEW j \in P, ReadBefore(j, i) PROVE j \in Q /\ ReadBefore(j, i)'
      BY <1>7, <1>9, <2>3, <2>4, <3>1
    <3>2. ASSUME NEW j \in Q, ReadBefore(j, i)' PROVE j \in P /\ ReadBefore(j, i)
      <4>1. j # n
        BY <1>8, <2>3, <3>2
      <4>2. j \in D
        BY <1>9, <4>1
      <4> QED
        BY <1>7, <2>3, <2>4, <3>2, <4>2
    <3> QED
      BY <2>5, <3>1, <3>2
  <2>8. i \in Q <=> Fits(i, A)'
    BY <1>9, <2>3, <2>7
  <2>9. i \in P <=> Fits(i, A)
    BY <1>9, <2>3, <2>5
  <2> QED
    BY <1>6, <2>3, <2>6, <2>8, <2>9
<1>11. ASSUME NEW i \in P, sources[i].order # Plain PROVE i \in Q
  <2>1. i \in D /\ sources[i].order < NextOrder
    BY <1>9, <1>11, NextOrderIs
  <2> QED
    BY <1>10, <2>1
<1> QED
  BY <1>1, <1>11

\* An approval declares what no source covers, and every source that has a place in the
\* order of reading is shown as before.
THEOREM PromotionsDisplaceNothing == Spec => PromotionDisplacesNothing
<1> DEFINE Keeps ==
      \A d \in Deciders :
        Finish(d) /\ sources' # sources =>
          /\ ~Covered(path[Row(d)])
          /\ \A i \in Projection : sources[i].order # Plain => i \in Projection'
<1>1. Inv /\ Sourced /\ Shown /\ Shown' => Keeps
  <2> SUFFICES ASSUME Inv, Sourced, Shown, Shown', NEW d \in Deciders, Finish(d), sources' # sources
               PROVE  ~Covered(path[Row(d)])
    BY PromotionKeeps
  <2> QED
    BY DEF Finish, NotCovered
<1>2. Sourced => Shown
  BY SourcedShows
<1>3. PromotionDisplacesNothing <=> [][Keeps]_vars
  BY DEF PromotionDisplacesNothing
<1> HIDE DEF Keeps
<1> QED
  BY <1>1, <1>2, <1>3, Always, SourcedInit, SourcedNext, PTL DEF Spec
=============================================================================
