-------------------------- MODULE RunServicesProofs --------------------------
(***************************************************************************)
(* The three services a run relies on, each for every value of its         *)
(* constants: the sweep of deferred runs (module Deferral), the router and *)
(* the quota tracker (Routing), and the files of a task (TaskFiles).  None *)
(* of the three refers to another; they share the lemmas on lists.         *)
(*                                                                         *)
(* Deferral.  The argument counts promises of a new row: a request that    *)
(* was accepted and has not enqueued yet, and a deferred run the sweep     *)
(* will take up.  A promise is made by a deferral, a request or a fault,   *)
(* and redeemed by a row.                                                  *)
(*                                                                         *)
(* Lists.  Only is a fold, and a fold is a function chosen to satisfy its  *)
(* recursion: that there is one is shown by building it on the positions   *)
(* up to n, for n from 0 to the length.  What Only keeps, and in which     *)
(* order, follows position by position.                                    *)
(*                                                                         *)
(* Routing.  What a run may use is decided in one session and used in      *)
(* later ones, while providers go and come and other runs turn the         *)
(* rotation: a plan, once made, stays inside the fences it was made for.   *)
(*                                                                         *)
(* TaskFiles.  Each file and each row is accounted for at every await of   *)
(* every tail: what a tail has of its own, what a retention pass has       *)
(* unlinked and will drop with its commit, what a request is deleting, and *)
(* what was lost with a commit that never came.                            *)
(***************************************************************************)
EXTENDS Deferral, Routing, TaskFiles, SequenceTheorems, FiniteSetTheorems, NaturalsInduction,
        WellFoundedInduction, TLAPS

-----------------------------------------------------------------------------
\* Deferral: what the sweep and the requests promise.

\* Requests that were accepted and have not enqueued yet.
Pending == {o \in Ops : opPc[o] # "idle"}

\* Runs for which the sweep will still enqueue, whatever it finds afterwards.
Owed == {r \in Runs : (status[r] = "deferred" \/ r \in batch) /\ r # sweeping}

\* What the sweep and the requests hold on to, and where the table ends.
ShapeOK ==
  /\ \A r \in batch : status[r] \in {"deferred", "cancelled"}
  /\ sweeping # 0 => sweeping \in batch
  /\ \A o \in Pending : /\ opRun[o] \in Runs
                        /\ opPc[o] = "cancel" => status[opRun[o]] \in {"deferred", "cancelled"}
  /\ \A r \in Runs : r > rows => replaces[r] = 0
  /\ \A r \in Runs : requeued[r] <= requests

\* Every row, and every promise of one, has been paid for.
Paid == fresh + deferrals + requests + faults
RoomOK == rows + Cardinality(Pending) + Cardinality(Owed) <= Paid

RowsInv == TypeOK /\ ShapeOK /\ RoomOK

-----------------------------------------------------------------------------
\* Counting.

LEMMA OneMore ==
  ASSUME NEW S, NEW T, NEW x, IsFiniteSet(S), T \subseteq S \cup {x}
  PROVE  IsFiniteSet(T) /\ Cardinality(T) \in Nat /\ Cardinality(T) <= Cardinality(S) + 1
<1>1. /\ IsFiniteSet(S \cup {x})
      /\ Cardinality(S \cup {x}) = IF x \in S THEN Cardinality(S) ELSE Cardinality(S) + 1
  BY FS_AddElement
<1>2. IsFiniteSet(T) /\ Cardinality(T) <= Cardinality(S \cup {x})
  BY <1>1, FS_Subset
<1>3. Cardinality(S) \in Nat /\ Cardinality(T) \in Nat
  BY <1>2, FS_CardinalityType
<1> QED
  BY <1>1, <1>2, <1>3

LEMMA OneLess ==
  ASSUME NEW S, NEW T, NEW x \in S, IsFiniteSet(S), T \subseteq S \ {x}
  PROVE  IsFiniteSet(T) /\ Cardinality(T) \in Nat /\ Cardinality(T) + 1 <= Cardinality(S)
<1>1. IsFiniteSet(S \ {x}) /\ Cardinality(S \ {x}) = Cardinality(S) - 1
  BY FS_RemoveElement
<1>2. IsFiniteSet(T) /\ Cardinality(T) <= Cardinality(S \ {x})
  BY <1>1, FS_Subset
<1>3. Cardinality(S) \in Nat /\ Cardinality(T) \in Nat
  BY <1>2, FS_CardinalityType
<1> QED
  BY <1>1, <1>2, <1>3

LEMMA NoMore ==
  ASSUME NEW S, NEW T, IsFiniteSet(S), T \subseteq S
  PROVE  IsFiniteSet(T) /\ Cardinality(T) \in Nat /\ Cardinality(T) <= Cardinality(S)
<1>1. IsFiniteSet(T) /\ Cardinality(T) <= Cardinality(S)
  BY FS_Subset
<1> QED
  BY <1>1, FS_CardinalityType

LEMMA Bounds ==
  /\ MaxFresh + MaxDeferrals + MaxRequeues + MaxFaults \in Nat
  /\ IsFiniteSet(Runs) /\ IsFiniteSet(Ops)
<1>1. MaxFresh + MaxDeferrals + MaxRequeues + MaxFaults \in Nat
  BY ConstantsAssumption
<1>2. IsFiniteSet(Runs)
  BY <1>1, FS_Interval DEF Runs
<1> QED
  BY <1>1, <1>2, ConstantsAssumption

\* The two kinds of promise are finite in number, and the counters are numbers.
LEMMA Countable ==
  ASSUME TypeOK
  PROVE  /\ IsFiniteSet(Pending) /\ Cardinality(Pending) \in Nat
         /\ IsFiniteSet(Owed) /\ Cardinality(Owed) \in Nat
         /\ rows \in Nat /\ fresh \in Nat /\ deferrals \in Nat /\ requests \in Nat
         /\ faults \in Nat
<1>1. Pending \subseteq Ops /\ Owed \subseteq Runs
  BY DEF Pending, Owed
<1>2. rows \in Nat /\ fresh \in Nat /\ deferrals \in Nat /\ requests \in Nat /\ faults \in Nat
  BY ConstantsAssumption, Bounds DEF TypeOK, RunIds
<1> QED
  BY <1>1, <1>2, Bounds, NoMore

\* A sum in which somebody still has a promise leaves a row free.
LEMMA Spare ==
  ASSUME NEW r \in Nat, NEW p \in Nat, NEW o \in Nat,
         NEW f \in 0..MaxFresh, NEW d \in 0..MaxDeferrals, NEW q \in 0..MaxRequeues,
         NEW x \in 0..MaxFaults,
         r + p + o <= f + d + q + x, p > 0 \/ o > 0 \/ f < MaxFresh
  PROVE  r + 1 \in Runs
  BY ConstantsAssumption DEF Runs

\* No enqueue is cut off by the end of the table.
LEMMA HasRoom ==
  ASSUME RowsInv, fresh < MaxFresh \/ Pending # {} \/ Owed # {}
  PROVE  rows + 1 \in Runs
<1>1. Pending # {} => Cardinality(Pending) > 0
  BY Countable, FS_EmptySet DEF RowsInv
<1>2. Owed # {} => Cardinality(Owed) > 0
  BY Countable, FS_EmptySet DEF RowsInv
<1>3. /\ fresh \in 0..MaxFresh /\ deferrals \in 0..MaxDeferrals
      /\ requests \in 0..MaxRequeues /\ faults \in 0..MaxFaults
      /\ rows + Cardinality(Pending) + Cardinality(Owed) <= fresh + deferrals + requests + faults
  BY DEF RowsInv, TypeOK, RoomOK, Paid
<1>4. rows \in Nat /\ Cardinality(Pending) \in Nat /\ Cardinality(Owed) \in Nat
  BY Countable DEF RowsInv
<1> HIDE DEF Pending, Owed
<1> QED
  BY <1>1, <1>2, <1>3, <1>4, Spare
-----------------------------------------------------------------------------
\* Types and shape.

\* One more row at the end of the table, in place of old.
LEMMA EnqueueShape ==
  ASSUME TypeOK, ShapeOK, rows + 1 \in Runs, NEW old \in RunIds, Enqueue(old)
  PROVE  /\ status' \in [Runs -> {"absent", "live", "deferred", "cancelled", "over"}]
         /\ wake' \in [Runs -> {"none", "later", "due"}]
         /\ rows' \in RunIds /\ replaces' \in [Runs -> RunIds]
         /\ \A r \in Runs : r <= rows' <=> status'[r] # "absent"
         /\ \A r \in Runs : r > rows' => replaces'[r] = 0
         /\ \A r \in Runs : status[r] \in {"deferred", "cancelled"} => status'[r] = status[r]
         /\ \A r \in Runs : status'[r] = "deferred" => status[r] = "deferred"
<1>1. Runs \subseteq Nat /\ Runs \subseteq RunIds /\ rows \in Nat
  BY Countable DEF Runs, RunIds
<1>2. status[rows + 1] = "absent"
  BY <1>1 DEF TypeOK
<1> QED
  BY <1>1, <1>2 DEF TypeOK, ShapeOK, Enqueue

LEMMA RowsInvInit == Init => RowsInv
<1> SUFFICES ASSUME Init PROVE RowsInv
  OBVIOUS
<1>1. TypeOK
  BY ConstantsAssumption, Bounds DEF Init, TypeOK, Runs, RunIds
<1>2. ShapeOK
  BY DEF Init, ShapeOK, Pending
<1>3. Pending = {} /\ Owed = {}
  BY DEF Init, Pending, Owed
<1>4. RoomOK
  BY <1>3, FS_EmptySet DEF Init, RoomOK, Paid
<1> QED
  BY <1>1, <1>2, <1>4 DEF RowsInv

LEMMA ShapeStep == RowsInv /\ [Next]_vars => TypeOK' /\ ShapeOK'
<1> SUFFICES ASSUME RowsInv, [Next]_vars PROVE TypeOK' /\ ShapeOK'
  OBVIOUS
<1> USE DEF RowsInv
<1>0. /\ 0 \in RunIds /\ Runs \subseteq RunIds /\ Runs \subseteq Nat /\ 0 \notin Runs
      /\ rows \in Nat
  BY Bounds, Countable DEF Runs, RunIds
<1>1. CASE EnqueueFresh
  <2>1. rows + 1 \in Runs
    BY <1>1, HasRoom DEF EnqueueFresh
  <2> QED
    <3>1. Enqueue(0)
      BY <1>1 DEF EnqueueFresh
    <3>2. fresh' \in 0..MaxFresh
      BY <1>1, ConstantsAssumption DEF EnqueueFresh, TypeOK
    <3>3. UNCHANGED <<batch, sweeping, opPc, opRun, requeued, deferrals, requests, faults>>
      BY <1>1 DEF EnqueueFresh, sweep, request
    <3>4. TypeOK'
      BY <1>0, <2>1, <3>1, <3>2, <3>3, EnqueueShape DEF TypeOK
    <3>5. ShapeOK'
      BY <1>0, <2>1, <3>1, <3>3, EnqueueShape DEF TypeOK, ShapeOK, Pending
    <3> QED
      BY <3>4, <3>5
<1>2. ASSUME NEW r \in Runs, RunEnds(r) PROVE TypeOK' /\ ShapeOK'
  BY <1>0, <1>2 DEF RunEnds, TypeOK, ShapeOK, Pending, sweep, request, counts
<1>3. ASSUME NEW r \in Runs, RunDefers(r) PROVE TypeOK' /\ ShapeOK'
  BY <1>0, <1>3, ConstantsAssumption
  DEF RunDefers, FlushDeferred, TypeOK, ShapeOK, Pending, sweep, request
<1>4. ASSUME NEW r \in Runs, TimePasses(r) PROVE TypeOK' /\ ShapeOK'
  BY <1>0, <1>4 DEF TimePasses, TypeOK, ShapeOK, Pending, sweep, request, counts
<1>5. CASE SweepSelects
  BY <1>0, <1>5 DEF SweepSelects, Due, TypeOK, ShapeOK, Pending, table, request, counts
<1>6. CASE SweepCancels
  <2>1. /\ sweeping \in Runs
        /\ status' = [status EXCEPT ![sweeping] = "cancelled"] \/ status' = status
        /\ status[sweeping] # "absent"
        /\ UNCHANGED <<wake, rows, replaces, opPc, opRun, requeued, fresh, deferrals, requests,
                       faults>>
        /\ batch' = batch \ {sweeping} /\ sweeping' = 0
    BY <1>6 DEF SweepCancels, SetCancelled, TypeOK, ShapeOK, table, request, counts
  <2>2. TypeOK'
    BY <1>0, <2>1 DEF TypeOK
  <2>3. ShapeOK'
    BY <1>0, <2>1 DEF TypeOK, ShapeOK, Pending
  <2> QED
    BY <2>2, <2>3
<1>7. ASSUME NEW r \in Runs, SweepEnqueues(r) PROVE TypeOK' /\ ShapeOK'
  <2>1. r \in Owed
    BY <1>0, <1>7 DEF SweepEnqueues, Owed
  <2>2. rows + 1 \in Runs
    BY <2>1, HasRoom
  <2> QED
    BY <1>0, <1>7, <2>2, EnqueueShape
    DEF SweepEnqueues, TypeOK, ShapeOK, Pending, request, counts
<1>8. ASSUME NEW r \in Runs, SweepRaises(r) PROVE TypeOK' /\ ShapeOK'
  BY <1>0, <1>8, ConstantsAssumption
  DEF SweepRaises, TypeOK, ShapeOK, Pending, table, request
<1>9. ASSUME NEW o \in Ops, NEW r \in Runs, RequeueReads(o, r) PROVE TypeOK' /\ ShapeOK'
  BY <1>0, <1>9, ConstantsAssumption
  DEF RequeueReads, TypeOK, ShapeOK, Pending, table, sweep
<1>10. ASSUME NEW o \in Ops, RequeueCancels(o) PROVE TypeOK' /\ ShapeOK'
  BY <1>0, <1>10 DEF RequeueCancels, SetCancelled, TypeOK, ShapeOK, Pending, sweep, counts
<1>11. ASSUME NEW o \in Ops, RequeueEnqueues(o) PROVE TypeOK' /\ ShapeOK'
  <2>1. o \in Pending
    BY <1>11 DEF RequeueEnqueues, Pending
  <2>2. rows + 1 \in Runs
    BY <2>1, HasRoom
  <2>3. opRun[o] \in RunIds
    BY DEF TypeOK
  <2> QED
    BY <1>0, <1>11, <2>2, <2>3, EnqueueShape
    DEF RequeueEnqueues, TypeOK, ShapeOK, Pending, sweep, counts
<1>12. CASE Restart
  BY <1>0, <1>12, ConstantsAssumption DEF Restart, TypeOK, ShapeOK, Pending, table
<1>13. CASE UNCHANGED vars
  BY <1>13 DEF TypeOK, ShapeOK, Pending, vars, table, sweep, request, counts
<1> QED
  BY <1>1, <1>2, <1>3, <1>4, <1>5, <1>6, <1>7, <1>8, <1>9, <1>10, <1>11, <1>12, <1>13
  DEF Next, Sweep

-----------------------------------------------------------------------------
\* Promises.

\* A step that adds as much on one side as on the other keeps the balance.
LEMMA Balance ==
  \A r, p, o, c, r1, p1, o1, c1 \in Nat :
    /\ r + p + o <= c
    /\ \/ r1 = r /\ p1 <= p /\ o1 <= o /\ c1 = c
       \/ r1 = r + 1 /\ p1 <= p /\ o1 <= o /\ c1 = c + 1
       \/ r1 = r /\ p1 <= p /\ o1 <= o + 1 /\ c1 = c + 1
       \/ r1 = r /\ p1 <= p + 1 /\ o1 <= o /\ c1 = c + 1
       \/ r1 = r + 1 /\ p1 <= p /\ o1 + 1 <= o /\ c1 = c
       \/ r1 = r + 1 /\ p1 + 1 <= p /\ o1 <= o /\ c1 = c
    => r1 + p1 + o1 <= c1
OBVIOUS

LEMMA Sums ==
  \A f, d, q, x \in Nat : /\ f + d + q + x \in Nat
                          /\ (f + 1) + d + q + x = f + d + q + x + 1
                          /\ f + (d + 1) + q + x = f + d + q + x + 1
                          /\ f + d + (q + 1) + x = f + d + q + x + 1
                          /\ f + d + q + (x + 1) = f + d + q + x + 1
OBVIOUS

\* What a step has to show of the promises and of what was paid for them.
LEMMA RoomKept ==
  ASSUME RowsInv, TypeOK',
         \/ /\ rows' = rows /\ Pending' \subseteq Pending /\ Owed' \subseteq Owed
            /\ Paid' = Paid
         \/ /\ rows' = rows + 1 /\ Pending' \subseteq Pending /\ Owed' \subseteq Owed
            /\ Paid' = Paid + 1
         \/ /\ rows' = rows /\ Pending' \subseteq Pending
            /\ \E r \in Runs : Owed' \subseteq Owed \cup {r}
            /\ Paid' = Paid + 1
         \/ /\ rows' = rows /\ Owed' \subseteq Owed
            /\ \E o \in Ops : Pending' \subseteq Pending \cup {o}
            /\ Paid' = Paid + 1
         \/ /\ rows' = rows + 1 /\ Pending' \subseteq Pending
            /\ \E r \in Owed : Owed' \subseteq Owed \ {r}
            /\ Paid' = Paid
         \/ /\ rows' = rows + 1 /\ Owed' \subseteq Owed
            /\ \E o \in Pending : Pending' \subseteq Pending \ {o}
            /\ Paid' = Paid
  PROVE  RoomOK'
<1>1. /\ IsFiniteSet(Pending) /\ Cardinality(Pending) \in Nat
      /\ IsFiniteSet(Owed) /\ Cardinality(Owed) \in Nat
      /\ rows \in Nat /\ Paid \in Nat
  BY Countable, Sums DEF RowsInv, Paid
<1>2. /\ Cardinality(Pending') \in Nat /\ Cardinality(Owed') \in Nat
      /\ rows' \in Nat /\ Paid' \in Nat
  <2>1. Pending' \subseteq Ops /\ Owed' \subseteq Runs
    BY DEF Pending, Owed
  <2>2. Cardinality(Pending') \in Nat /\ Cardinality(Owed') \in Nat
    BY <2>1, Bounds, NoMore
  <2>3. rows' \in Nat
    BY Bounds DEF TypeOK, RunIds
  <2>4. Paid' \in Nat
    BY <1>1
  <2> QED
    BY <2>2, <2>3, <2>4
<1>3. rows + Cardinality(Pending) + Cardinality(Owed) <= Paid
  BY DEF RowsInv, RoomOK
<1>4. /\ Pending' \subseteq Pending => Cardinality(Pending') <= Cardinality(Pending)
      /\ Owed' \subseteq Owed => Cardinality(Owed') <= Cardinality(Owed)
  BY <1>1, NoMore
<1>5. /\ (\E r \in Runs : Owed' \subseteq Owed \cup {r})
           => Cardinality(Owed') <= Cardinality(Owed) + 1
      /\ (\E o \in Ops : Pending' \subseteq Pending \cup {o})
           => Cardinality(Pending') <= Cardinality(Pending) + 1
  BY <1>1, OneMore
<1>6. /\ (\E r \in Owed : Owed' \subseteq Owed \ {r})
           => Cardinality(Owed') + 1 <= Cardinality(Owed)
      /\ (\E o \in Pending : Pending' \subseteq Pending \ {o})
           => Cardinality(Pending') + 1 <= Cardinality(Pending)
  BY <1>1, OneLess
<1> DEFINE p == Cardinality(Pending)  o == Cardinality(Owed)
           p1 == Cardinality(Pending')  o1 == Cardinality(Owed')
           r1 == rows'  c1 == Paid'
<1>7. \/ r1 = rows /\ p1 <= p /\ o1 <= o /\ c1 = Paid
      \/ r1 = rows + 1 /\ p1 <= p /\ o1 <= o /\ c1 = Paid + 1
      \/ r1 = rows /\ p1 <= p /\ o1 <= o + 1 /\ c1 = Paid + 1
      \/ r1 = rows /\ p1 <= p + 1 /\ o1 <= o /\ c1 = Paid + 1
      \/ r1 = rows + 1 /\ p1 <= p /\ o1 + 1 <= o /\ c1 = Paid
      \/ r1 = rows + 1 /\ p1 + 1 <= p /\ o1 <= o /\ c1 = Paid
  BY <1>1, <1>4, <1>5, <1>6
<1>8. /\ rows \in Nat /\ p \in Nat /\ o \in Nat /\ Paid \in Nat
      /\ r1 \in Nat /\ p1 \in Nat /\ o1 \in Nat /\ c1 \in Nat
      /\ rows + p + o <= Paid
  BY <1>1, <1>2, <1>3
<1> HIDE DEF p, o, p1, o1, r1, c1
<1>9. r1 + p1 + o1 <= c1
  BY <1>7, <1>8, Balance
<1> QED
  BY <1>9 DEF RoomOK, p1, o1, r1, c1

LEMMA RoomStep == RowsInv /\ [Next]_vars => RoomOK'
<1> SUFFICES ASSUME RowsInv, [Next]_vars PROVE RoomOK'
  OBVIOUS
<1> USE DEF RowsInv
<1>0. /\ TypeOK' /\ 0 \notin Runs
      /\ fresh \in Nat /\ deferrals \in Nat /\ requests \in Nat /\ faults \in Nat
  BY ShapeStep, Countable DEF Runs
<1>1. CASE EnqueueFresh
  <2>1. rows + 1 \in Runs
    BY <1>1, HasRoom DEF EnqueueFresh
  <2>2. 0 \in RunIds
    BY Bounds DEF RunIds
  <2>3. Owed' \subseteq Owed
    BY <1>1, <2>1, <2>2, EnqueueShape DEF EnqueueFresh, sweep, Owed
  <2>4. Pending' \subseteq Pending
    BY <1>1 DEF EnqueueFresh, request, Pending
  <2>5. Paid' = Paid + 1
    BY <1>0, <1>1, Sums DEF EnqueueFresh, Paid
  <2> QED
    BY <1>0, <1>1, <2>3, <2>4, <2>5, RoomKept DEF EnqueueFresh, Enqueue
<1>2. ASSUME NEW r \in Runs, RunEnds(r) PROVE RoomOK'
  BY <1>0, <1>2, RoomKept DEF RunEnds, TypeOK, Pending, Owed, Paid, sweep, request, counts
<1>3. ASSUME NEW r \in Runs, RunDefers(r) PROVE RoomOK'
  <2>1. Owed' \subseteq Owed \cup {r}
    BY <1>3 DEF RunDefers, FlushDeferred, TypeOK, Owed, sweep
  <2>2. Pending' \subseteq Pending
    BY <1>3 DEF RunDefers, Pending, request
  <2>3. Paid' = Paid + 1
    BY <1>0, <1>3, Sums DEF RunDefers, Paid
  <2> QED
    BY <1>0, <1>3, <2>1, <2>2, <2>3, RoomKept DEF RunDefers
<1>4. ASSUME NEW r \in Runs, TimePasses(r) PROVE RoomOK'
  BY <1>0, <1>4, RoomKept DEF TimePasses, Pending, Owed, Paid, sweep, request, counts
<1>5. CASE SweepSelects
  BY <1>0, <1>5, RoomKept DEF SweepSelects, Due, Pending, Owed, Paid, table, request, counts
<1>6. CASE SweepCancels
  <2>1. Owed' \subseteq Owed
    BY <1>0, <1>6 DEF SweepCancels, SetCancelled, TypeOK, ShapeOK, Owed, table
  <2> QED
    BY <1>0, <1>6, <2>1, RoomKept
    DEF SweepCancels, SetCancelled, Pending, Paid, table, request, counts
<1>7. ASSUME NEW r \in Runs, SweepEnqueues(r) PROVE RoomOK'
  <2>1. r \in Owed
    BY <1>0, <1>7 DEF SweepEnqueues, Owed
  <2>2. rows + 1 \in Runs /\ r \in RunIds
    BY <2>1, HasRoom DEF Runs, RunIds
  <2>3. Owed' \subseteq Owed \ {r}
    BY <1>0, <1>7, <2>2, EnqueueShape DEF SweepEnqueues, Owed
  <2> QED
    BY <1>0, <1>7, <2>1, <2>3, RoomKept
    DEF SweepEnqueues, Enqueue, Pending, Paid, request, counts
<1>8. ASSUME NEW r \in Runs, SweepRaises(r) PROVE RoomOK'
  <2>1. Owed' \subseteq Owed \cup {r} /\ Pending' \subseteq Pending
    BY <1>8 DEF SweepRaises, Owed, Pending, table, request
  <2>2. Paid' = Paid + 1
    BY <1>0, <1>8, Sums DEF SweepRaises, Paid
  <2> QED
    BY <1>0, <1>8, <2>1, <2>2, RoomKept DEF SweepRaises, table
<1>9. ASSUME NEW o \in Ops, NEW r \in Runs, RequeueReads(o, r) PROVE RoomOK'
  <2>1. Owed' \subseteq Owed /\ Pending' \subseteq Pending \cup {o}
    BY <1>9 DEF RequeueReads, TypeOK, Owed, Pending, table, sweep
  <2>2. Paid' = Paid + 1
    BY <1>0, <1>9, Sums DEF RequeueReads, Paid
  <2> QED
    BY <1>0, <1>9, <2>1, <2>2, RoomKept DEF RequeueReads, table
<1>10. ASSUME NEW o \in Ops, RequeueCancels(o) PROVE RoomOK'
  BY <1>0, <1>10, RoomKept
  DEF RequeueCancels, SetCancelled, TypeOK, Pending, Owed, Paid, sweep, counts
<1>11. ASSUME NEW o \in Ops, RequeueEnqueues(o) PROVE RoomOK'
  <2>1. o \in Pending /\ opRun[o] \in RunIds
    BY <1>11 DEF RequeueEnqueues, Pending, TypeOK
  <2>2. rows + 1 \in Runs
    BY <2>1, HasRoom
  <2>3. Owed' \subseteq Owed
    BY <1>11, <2>1, <2>2, EnqueueShape DEF RequeueEnqueues, Owed, sweep
  <2>4. Pending' \subseteq Pending \ {o}
    BY <1>11 DEF RequeueEnqueues, TypeOK, Pending
  <2> QED
    BY <1>0, <1>11, <2>1, <2>3, <2>4, RoomKept DEF RequeueEnqueues, Enqueue, Paid, counts
<1>12. CASE Restart
  <2>1. Pending' \subseteq Pending
    BY <1>12 DEF Restart, Pending
  <2>2. \E r \in Runs : Owed' \subseteq Owed \cup {r}
    <3>1. Owed' \subseteq Owed \cup {sweeping}
      BY <1>12 DEF Restart, Owed, table
    <3>2. Runs # {}
      <4>1. MaxFaults >= 1
        BY <1>0, <1>12, ConstantsAssumption DEF Restart
      <4>2. 1 \in Runs
        BY <4>1, ConstantsAssumption DEF Runs
      <4> QED
        BY <4>2
    <3>3. sweeping \notin Runs => Owed' \subseteq Owed
      BY <3>1 DEF Owed
    <3> QED
      BY <3>1, <3>2, <3>3
  <2>3. Paid' = Paid + 1
    BY <1>0, <1>12, Sums DEF Restart, Paid
  <2> QED
    BY <1>0, <1>12, <2>1, <2>2, <2>3, RoomKept DEF Restart, table
<1>13. CASE UNCHANGED vars
  BY <1>0, <1>13, RoomKept DEF Pending, Owed, Paid, vars, table, sweep, request, counts
<1> QED
  BY <1>1, <1>2, <1>3, <1>4, <1>5, <1>6, <1>7, <1>8, <1>9, <1>10, <1>11, <1>12, <1>13
  DEF Next, Sweep

LEMMA RowsInvariant == Spec => []RowsInv
<1>1. RowsInv /\ [Next]_vars => RowsInv'
  BY ShapeStep, RoomStep DEF RowsInv
<1> QED
  BY <1>1, RowsInvInit, PTL DEF Spec

\* Every reachable state is well typed; in particular no more than the deferrals,
\* requests and faults of a behaviour ever ask for a row, so that the bound on the
\* table cuts no enqueue off.
THEOREM TypeCorrect == Spec => []TypeOK
  BY RowsInvariant, PTL DEF RowsInv

-----------------------------------------------------------------------------
\* The sweep loses nothing.

\* What was cancelled has a successor, or somebody asked for it; the run the sweep is
\* about to cancel has one already, and the one a request is about to cancel was
\* asked for.
LossInv ==
  /\ SweepLosesNothing
  /\ sweeping # 0 => Successors(sweeping) # {}
  /\ \A o \in Pending : requeued[opRun[o]] > 0

\* A new row is a successor of its own run and takes nobody's successor away.
LEMMA Succeeds ==
  ASSUME TypeOK, ShapeOK, rows + 1 \in Runs, NEW old \in RunIds, Enqueue(old)
  PROVE  /\ rows + 1 \in Successors(old)'
         /\ \A r \in Runs : Successors(r) \subseteq Successors(r)'
         /\ \A r \in Runs : Successors(r)' \subseteq Successors(r) \cup {rows + 1}
         /\ \A r \in Runs : r # old => Successors(r)' \subseteq Successors(r)
<1>1. rows \in Nat /\ Runs \subseteq Nat /\ 0 \notin Runs
  BY Countable DEF Runs
<1>2. replaces[rows + 1] = 0
  BY <1>1 DEF ShapeOK
<1> QED
  BY <1>1, <1>2 DEF Enqueue, Successors, TypeOK

LEMMA LossStep == RowsInv /\ RowsInv' /\ LossInv /\ [Next]_vars => LossInv'
<1> SUFFICES ASSUME RowsInv, RowsInv', LossInv, [Next]_vars PROVE LossInv'
  OBVIOUS
<1> USE DEF RowsInv, LossInv, SweepLosesNothing, Superseded
<1>0. Runs \subseteq RunIds /\ Runs \subseteq Nat /\ 0 \notin Runs /\ 0 \in RunIds
  BY Bounds DEF Runs, RunIds
<1>1. CASE EnqueueFresh
  <2>1. rows + 1 \in Runs
    BY <1>1, HasRoom DEF EnqueueFresh
  <2>2. \A r \in Runs : Successors(r) \subseteq Successors(r)'
    BY <1>0, <1>1, <2>1, Succeeds DEF EnqueueFresh
  <2>3. \A r \in Runs : status'[r] = "cancelled" => status[r] = "cancelled"
    BY <1>1, <2>1 DEF EnqueueFresh, Enqueue, TypeOK
  <2> QED
    BY <1>0, <1>1, <2>2, <2>3 DEF EnqueueFresh, TypeOK, Pending, sweep, request, ShapeOK
<1>2. ASSUME NEW r \in Runs, RunEnds(r) PROVE LossInv'
  BY <1>2 DEF RunEnds, TypeOK, Pending, Successors, sweep, request, counts
<1>3. ASSUME NEW r \in Runs, RunDefers(r) PROVE LossInv'
  BY <1>3 DEF RunDefers, FlushDeferred, TypeOK, Pending, Successors, sweep, request
<1>4. ASSUME NEW r \in Runs, TimePasses(r) PROVE LossInv'
  BY <1>4 DEF TimePasses, Pending, Successors, sweep, request, counts
<1>5. CASE SweepSelects
  BY <1>5 DEF SweepSelects, Pending, Successors, table, request, counts
<1>6. CASE SweepCancels
  BY <1>6 DEF SweepCancels, SetCancelled, TypeOK, Pending, Successors, table, request, counts
<1>7. ASSUME NEW r \in Runs, SweepEnqueues(r) PROVE LossInv'
  <2>1. rows + 1 \in Runs
    <3>1. r \in Owed
      BY <1>0, <1>7 DEF SweepEnqueues, Owed
    <3> QED
      BY <3>1, HasRoom
  <2>2. /\ Successors(r)' # {}
        /\ \A s \in Runs : Successors(s) \subseteq Successors(s)'
    BY <1>0, <1>7, <2>1, Succeeds DEF SweepEnqueues
  <2>3. \A s \in Runs : status'[s] = "cancelled" => status[s] = "cancelled"
    BY <1>7, <2>1 DEF SweepEnqueues, Enqueue, TypeOK
  <2> QED
    BY <1>7, <2>2, <2>3 DEF SweepEnqueues, Pending, request, counts
<1>8. ASSUME NEW r \in Runs, SweepRaises(r) PROVE LossInv'
  BY <1>8 DEF SweepRaises, Pending, Successors, table, request
<1>9. ASSUME NEW o \in Ops, NEW r \in Runs, RequeueReads(o, r) PROVE LossInv'
  <2>1. \A s \in Runs : requeued[s] \in Nat /\ requeued'[s] \in Nat /\ requeued[s] <= requeued'[s]
    BY <1>9, ConstantsAssumption DEF RequeueReads, TypeOK
  <2>2. requeued'[r] > 0
    BY <1>9, ConstantsAssumption DEF RequeueReads, TypeOK
  <2>3. \A p \in Pending' : requeued'[opRun'[p]] > 0
    BY <1>9, <2>1, <2>2 DEF RequeueReads, TypeOK, ShapeOK, Pending
  <2> QED
    BY <1>9, <2>1, <2>3 DEF RequeueReads, Successors, table, sweep
<1>10. ASSUME NEW o \in Ops, RequeueCancels(o) PROVE LossInv'
  <2>1. o \in Pending
    BY <1>10 DEF RequeueCancels, Pending
  <2> QED
    BY <1>10, <2>1
    DEF RequeueCancels, SetCancelled, TypeOK, ShapeOK, Pending, Successors, sweep, counts
<1>11. ASSUME NEW o \in Ops, RequeueEnqueues(o) PROVE LossInv'
  <2>1. o \in Pending /\ opRun[o] \in Runs
    BY <1>11 DEF RequeueEnqueues, Pending, ShapeOK
  <2>2. rows + 1 \in Runs
    BY <2>1, HasRoom
  <2>3. \A r \in Runs : Successors(r) \subseteq Successors(r)'
    BY <1>0, <1>11, <2>1, <2>2, Succeeds DEF RequeueEnqueues
  <2>4. \A r \in Runs : status'[r] = "cancelled" => status[r] = "cancelled"
    BY <1>11, <2>2 DEF RequeueEnqueues, Enqueue, TypeOK
  <2>5. sweeping # 0 => sweeping \in Runs
    BY DEF TypeOK, ShapeOK
  <2> QED
    BY <1>11, <2>3, <2>4, <2>5 DEF RequeueEnqueues, TypeOK, Pending, sweep, counts
<1>12. CASE Restart
  BY <1>12 DEF Restart, Pending, Successors, table
<1>13. CASE UNCHANGED vars
  BY <1>13 DEF Pending, Successors, vars, table, sweep, request, counts
<1> QED
  BY <1>1, <1>2, <1>3, <1>4, <1>5, <1>6, <1>7, <1>8, <1>9, <1>10, <1>11, <1>12, <1>13
  DEF Next, Sweep

\* A deferred run that is cancelled without anybody having requeued it has a run in
\* its place: for any number of requests, deferrals, and faults in the middle of a sweep.
THEOREM NothingLost == Spec => []SweepLosesNothing
<1>1. Init => LossInv
  BY DEF Init, LossInv, SweepLosesNothing, Superseded, Pending
<1>2. LossInv => SweepLosesNothing
  BY DEF LossInv
<1> QED
  BY <1>1, <1>2, RowsInvariant, LossStep, PTL DEF Spec

-----------------------------------------------------------------------------
\* Duplicates.

\* Requests that will still enqueue a run in place of r.
Asked(r) == {o \in Pending : opRun[o] = r}

\* Whether the sweep may still enqueue in place of r without a fault.
Sweepable(r) == r # sweeping /\ (status[r] \in {"absent", "live", "deferred"} \/ r \in batch)
Once(r) == IF Sweepable(r) THEN 1 ELSE 0

Causes(r) == 1 + requeued[r] + faults

DuplicatesInv ==
  \A r \in Runs : Cardinality(Successors(r)) + Cardinality(Asked(r)) + Once(r) <= Causes(r)

\* As for the table as a whole, now for the rows in place of one run.
LEMMA BalanceOfOne ==
  \A s, a, o, c, s1, a1, o1, c1 \in Nat :
    /\ s + a + o <= c
    /\ \/ s1 <= s /\ a1 <= a /\ o1 <= o /\ c1 >= c
       \/ s1 <= s /\ a1 <= a /\ o1 <= o + 1 /\ c1 >= c + 1
       \/ s1 <= s /\ a1 <= a + 1 /\ o1 <= o /\ c1 >= c + 1
       \/ s1 <= s + 1 /\ a1 <= a /\ o1 + 1 <= o /\ c1 >= c
       \/ s1 <= s + 1 /\ a1 + 1 <= a /\ o1 <= o /\ c1 >= c
    => s1 + a1 + o1 <= c1
OBVIOUS

LEMMA CausesGrow ==
  ASSUME TypeOK, NEW r \in Runs
  PROVE  Causes(r) \in Nat /\ requeued[r] \in Nat /\ faults \in Nat
  BY ConstantsAssumption DEF TypeOK, Causes

LEMMA DuplicatesKept ==
  ASSUME TypeOK, TypeOK', DuplicatesInv, NEW r \in Runs,
         \/ /\ Successors(r)' \subseteq Successors(r) /\ Asked(r)' \subseteq Asked(r)
            /\ (Sweepable(r)' => Sweepable(r)) /\ Causes(r)' >= Causes(r)
         \/ /\ Successors(r)' \subseteq Successors(r) /\ Asked(r)' \subseteq Asked(r)
            /\ Causes(r)' = Causes(r) + 1
         \/ /\ Successors(r)' \subseteq Successors(r)
            /\ \E o \in Ops : Asked(r)' \subseteq Asked(r) \cup {o}
            /\ (Sweepable(r)' => Sweepable(r)) /\ Causes(r)' = Causes(r) + 1
         \/ /\ \E s \in Runs : Successors(r)' \subseteq Successors(r) \cup {s}
            /\ Asked(r)' \subseteq Asked(r)
            /\ Sweepable(r) /\ ~Sweepable(r)' /\ Causes(r)' = Causes(r)
         \/ /\ \E s \in Runs : Successors(r)' \subseteq Successors(r) \cup {s}
            /\ \E o \in Asked(r) : Asked(r)' \subseteq Asked(r) \ {o}
            /\ (Sweepable(r)' => Sweepable(r)) /\ Causes(r)' = Causes(r)
  PROVE  (Cardinality(Successors(r)) + Cardinality(Asked(r)) + Once(r) <= Causes(r))'
<1>1. /\ IsFiniteSet(Successors(r)) /\ Cardinality(Successors(r)) \in Nat
      /\ IsFiniteSet(Asked(r)) /\ Cardinality(Asked(r)) \in Nat
  <2>1. Successors(r) \subseteq Runs /\ Asked(r) \subseteq Ops
    BY DEF Successors, Asked, Pending
  <2> QED
    BY <2>1, Bounds, NoMore
<1>2. Cardinality(Successors(r)') \in Nat /\ Cardinality(Asked(r)') \in Nat
  <2>1. Successors(r)' \subseteq Runs /\ Asked(r)' \subseteq Ops
    BY DEF Successors, Asked, Pending
  <2> QED
    BY <2>1, Bounds, NoMore
<1>3. /\ Causes(r) \in Nat /\ Causes(r)' \in Nat
      /\ Once(r) \in {0, 1} /\ Once(r)' \in {0, 1}
      /\ (Sweepable(r)' => Sweepable(r)) => Once(r)' <= Once(r)
      /\ Sweepable(r) /\ ~Sweepable(r)' => Once(r)' + 1 <= Once(r)
      /\ Once(r)' <= Once(r) + 1
  <2>1. Causes(r) \in Nat
    BY CausesGrow
  <2>2. Causes(r)' \in Nat
    BY ConstantsAssumption DEF TypeOK, Causes
  <2>3. /\ Once(r) \in {0, 1} /\ Once(r)' \in {0, 1}
        /\ (Sweepable(r)' => Sweepable(r)) => Once(r)' <= Once(r)
        /\ Sweepable(r) /\ ~Sweepable(r)' => Once(r)' + 1 <= Once(r)
        /\ Once(r)' <= Once(r) + 1
    BY DEF Once
  <2> QED
    BY <2>1, <2>2, <2>3
<1>4. Cardinality(Successors(r)) + Cardinality(Asked(r)) + Once(r) <= Causes(r)
  BY DEF DuplicatesInv
<1> DEFINE s == Cardinality(Successors(r))  a == Cardinality(Asked(r))  o == Once(r)
           c == Causes(r)
           s1 == Cardinality(Successors(r)')  a1 == Cardinality(Asked(r)')  o1 == Once(r)'
           c1 == Causes(r)'
<1>5. /\ Successors(r)' \subseteq Successors(r) => s1 <= s
      /\ Asked(r)' \subseteq Asked(r) => a1 <= a
      /\ (\E x \in Runs : Successors(r)' \subseteq Successors(r) \cup {x}) => s1 <= s + 1
      /\ (\E x \in Ops : Asked(r)' \subseteq Asked(r) \cup {x}) => a1 <= a + 1
      /\ (\E x \in Asked(r) : Asked(r)' \subseteq Asked(r) \ {x}) => a1 + 1 <= a
  BY <1>1, NoMore, OneMore, OneLess
<1>6. s \in Nat /\ a \in Nat /\ o \in Nat /\ c \in Nat /\ s1 \in Nat /\ a1 \in Nat /\ o1 \in Nat
      /\ c1 \in Nat /\ s + a + o <= c
  BY <1>1, <1>2, <1>3, <1>4
<1>7. c1 = c => c1 >= c
  BY <1>6
<1>8. c1 = c + 1 => c1 >= c + 1
  BY <1>6
<1>9. \/ s1 <= s /\ a1 <= a /\ o1 <= o /\ c1 >= c
      \/ s1 <= s /\ a1 <= a /\ o1 <= o + 1 /\ c1 >= c + 1
      \/ s1 <= s /\ a1 <= a + 1 /\ o1 <= o /\ c1 >= c + 1
      \/ s1 <= s + 1 /\ a1 <= a /\ o1 + 1 <= o /\ c1 >= c
      \/ s1 <= s + 1 /\ a1 + 1 <= a /\ o1 <= o /\ c1 >= c
  <2> HIDE DEF s, a, s1, a1
  <2> QED
    BY <1>3, <1>5, <1>7, <1>8
<1> HIDE DEF s, a, o, c, s1, a1, o1, c1
<1>10. s1 + a1 + o1 <= c1
  BY <1>6, <1>9, BalanceOfOne
<1> QED
  BY <1>10 DEF s1, a1, o1, c1

LEMMA DuplicatesStep == RowsInv /\ RowsInv' /\ DuplicatesInv /\ [Next]_vars => DuplicatesInv'
<1> SUFFICES ASSUME RowsInv, RowsInv', DuplicatesInv, [Next]_vars, NEW r \in Runs
             PROVE  (Cardinality(Successors(r)) + Cardinality(Asked(r)) + Once(r) <= Causes(r))'
  BY DEF DuplicatesInv
<1> DEFINE Stays == (Cardinality(Successors(r)) + Cardinality(Asked(r)) + Once(r) <= Causes(r))'
<1> USE DEF RowsInv
<1>0. /\ Runs \subseteq RunIds /\ Runs \subseteq Nat /\ 0 \notin Runs /\ 0 \in RunIds
      /\ Causes(r) \in Nat /\ requeued[r] \in Nat /\ faults \in Nat
  BY Bounds, CausesGrow DEF Runs, RunIds
<1>1. CASE EnqueueFresh
  <2>1. rows + 1 \in Runs
    BY <1>1, HasRoom DEF EnqueueFresh
  <2>2. Successors(r)' \subseteq Successors(r)
    BY <1>0, <1>1, <2>1, Succeeds DEF EnqueueFresh
  <2>3. Asked(r)' \subseteq Asked(r) /\ Causes(r)' = Causes(r)
    BY <1>1 DEF EnqueueFresh, Asked, Pending, Causes, request
  <2>4. Sweepable(r)' => Sweepable(r)
    BY <1>0, <1>1, <2>1, Countable DEF EnqueueFresh, Enqueue, Sweepable, TypeOK, sweep
  <2> QED
    BY <1>0, <2>2, <2>3, <2>4, DuplicatesKept
<1>2. ASSUME NEW q \in Runs, RunEnds(q) PROVE Stays
  BY <1>0, <1>2, DuplicatesKept
  DEF RunEnds, TypeOK, Asked, Pending, Successors, Sweepable, Causes, sweep, request, counts
<1>3. ASSUME NEW q \in Runs, RunDefers(q) PROVE Stays
  BY <1>0, <1>3, DuplicatesKept
  DEF RunDefers, FlushDeferred, TypeOK, Asked, Pending, Successors, Sweepable, Causes, sweep,
      request
<1>4. ASSUME NEW q \in Runs, TimePasses(q) PROVE Stays
  BY <1>0, <1>4, DuplicatesKept
  DEF TimePasses, Asked, Pending, Successors, Sweepable, Causes, sweep, request, counts
<1>5. CASE SweepSelects
  BY <1>0, <1>5, DuplicatesKept
  DEF SweepSelects, Due, Asked, Pending, Successors, Sweepable, Causes, table, request, counts
<1>6. CASE SweepCancels
  <2>1. Sweepable(r)' => Sweepable(r)
    BY <1>6 DEF SweepCancels, SetCancelled, TypeOK, ShapeOK, Sweepable, table
  <2> QED
    BY <1>0, <1>6, <2>1, DuplicatesKept
    DEF SweepCancels, SetCancelled, Asked, Pending, Successors, Causes, table, request, counts
<1>7. ASSUME NEW q \in Runs, SweepEnqueues(q) PROVE Stays
  <2>1. rows + 1 \in Runs
    <3>1. q \in Owed
      BY <1>0, <1>7 DEF SweepEnqueues, Owed
    <3> QED
      BY <3>1, HasRoom
  <2>2. Asked(r)' \subseteq Asked(r) /\ Causes(r)' = Causes(r)
    BY <1>7 DEF SweepEnqueues, Asked, Pending, Causes, request, counts
  <2>3. CASE r = q
    <3>1. Successors(r)' \subseteq Successors(r) \cup {rows + 1}
      BY <1>0, <1>7, <2>1, Succeeds DEF SweepEnqueues
    <3>2. Sweepable(r) /\ ~Sweepable(r)'
      BY <1>0, <1>7, <2>3 DEF SweepEnqueues, Sweepable
    <3> QED
      BY <2>1, <2>2, <3>1, <3>2, DuplicatesKept
  <2>4. CASE r # q
    <3>1. Successors(r)' \subseteq Successors(r)
      BY <1>0, <1>7, <2>1, <2>4, Succeeds DEF SweepEnqueues
    <3>2. Sweepable(r)' => Sweepable(r)
      BY <1>0, <1>7, <2>1, Countable DEF SweepEnqueues, Enqueue, Sweepable, TypeOK
    <3> QED
      BY <1>0, <2>2, <3>1, <3>2, DuplicatesKept
  <2> QED
    BY <2>3, <2>4
<1>8. ASSUME NEW q \in Runs, SweepRaises(q) PROVE Stays
  <2>1. Causes(r)' = Causes(r) + 1
    BY <1>0, <1>8 DEF SweepRaises, Causes
  <2>2. Successors(r)' \subseteq Successors(r) /\ Asked(r)' \subseteq Asked(r)
    BY <1>8 DEF SweepRaises, Asked, Pending, Successors, table, request
  <2> QED
    BY <2>1, <2>2, DuplicatesKept
<1>9. ASSUME NEW o \in Ops, NEW q \in Runs, RequeueReads(o, q) PROVE Stays
  <2>1. Successors(r)' \subseteq Successors(r) /\ (Sweepable(r)' => Sweepable(r))
    BY <1>9 DEF RequeueReads, Successors, Sweepable, table, sweep
  <2>2. CASE r = q
    <3>1. Causes(r)' = Causes(r) + 1
      BY <1>0, <1>9, <2>2 DEF RequeueReads, TypeOK, Causes
    <3>2. Asked(r)' \subseteq Asked(r) \cup {o}
      BY <1>9 DEF RequeueReads, TypeOK, Asked, Pending
    <3> QED
      BY <2>1, <3>1, <3>2, DuplicatesKept
  <2>3. CASE r # q
    <3>1. Causes(r)' = Causes(r)
      BY <1>9, <2>3 DEF RequeueReads, TypeOK, Causes
    <3>2. Asked(r)' \subseteq Asked(r)
      BY <1>9, <2>3 DEF RequeueReads, TypeOK, Asked, Pending
    <3> QED
      BY <1>0, <2>1, <3>1, <3>2, DuplicatesKept
  <2> QED
    BY <2>2, <2>3
<1>10. ASSUME NEW o \in Ops, RequeueCancels(o) PROVE Stays
  <2>1. o \in Pending
    BY <1>10 DEF RequeueCancels, Pending
  <2>2. Sweepable(r)' => Sweepable(r)
    BY <1>10, <2>1 DEF RequeueCancels, SetCancelled, TypeOK, ShapeOK, Sweepable, sweep
  <2>3. Asked(r)' \subseteq Asked(r)
    BY <1>10, <2>1 DEF RequeueCancels, TypeOK, Asked, Pending
  <2> QED
    BY <1>0, <1>10, <2>2, <2>3, DuplicatesKept
    DEF RequeueCancels, SetCancelled, Successors, Causes, counts
<1>11. ASSUME NEW o \in Ops, RequeueEnqueues(o) PROVE Stays
  <2>1. o \in Pending /\ opRun[o] \in Runs
    BY <1>11 DEF RequeueEnqueues, Pending, ShapeOK
  <2>2. rows + 1 \in Runs
    BY <2>1, HasRoom
  <2>3. Sweepable(r)' => Sweepable(r)
    BY <1>0, <1>11, <2>2, Countable DEF RequeueEnqueues, Enqueue, Sweepable, TypeOK, sweep
  <2>4. Causes(r)' = Causes(r)
    BY <1>11 DEF RequeueEnqueues, Causes, counts
  <2>5. CASE r = opRun[o]
    <3>1. Successors(r)' \subseteq Successors(r) \cup {rows + 1}
      BY <1>0, <1>11, <2>1, <2>2, Succeeds DEF RequeueEnqueues
    <3>2. o \in Asked(r) /\ Asked(r)' \subseteq Asked(r) \ {o}
      BY <1>0, <1>11, <2>1, <2>5 DEF RequeueEnqueues, TypeOK, Asked, Pending
    <3> QED
      BY <2>2, <2>3, <2>4, <3>1, <3>2, DuplicatesKept
  <2>6. CASE r # opRun[o]
    <3>1. Successors(r)' \subseteq Successors(r)
      BY <1>0, <1>11, <2>1, <2>2, <2>6, Succeeds DEF RequeueEnqueues
    <3>2. Asked(r)' \subseteq Asked(r)
      BY <1>0, <1>11 DEF RequeueEnqueues, TypeOK, Asked, Pending
    <3> QED
      BY <1>0, <2>3, <2>4, <3>1, <3>2, DuplicatesKept
  <2> QED
    BY <2>5, <2>6
<1>12. CASE Restart
  <2>1. Causes(r)' = Causes(r) + 1
    BY <1>0, <1>12 DEF Restart, Causes
  <2>2. Successors(r)' \subseteq Successors(r) /\ Asked(r)' \subseteq Asked(r)
    BY <1>12 DEF Restart, Asked, Pending, Successors, table
  <2> QED
    BY <2>1, <2>2, DuplicatesKept
<1>13. CASE UNCHANGED vars
  BY <1>0, <1>13, DuplicatesKept
  DEF Asked, Pending, Successors, Sweepable, Causes, vars, table, sweep, request, counts
<1> QED
  BY <1>1, <1>2, <1>3, <1>4, <1>5, <1>6, <1>7, <1>8, <1>9, <1>10, <1>11, <1>12, <1>13
  DEF Next, Sweep

\* A deferred run is replaced once; every further run in its place is paid for by a
\* request an operator made for it or by a fault.
THEOREM DuplicatesHaveCauses == Spec => []DuplicatesAreAccounted
<1>1. Init => DuplicatesInv
  <2> SUFFICES ASSUME Init, NEW r \in Runs
               PROVE  Cardinality(Successors(r)) + Cardinality(Asked(r)) + Once(r) <= Causes(r)
    BY DEF DuplicatesInv
  <2>1. Successors(r) = {} /\ Asked(r) = {}
    BY DEF Init, Successors, Asked, Pending, Runs
  <2>2. Once(r) = 1 /\ Causes(r) = 1
    BY DEF Init, Once, Sweepable, Causes, Runs
  <2> QED
    BY <2>1, <2>2, FS_EmptySet
<1>2. TypeOK /\ DuplicatesInv => DuplicatesAreAccounted
  <2> SUFFICES ASSUME TypeOK, DuplicatesInv, NEW r \in Runs
               PROVE  Cardinality(Successors(r)) <= 1 + requeued[r] + faults
    BY DEF DuplicatesAreAccounted
  <2>1. /\ Successors(r) \subseteq Runs /\ Asked(r) \subseteq Ops
        /\ Once(r) \in Nat
    BY DEF Successors, Asked, Pending, Once
  <2>2. Cardinality(Successors(r)) \in Nat /\ Cardinality(Asked(r)) \in Nat
    BY <2>1, Bounds, NoMore
  <2> QED
    BY <2>1, <2>2, CausesGrow DEF DuplicatesInv, Causes
<1> QED
  BY <1>1, <1>2, RowsInvariant, DuplicatesStep, PTL DEF Spec, RowsInv

-----------------------------------------------------------------------------
\* Lists.

\* Every set of naturals that is not empty has a least element.
LEMMA LeastOf ==
  ASSUME NEW S \in SUBSET Nat, S # {}
  PROVE  \E x \in S : \A y \in S : x <= y
<1>1. PICK x \in S : \A y \in S : ~ (<<y, x>> \in OpToRel(<, Nat))
  BY NatLessThanWellFounded, WFMin
<1>2. \A y \in S : ~ (y < x)
  BY <1>1 DEF OpToRel
<1> QED BY <1>2

\* A fact about the numbers up to N that starts at 0 and goes on.
LEMMA UpTo ==
  ASSUME NEW N \in Nat, NEW G \in SUBSET (0..N),
         0 \in G, \A n \in 1..N : n - 1 \in G => n \in G
  PROVE  G = 0..N
<1> SUFFICES ASSUME (0..N) \ G # {} PROVE FALSE
  OBVIOUS
<1>1. PICK x \in (0..N) \ G : \A y \in (0..N) \ G : x <= y
  <2>1. (0..N) \ G \in SUBSET Nat
    OBVIOUS
  <2> QED BY <2>1, LeastOf
<1>2. x # 0 /\ x \in 1..N /\ x - 1 \in 0..N
  BY <1>1
<1>3. x - 1 \in G
  BY <1>1, <1>2
<1> QED
  BY <1>1, <1>2, <1>3

\* The greatest of the first n + 1 positions that are left.
LEMMA LastOf ==
  ASSUME NEW n \in Nat, NEW s \in SUBSET (1..n), s # {}
  PROVE  /\ Max(s) \in s /\ \A x \in s : x <= Max(s)
<1> DEFINE U == {m \in Nat : \A x \in s : x <= m}
<1>1. n \in U
  OBVIOUS
<1>2. PICK m \in U : \A k \in U : m <= k
  BY <1>1, LeastOf
<1>3. m \in s
  <2> SUFFICES ASSUME m \notin s PROVE FALSE
    OBVIOUS
  <2>1. PICK y \in s : TRUE
    OBVIOUS
  <2>2. m \in Nat /\ y \in Nat /\ 1 <= y /\ y <= m /\ \A x \in s : x \in Nat /\ x <= m /\ x # m
    BY <1>2
  <2>3. m - 1 \in Nat /\ \A x \in s : x <= m - 1
    BY <2>2
  <2>4. m - 1 \in U
    BY <2>3
  <2> QED
    BY <1>2, <2>2, <2>4
<1>4. \E x \in s : \A y \in s : x >= y
  BY <1>2, <1>3
<1> QED
  BY <1>4 DEF Max

\* The greatest of the positions up to n is n: what the fold takes last.
LEMMA LastOfAll ==
  ASSUME NEW n \in Nat \ {0}
  PROVE  Max(1..n) = n /\ (1..n) \ {Max(1..n)} = 1..(n - 1)
<1>1. n \in 1..n /\ 1..n # {} /\ 1..n \in SUBSET (1..n)
  OBVIOUS
<1>2. Max(1..n) \in 1..n /\ \A x \in 1..n : x <= Max(1..n)
  BY <1>1, LastOf
<1>3. Max(1..n) = n
  BY <1>1, <1>2
<1> QED
  BY <1>3

\* h folds step over the sets of positions up to n, the last position last.
Folds(h, n, base, step) ==
  \A s \in SUBSET (1..n) : h[s] = IF s = {} THEN base ELSE step[<<h[s \ {Max(s)}], Max(s)>>]

\* A fold by a function on a set of results is defined.
LEMMA FoldExists ==
  ASSUME NEW N \in Nat, NEW B, NEW base \in B, NEW step \in [B \X (1..N) -> B]
  PROVE  \E h \in [SUBSET (1..N) -> B] : Folds(h, N, base, step)
<1> DEFINE G == {n \in 0..N : \E h \in [SUBSET (1..n) -> B] : Folds(h, n, base, step)}
<1>1. 0 \in G
  <2> DEFINE h == [s \in SUBSET (1..0) |-> base]
  <2>1. h \in [SUBSET (1..0) -> B]
    OBVIOUS
  <2>2. \A s \in SUBSET (1..0) : s = {}
    OBVIOUS
  <2>3. Folds(h, 0, base, step)
    BY <2>2 DEF Folds
  <2> QED
    BY <2>1, <2>3
<1>2. ASSUME NEW n \in 1..N, n - 1 \in G PROVE n \in G
  <2>1. PICK g \in [SUBSET (1..(n - 1)) -> B] : Folds(g, n - 1, base, step)
    BY <1>2
  <2>2. \A s \in SUBSET (1..n) : s \ {n} \in SUBSET (1..(n - 1))
    OBVIOUS
  <2> DEFINE h == [s \in SUBSET (1..n) |-> IF n \in s THEN step[<<g[s \ {n}], n>>] ELSE g[s \ {n}]]
  <2>3. h \in [SUBSET (1..n) -> B]
    BY <2>1, <2>2
  <2>4. \A s \in SUBSET (1..(n - 1)) : s \in SUBSET (1..n) /\ h[s] = g[s]
    <3> SUFFICES ASSUME NEW s \in SUBSET (1..(n - 1)) PROVE s \in SUBSET (1..n) /\ h[s] = g[s]
      OBVIOUS
    <3>1. s \in SUBSET (1..n) /\ n \notin s /\ s \ {n} = s
      OBVIOUS
    <3> QED BY <3>1
  <2>5. Folds(h, n, base, step)
    <3> SUFFICES ASSUME NEW s \in SUBSET (1..n)
                 PROVE  h[s] = IF s = {} THEN base ELSE step[<<h[s \ {Max(s)}], Max(s)>>]
      BY Zenon DEF Folds
    <3>1. CASE n \in s
      <4>1. Max(s) = n
        <5>1. n \in Nat /\ s # {} /\ \A x \in s : x \in Nat /\ x <= n
          BY <3>1
        <5>2. Max(s) \in s /\ \A x \in s : x <= Max(s)
          BY <5>1, LastOf
        <5> HIDE DEF h, G
        <5>3. Max(s) \in Nat /\ Max(s) <= n /\ n <= Max(s) /\ n \in Nat
          BY <3>1, <5>1, <5>2
        <5> QED BY <5>3
      <4>2. h[s] = step[<<g[s \ {n}], n>>]
        BY <3>1
      <4>3. h[s \ {n}] = g[s \ {n}]
        BY <2>2, <2>4
      <4> HIDE DEF h
      <4> QED BY <3>1, <4>1, <4>2, <4>3
    <3>2. CASE n \notin s
      <4>1. s \in SUBSET (1..(n - 1))
        BY <3>2
      <4>2. g[s] = IF s = {} THEN base ELSE step[<<g[s \ {Max(s)}], Max(s)>>]
        BY <2>1, <4>1 DEF Folds
      <4>3. s \ {Max(s)} \in SUBSET (1..(n - 1))
        BY <4>1
      <4>4. h[s] = g[s] /\ h[s \ {Max(s)}] = g[s \ {Max(s)}]
        BY <2>4, <4>1, <4>3
      <4> HIDE DEF h
      <4> QED BY <4>2, <4>4
    <3> QED BY <3>1, <3>2
  <2> HIDE DEF h
  <2> QED BY <2>3, <2>5
<1>3. G = 0..N
  <2>1. G \in SUBSET (0..N)
    OBVIOUS
  <2> HIDE DEF G
  <2> QED BY <1>1, <1>2, <2>1, UpTo
<1>4. N \in G
  <2> HIDE DEF G
  <2> QED BY <1>3
<1> QED BY <1>4

-----------------------------------------------------------------------------
\* Only, from left to right: what it has kept of the first n members.
Keeps(k, s, S) ==
  /\ k[0] = <<>>
  /\ \A n \in 1..Len(s) : k[n] = IF s[n] \in S THEN Append(k[n - 1], s[n]) ELSE k[n - 1]

\* Only unfolds: it is where the recursion on the positions of s ends.
LEMMA OnlySteps ==
  ASSUME NEW T, NEW s \in Seq(T), NEW S
  PROVE  \E k \in [0..Len(s) -> Seq(T)] : Keeps(k, s, S) /\ Only(s, S) = k[Len(s)]
<1> DEFINE N == Len(s)
           D == DOMAIN s
           step == [a \in Seq(T) \X (1..N) |-> IF s[a[2]] \in S THEN Append(a[1], s[a[2]]) ELSE a[1]]
           Next1(l, n) == IF s[n] \in S THEN Append(l, s[n]) ELSE l
           G(i) == [u \in SUBSET D |-> IF u = {} THEN <<>> ELSE Next1(i[u \ {Max(u)}], Max(u))]
<1>1. N \in Nat /\ D = 1..N /\ \A i \in 1..N : s[i] \in T
  BY LenProperties, ElementOfSeq
<1>2. <<>> \in Seq(T)
  BY EmptySeq
<1>3. \A l \in Seq(T), n \in 1..N : Next1(l, n) \in Seq(T)
  <2> TAKE l \in Seq(T), n \in 1..N
  <2>1. Append(l, s[n]) \in Seq(T)
    BY <1>1, AppendProperties
  <2> QED BY <2>1
<1>4. step = [a \in Seq(T) \X (1..N) |-> Next1(a[1], a[2])]
  OBVIOUS
<1>5. step \in [Seq(T) \X (1..N) -> Seq(T)]
  <2> HIDE DEF step, Next1, N
  <2> QED BY <1>3, <1>4
<1>6. PICK h \in [SUBSET (1..N) -> Seq(T)] : Folds(h, N, <<>>, step)
  <2> HIDE DEF step, N
  <2> QED BY <1>1, <1>2, <1>5, FoldExists
<1>7. \A l \in Seq(T), n \in 1..N : step[<<l, n>>] = Next1(l, n)
  <2> TAKE l \in Seq(T), n \in 1..N
  <2>1. <<l, n>> \in Seq(T) \X (1..N) /\ <<l, n>>[1] = l /\ <<l, n>>[2] = n
    OBVIOUS
  <2> HIDE DEF step, Next1, N
  <2> QED BY <1>4, <2>1
<1>8. \A u \in SUBSET D : u # {} => Max(u) \in 1..N /\ u \ {Max(u)} \in SUBSET (1..N)
  <2> TAKE u \in SUBSET D
  <2> HIDE DEF N
  <2> QED BY <1>1, LastOf
<1>9. h = G(h)
  <2> HIDE DEF step, N, Next1
  <2>1. ASSUME NEW u \in SUBSET D
        PROVE  h[u] = IF u = {} THEN <<>> ELSE Next1(h[u \ {Max(u)}], Max(u))
    <3>1. h[u] = IF u = {} THEN <<>> ELSE step[<<h[u \ {Max(u)}], Max(u)>>]
      BY <1>1, <1>6 DEF Folds
    <3>2. CASE u = {}
      BY <3>1, <3>2
    <3>3. CASE u # {}
      <4>1. Max(u) \in 1..N /\ h[u \ {Max(u)}] \in Seq(T)
        BY <1>6, <1>8, <3>3
      <4> QED BY <1>7, <3>1, <3>3, <4>1
    <3> QED BY <3>2, <3>3
  <2>2. h = [u \in SUBSET D |-> h[u]]
    BY <1>1, <1>6
  <2> QED BY <2>1, <2>2
<1> DEFINE it == CHOOSE i : i = G(i)
           k == [n \in 0..N |-> it[1..n]]
<1>10. it = G(it)
  <2> HIDE DEF G
  <2> QED BY <1>9
<1>11. Only(s, S) = it[D]
  BY DEF Only, FoldLeft, MapThenFoldSet
<1> HIDE DEF it, N, step
<1>12. \A u \in SUBSET D : it[u] = IF u = {} THEN <<>> ELSE Next1(it[u \ {Max(u)}], Max(u))
  <2> HIDE DEF Next1
  <2> QED BY <1>10
<1> HIDE DEF G
<1>13. k[0] = <<>>
  <2>1. 1..0 = {} /\ 1..0 \in SUBSET D /\ 0 \in 0..N
    BY <1>1
  <2>2. it[1..0] = <<>>
    BY <1>12, <2>1
  <2> QED BY <2>1, <2>2
<1>14. \A n \in 1..N : k[n] = Next1(k[n - 1], n)
  <2> TAKE n \in 1..N
  <2>a. n \in Nat \ {0} /\ n \in 0..N /\ n - 1 \in 0..N
    BY <1>1
  <2>b. n \in 1..n /\ \A x \in 1..n : x \in 1..N
    BY <1>1, <2>a
  <2>1. n \in Nat \ {0} /\ n \in 0..N /\ n - 1 \in 0..N /\ 1..n # {} /\ 1..n \in SUBSET D
    <3> HIDE DEF D
    <3> QED BY <1>1, <2>a, <2>b
  <2>2. Max(1..n) = n /\ (1..n) \ {Max(1..n)} = 1..(n - 1)
    BY <2>1, LastOfAll
  <2>3. it[1..n] = Next1(it[1..(n - 1)], n)
    <3> HIDE DEF Next1, D
    <3> QED BY <1>12, <2>1, <2>2
  <2> HIDE DEF Next1
  <2> QED BY <2>1, <2>3
<1>15. DOMAIN k = 0..N /\ Only(s, S) = k[N]
  BY <1>1, <1>11
<1> HIDE DEF k
<1> DEFINE A == {n \in 0..N : k[n] \in Seq(T)}
<1>16. A = 0..N
  <2>a. 0 \in 0..N
    BY <1>1
  <2>b. k[0] \in Seq(T)
    BY <1>2, <1>13, Zenon
  <2>1. 0 \in A
    BY <2>a, <2>b
  <2>2. \A n \in 1..N : n - 1 \in A => n \in A
    <3> HIDE DEF Next1
    <3> QED BY <1>1, <1>3, <1>14
  <2> HIDE DEF Next1
  <2>3. A \in SUBSET (0..N)
    OBVIOUS
  <2> HIDE DEF A
  <2> QED BY <1>1, <2>1, <2>2, <2>3, UpTo
<1>17. k = [n \in 0..N |-> k[n]]
  <2>1. it = it
    OBVIOUS
  <2> QED BY DEF k
<1>18. k \in [0..N -> Seq(T)]
  BY <1>16, <1>17
<1>19. Keeps(k, s, S)
  BY <1>13, <1>14 DEF Keeps, N
<1> QED
  BY <1>15, <1>18, <1>19 DEF N

\* Of an empty list nothing is kept.
LEMMA OnlyEmpty ==
  ASSUME NEW S
  PROVE  Only(<<>>, S) = <<>>
<1>1. <<>> \in Seq({}) /\ Len(<<>>) = 0
  BY EmptySeq
<1>2. PICK k \in [0..Len(<<>>) -> Seq({})] : Keeps(k, <<>>, S) /\ Only(<<>>, S) = k[Len(<<>>)]
  BY <1>1, OnlySteps
<1> QED
  BY <1>1, <1>2 DEF Keeps

\* A list grown by x is kept as before, with x at its end if x is in S.
LEMMA OnlyAppend ==
  ASSUME NEW T, NEW s \in Seq(T), NEW x \in T, NEW S
  PROVE  Only(Append(s, x), S) = IF x \in S THEN Append(Only(s, S), x) ELSE Only(s, S)
<1> DEFINE t == Append(s, x)
           N == Len(s)
<1>1. /\ t \in Seq(T) /\ Len(t) = N + 1 /\ N \in Nat
      /\ \A i \in 1..N : t[i] = s[i]
      /\ t[N + 1] = x
  BY AppendProperties, LenProperties
<1> HIDE DEF t
<1>2. PICK k \in [0..Len(s) -> Seq(T)] : Keeps(k, s, S) /\ Only(s, S) = k[Len(s)]
  BY OnlySteps
<1>3. PICK l \in [0..Len(t) -> Seq(T)] : Keeps(l, t, S) /\ Only(t, S) = l[Len(t)]
  BY <1>1, OnlySteps
<1> HIDE DEF N
<1> DEFINE A == {n \in 0..N : l[n] = k[n]}
<1>4. A = 0..N
  <2>1. 0 \in A
    BY <1>1, <1>2, <1>3 DEF Keeps
  <2>2. ASSUME NEW n \in 1..N, n - 1 \in A PROVE n \in A
    <3>1. l[n - 1] = k[n - 1] /\ n \in 0..N /\ n \in 1..Len(t) /\ n \in 1..Len(s) /\ t[n] = s[n]
      BY <1>1, <2>2 DEF N
    <3>2. l[n] = IF t[n] \in S THEN Append(l[n - 1], t[n]) ELSE l[n - 1]
      BY <1>3, <3>1 DEF Keeps
    <3>3. k[n] = IF s[n] \in S THEN Append(k[n - 1], s[n]) ELSE k[n - 1]
      BY <1>2, <3>1 DEF Keeps
    <3> HIDE DEF A
    <3>4. l[n] = k[n]
      <4>1. CASE s[n] \in S
        <5>1. l[n] = Append(l[n - 1], t[n])
          BY <3>1, <3>2, <4>1
        <5>2. k[n] = Append(k[n - 1], s[n])
          BY <3>3, <4>1
        <5> QED BY <3>1, <5>1, <5>2, Zenon
      <4>2. CASE s[n] \notin S
        <5>1. l[n] = l[n - 1]
          BY <3>1, <3>2, <4>2
        <5>2. k[n] = k[n - 1]
          BY <3>3, <4>2
        <5> QED BY <3>1, <5>1, <5>2, Zenon
      <4> QED BY <4>1, <4>2
    <3> QED BY <3>1, <3>4 DEF A
  <2>3. A \in SUBSET (0..N)
    OBVIOUS
  <2> HIDE DEF A
  <2> QED BY <1>1, <2>1, <2>2, <2>3, UpTo
<1>5. l[N] = k[N]
  <2>1. N \in A
    <3> HIDE DEF A
    <3> QED BY <1>1, <1>4
  <2> QED BY <2>1
<1>6. l[N + 1] = IF x \in S THEN Append(l[N], x) ELSE l[N]
  <2>1. N + 1 \in 1..Len(t) /\ (N + 1) - 1 = N
    BY <1>1
  <2>2. l[N + 1] = IF t[N + 1] \in S THEN Append(l[(N + 1) - 1], t[N + 1]) ELSE l[(N + 1) - 1]
    BY <1>3, <2>1 DEF Keeps
  <2> QED BY <1>1, <2>1, <2>2
<1> QED
  BY <1>1, <1>2, <1>3, <1>5, <1>6 DEF N, t

\* The positions of s that Only keeps, in their order.
Places(e, o, s, S) ==
  /\ e \in [1..Len(o) -> 1..Len(s)]
  /\ \A m, n \in 1..Len(o) : m < n => e[m] < e[n]
  /\ \A n \in 1..Len(o) : o[n] = s[e[n]] /\ s[e[n]] \in S
  /\ \A i \in 1..Len(s) : s[i] \in S => \E n \in 1..Len(o) : e[n] = i

\* Only keeps the members of S, in the order of the list, and nothing else.
LEMMA OnlyPlaces ==
  ASSUME NEW T, NEW s \in Seq(T), NEW S
  PROVE  Only(s, S) \in Seq(T) /\ \E e : Places(e, Only(s, S), s, S)
<1> DEFINE N == Len(s)
<1>1. N \in Nat /\ \A i \in 1..N : s[i] \in T
  BY LenProperties, ElementOfSeq
<1>2. PICK k \in [0..N -> Seq(T)] : Keeps(k, s, S) /\ Only(s, S) = k[N]
  BY OnlySteps
<1> DEFINE Fit(e, n) ==
             /\ e \in [1..Len(k[n]) -> 1..n]
             /\ \A i, j \in 1..Len(k[n]) : i < j => e[i] < e[j]
             /\ \A i \in 1..Len(k[n]) : k[n][i] = s[e[i]] /\ s[e[i]] \in S
             /\ \A p \in 1..n : s[p] \in S => \E i \in 1..Len(k[n]) : e[i] = p
           A == {n \in 0..N : \E e : Fit(e, n)}
<1>3. 0 \in A
  <2>1. k[0] = <<>> /\ Len(k[0]) = 0 /\ 0 \in 0..N
    BY <1>1, <1>2, EmptySeq DEF Keeps
  <2>2. Fit([i \in 1..0 |-> 0], 0)
    BY <2>1
  <2> HIDE DEF Fit, N
  <2> QED BY <2>1, <2>2
<1>4. ASSUME NEW n \in 1..N, n - 1 \in A PROVE n \in A
  <2>1. PICK e : Fit(e, n - 1)
    BY <1>4
  <2>2. k[n - 1] \in Seq(T) /\ Len(k[n - 1]) \in Nat /\ n \in 0..N /\ s[n] \in T
    <3>1. n - 1 \in 0..N /\ n \in 0..N /\ s[n] \in T
      BY <1>1
    <3>2. k[n - 1] \in Seq(T)
      BY <1>2, <3>1
    <3> QED BY <3>1, <3>2, LenProperties
  <2>3. k[n] = IF s[n] \in S THEN Append(k[n - 1], s[n]) ELSE k[n - 1]
    BY <1>2 DEF Keeps
  <2> DEFINE M == Len(k[n - 1])
  <2>4. CASE s[n] \in S
    <3> DEFINE f == [i \in 1..(M + 1) |-> IF i = M + 1 THEN n ELSE e[i]]
    <3>1. /\ k[n] = Append(k[n - 1], s[n]) /\ Len(k[n]) = M + 1
          /\ \A i \in 1..M : k[n][i] = k[n - 1][i]
          /\ k[n][M + 1] = s[n]
      BY <2>2, <2>3, <2>4, AppendProperties
    <3>2. /\ M \in Nat /\ e \in [1..M -> 1..(n - 1)]
          /\ \A i, j \in 1..M : i < j => e[i] < e[j]
          /\ \A i \in 1..M : k[n - 1][i] = s[e[i]] /\ s[e[i]] \in S
          /\ \A p \in 1..(n - 1) : s[p] \in S => \E i \in 1..M : e[i] = p
      BY <2>1, <2>2
    <3>3. /\ f \in [1..(M + 1) -> 1..n]
          /\ f[M + 1] = n /\ \A i \in 1..M : f[i] = e[i] /\ i \in 1..(M + 1)
          /\ M + 1 \in 1..(M + 1) /\ \A i \in 1..(M + 1) : i = M + 1 \/ i \in 1..M
      BY <3>2
    <3> HIDE DEF f, M
    <3>4. \A i, j \in 1..(M + 1) : i < j => f[i] < f[j]
      BY <3>2, <3>3
    <3>5. \A i \in 1..(M + 1) : k[n][i] = s[f[i]] /\ s[f[i]] \in S
      <4> TAKE i \in 1..(M + 1)
      <4>1. CASE i = M + 1
        BY <2>4, <3>1, <3>3, <4>1
      <4>2. CASE i \in 1..M
        BY <3>1, <3>2, <3>3, <4>2
      <4> QED BY <3>3, <4>1, <4>2
    <3>6. \A p \in 1..n : s[p] \in S => \E i \in 1..(M + 1) : f[i] = p
      <4> TAKE p \in 1..n
      <4>1. p = n \/ p \in 1..(n - 1)
        OBVIOUS
      <4> QED BY <3>2, <3>3, <4>1
    <3>7. Fit(f, n)
      BY <3>1, <3>3, <3>4, <3>5, <3>6
    <3> HIDE DEF Fit, N
    <3> QED BY <2>2, <3>7
  <2>5. CASE s[n] \notin S
    <3>1. k[n] = k[n - 1]
      BY <2>3, <2>5
    <3>2. \A p \in 1..n : s[p] \in S => p \in 1..(n - 1)
      BY <2>5
    <3>3. e \in [1..Len(k[n - 1]) -> 1..n]
      BY <2>1
    <3>4. Fit(e, n)
      BY <2>1, <3>1, <3>2, <3>3
    <3> HIDE DEF Fit, N
    <3> QED BY <2>2, <3>4
  <2> QED BY <2>4, <2>5
<1>5. A = 0..N
  <2>1. A \in SUBSET (0..N)
    OBVIOUS
  <2> HIDE DEF A, N
  <2> QED BY <1>1, <1>3, <1>4, <2>1, UpTo
<1>6. PICK e : Fit(e, N)
  <2>1. N \in A
    <3> HIDE DEF A, N
    <3> QED BY <1>1, <1>5
  <2> HIDE DEF Fit, N
  <2> QED BY <2>1
<1>7. k[N] \in Seq(T)
  BY <1>1, <1>2
<1>8. Places(e, Only(s, S), s, S)
  BY <1>2, <1>6 DEF Places
<1> QED
  BY <1>2, <1>7, <1>8

\* What Only keeps: the members that are in S.
LEMMA OnlyIs ==
  ASSUME NEW T, NEW s \in Seq(T), NEW S
  PROVE  /\ Only(s, S) \in Seq(T)
         /\ ToSet(Only(s, S)) = ToSet(s) \cap S
<1>1. PICK e : Places(e, Only(s, S), s, S)
  BY OnlyPlaces
<1>2. Only(s, S) \in Seq(T)
  BY OnlyPlaces
<1>3. DOMAIN s = 1..Len(s) /\ DOMAIN Only(s, S) = 1..Len(Only(s, S))
  BY <1>2, LenProperties
<1> DEFINE o == Only(s, S)
<1>4. /\ \A n \in DOMAIN o : e[n] \in DOMAIN s /\ o[n] = s[e[n]] /\ s[e[n]] \in S
      /\ \A i \in DOMAIN s : s[i] \in S => \E n \in DOMAIN o : e[n] = i
  <2> HIDE DEF o
  <2> QED BY <1>1, <1>3 DEF Places, o
<1> HIDE DEF o
<1>5. ToSet(o) \subseteq ToSet(s) \cap S
  BY <1>4 DEF ToSet
<1>6. ToSet(s) \cap S \subseteq ToSet(o)
  <2> SUFFICES ASSUME NEW i \in DOMAIN s, s[i] \in S PROVE s[i] \in ToSet(o)
    BY DEF ToSet
  <2>1. PICK n \in DOMAIN o : e[n] = i
    BY <1>4
  <2> QED BY <1>4, <2>1 DEF ToSet
<1> QED
  BY <1>2, <1>5, <1>6 DEF o

\* Two comprehensions in a row are one.
LEMMA OnlyOfOnly ==
  ASSUME NEW T, NEW s \in Seq(T), NEW S, NEW U
  PROVE  Only(Only(s, S), U) = Only(s, S \cap U)
<1> DEFINE N == Len(s)
<1>1. N \in Nat /\ \A i \in 1..N : s[i] \in T
  BY LenProperties, ElementOfSeq
<1>2. PICK k \in [0..N -> Seq(T)] : Keeps(k, s, S) /\ Only(s, S) = k[N]
  BY OnlySteps
<1>3. PICK l \in [0..N -> Seq(T)] : Keeps(l, s, S \cap U) /\ Only(s, S \cap U) = l[N]
  BY OnlySteps
<1> DEFINE A == {n \in 0..N : Only(k[n], U) = l[n]}
<1>4. 0 \in A
  BY <1>1, <1>2, <1>3, OnlyEmpty DEF Keeps
<1>5. ASSUME NEW n \in 1..N, n - 1 \in A PROVE n \in A
  <2> HIDE DEF A
  <2>1. n \in 0..N /\ n - 1 \in 0..N /\ s[n] \in T /\ k[n - 1] \in Seq(T) /\ Only(k[n - 1], U) = l[n - 1]
    BY <1>1, <1>2, <1>5 DEF A
  <2>2. Only(Append(k[n - 1], s[n]), U)
          = IF s[n] \in U THEN Append(Only(k[n - 1], U), s[n]) ELSE Only(k[n - 1], U)
    <3>1. \A q \in Seq(T), x \in T :
            Only(Append(q, x), U) = IF x \in U THEN Append(Only(q, U), x) ELSE Only(q, U)
      BY OnlyAppend
    <3>2. k[n - 1] \in Seq(T) /\ s[n] \in T
      BY <2>1
    <3> QED BY <3>1, <3>2
  <2>3. /\ k[n] = IF s[n] \in S THEN Append(k[n - 1], s[n]) ELSE k[n - 1]
        /\ l[n] = IF s[n] \in S \cap U THEN Append(l[n - 1], s[n]) ELSE l[n - 1]
    BY <1>2, <1>3 DEF Keeps
  <2>4. Only(k[n], U) = l[n]
    <3>1. CASE s[n] \in S /\ s[n] \in U
      <4>1. k[n] = Append(k[n - 1], s[n]) /\ l[n] = Append(l[n - 1], s[n])
        BY <2>3, <3>1
      <4>2. Only(k[n], U) = Append(Only(k[n - 1], U), s[n])
        BY <2>2, <3>1, <4>1
      <4> QED BY <2>1, <4>1, <4>2, Zenon
    <3>2. CASE s[n] \in S /\ s[n] \notin U
      <4>1. k[n] = Append(k[n - 1], s[n]) /\ l[n] = l[n - 1]
        BY <2>3, <3>2
      <4>2. Only(k[n], U) = Only(k[n - 1], U)
        BY <2>2, <3>2, <4>1
      <4> QED BY <2>1, <4>1, <4>2, Zenon
    <3>3. CASE s[n] \notin S
      <4>1. k[n] = k[n - 1] /\ l[n] = l[n - 1]
        BY <2>3, <3>3
      <4> QED BY <2>1, <4>1, Zenon
    <3> QED BY <3>1, <3>2, <3>3
  <2> QED BY <2>1, <2>4 DEF A
<1>6. A = 0..N
  <2>1. A \in SUBSET (0..N)
    OBVIOUS
  <2> HIDE DEF A, N
  <2> QED BY <1>1, <1>4, <1>5, <2>1, UpTo
<1>7. N \in A
  <2> HIDE DEF A, N
  <2> QED BY <1>1, <1>6
<1> QED
  BY <1>2, <1>3, <1>7

\* What is kept of a list whose first c members are not in S and whose others are.
LEMMA OnlySuffix ==
  ASSUME NEW T, NEW s \in Seq(T), NEW S, NEW c \in 0..Len(s),
         \A i \in 1..c : s[i] \notin S, \A i \in (c + 1)..Len(s) : s[i] \in S
  PROVE  Only(s, S) = SubSeq(s, c + 1, Len(s))
<1> DEFINE N == Len(s)
<1>1. N \in Nat /\ \A i \in 1..N : s[i] \in T
  BY LenProperties, ElementOfSeq
<1>2. PICK k \in [0..N -> Seq(T)] : Keeps(k, s, S) /\ Only(s, S) = k[N]
  BY OnlySteps
<1> DEFINE A == {n \in 0..N : k[n] = SubSeq(s, c + 1, n)}
<1>3. 0 \in A
  <2>1. SubSeq(s, c + 1, 0) = <<>>
    BY <1>1, SubSeqEmpty
  <2> QED BY <1>1, <1>2, <2>1 DEF Keeps
<1>4. ASSUME NEW n \in 1..N, n - 1 \in A PROVE n \in A
  <2> HIDE DEF A
  <2>a. n \in 0..N /\ n - 1 \in 0..N /\ s[n] \in T
    BY <1>1
  <2>b. k[n - 1] = SubSeq(s, c + 1, n - 1)
    BY <1>4 DEF A
  <2>1. n \in 0..N /\ n - 1 \in 0..N /\ s[n] \in T /\ k[n - 1] \in Seq(T)
        /\ k[n - 1] = SubSeq(s, c + 1, n - 1)
    BY <1>2, <2>a, <2>b
  <2>2. k[n] = IF s[n] \in S THEN Append(k[n - 1], s[n]) ELSE k[n - 1]
    BY <1>2 DEF Keeps
  <2>3. CASE n <= c
    <3>1. SubSeq(s, c + 1, n - 1) = <<>> /\ SubSeq(s, c + 1, n) = <<>>
      BY <1>1, <2>3, SubSeqEmpty
    <3>2. k[n] = k[n - 1]
      BY <1>1, <2>2, <2>3
    <3> QED BY <2>1, <3>1, <3>2 DEF A
  <2>4. CASE n > c
    <3>1. SubSeq(s, c + 1, n) = SubSeq(s, c + 1, n - 1) \o <<s[n]>>
      <4>1. c + 1 \in 1..Len(s) /\ n \in (c + 1)..Len(s)
        BY <1>1, <2>4
      <4> QED BY <4>1, SubSeqRecursiveSecond
    <3>2. Append(k[n - 1], s[n]) = k[n - 1] \o <<s[n]>>
      BY <2>1, AppendIsConcat
    <3>3. k[n] = Append(k[n - 1], s[n])
      BY <1>1, <2>2, <2>4
    <3>4. k[n] = SubSeq(s, c + 1, n)
      BY <2>1, <3>1, <3>2, <3>3, Zenon
    <3> QED BY <2>1, <3>4 DEF A
  <2> QED BY <1>1, <2>3, <2>4
<1>5. A = 0..N
  <2>1. A \in SUBSET (0..N)
    OBVIOUS
  <2> HIDE DEF A, N
  <2> QED BY <1>1, <1>3, <1>4, <2>1, UpTo
<1>6. N \in A
  <2> HIDE DEF A, N
  <2> QED BY <1>1, <1>5
<1>7. k[N] = SubSeq(s, c + 1, N)
  BY <1>6
<1> QED
  BY <1>2, <1>7

-----------------------------------------------------------------------------
\* The members of a list.
LEMMA Members ==
  ASSUME NEW T, NEW s \in Seq(T)
  PROVE  /\ ToSet(s) \subseteq T
         /\ \A i \in 1..Len(s) : s[i] \in ToSet(s)
         /\ \A x \in ToSet(s) : \E i \in 1..Len(s) : s[i] = x
         /\ s # <<>> => ToSet(s) # {} /\ s[1] \in ToSet(s) /\ Len(s) \in Nat \ {0}
         /\ ToSet(<<>>) = {}
<1>1. DOMAIN s = 1..Len(s) /\ Len(s) \in Nat /\ \A i \in 1..Len(s) : s[i] \in T
  BY LenProperties, ElementOfSeq
<1>2. s # <<>> => Len(s) \in Nat \ {0}
  BY EmptySeq
<1>3. ToSet(<<>>) = {}
  BY DEF ToSet
<1> QED
  BY <1>1, <1>2, <1>3 DEF ToSet

\* The members of a concatenation.
LEMMA MembersOfBoth ==
  ASSUME NEW T, NEW s \in Seq(T), NEW t \in Seq(T)
  PROVE  s \o t \in Seq(T) /\ ToSet(s \o t) = ToSet(s) \cup ToSet(t)
<1>1. /\ s \o t \in Seq(T) /\ Len(s \o t) = Len(s) + Len(t)
      /\ \A i \in 1..(Len(s) + Len(t)) : (s \o t)[i] = IF i <= Len(s) THEN s[i] ELSE t[i - Len(s)]
  BY ConcatProperties
<1>2. Len(s) \in Nat /\ Len(t) \in Nat
  BY LenProperties
<1>3. ASSUME NEW x \in ToSet(s \o t) PROVE x \in ToSet(s) \cup ToSet(t)
  <2>1. PICK i \in 1..(Len(s) + Len(t)) : (s \o t)[i] = x
    BY <1>1, Members
  <2>2. (i <= Len(s) /\ i \in 1..Len(s)) \/ (~ (i <= Len(s)) /\ i - Len(s) \in 1..Len(t))
    BY <1>2
  <2> QED BY <1>1, <2>1, <2>2, Members
<1>4. ASSUME NEW x \in ToSet(s) PROVE x \in ToSet(s \o t)
  <2>1. PICK i \in 1..Len(s) : s[i] = x
    BY Members
  <2>2. i \in 1..Len(s \o t) /\ i <= Len(s) /\ i \in 1..(Len(s) + Len(t))
    BY <1>1, <1>2
  <2> QED BY <1>1, <2>1, <2>2, Members
<1>5. ASSUME NEW x \in ToSet(t) PROVE x \in ToSet(s \o t)
  <2>1. PICK i \in 1..Len(t) : t[i] = x
    BY Members
  <2>2. i + Len(s) \in 1..Len(s \o t) /\ ~ (i + Len(s) <= Len(s)) /\ (i + Len(s)) - Len(s) = i
        /\ i + Len(s) \in 1..(Len(s) + Len(t))
    BY <1>1, <1>2
  <2>3. (s \o t)[i + Len(s)] = x
    BY <1>1, <2>1, <2>2
  <2> QED BY <1>1, <2>2, <2>3, Members
<1> QED
  BY <1>1, <1>3, <1>4, <1>5

\* The members, the length and the places of a part of a list.
LEMMA MembersOfPart ==
  ASSUME NEW T, NEW s \in Seq(T), NEW m \in Nat \ {0}, NEW n \in Nat, n <= Len(s)
  PROVE  /\ SubSeq(s, m, n) \in Seq(T) /\ ToSet(SubSeq(s, m, n)) \subseteq ToSet(s)
         /\ Len(SubSeq(s, m, n)) = IF m <= n THEN n - m + 1 ELSE 0
         /\ \A i \in 1..(n - m + 1) : SubSeq(s, m, n)[i] = s[m + i - 1]
<1>1. Len(s) \in Nat
  BY LenProperties
<1>2. \A i \in m..n : s[i] \in T
  BY <1>1, ElementOfSeq
<1>3. /\ SubSeq(s, m, n) \in Seq(T)
      /\ Len(SubSeq(s, m, n)) = IF m <= n THEN n - m + 1 ELSE 0
      /\ \A i \in 1..(n - m + 1) : SubSeq(s, m, n)[i] = s[m + i - 1]
  BY <1>2, SubSeqProperties
<1>4. ASSUME NEW x \in ToSet(SubSeq(s, m, n)) PROVE x \in ToSet(s)
  <2>1. PICK i \in 1..Len(SubSeq(s, m, n)) : SubSeq(s, m, n)[i] = x
    BY <1>3, Members
  <2>2. i \in 1..(n - m + 1) /\ m + i - 1 \in 1..Len(s)
    BY <1>1, <1>3
  <2> QED BY <1>3, <2>1, <2>2, Members
<1> QED
  BY <1>3, <1>4

-----------------------------------------------------------------------------
\* Routing: the fences.

\* The sort keeps the candidates it is given.
LEMMA InsertedIs ==
  ASSUME NEW s \in Seq(Providers), NEW p \in Providers
  PROVE  Inserted(s, p) \in Seq(Providers) /\ ToSet(Inserted(s, p)) = ToSet(s) \cup {p}
<1> DEFINE A == {q \in Providers : Cost[q] <= Cost[p]}
           B == {q \in Providers : Cost[q] > Cost[p]}
           a == Only(s, A)
           b == Only(s, B)
<1>1. a \in Seq(Providers) /\ ToSet(a) = ToSet(s) \cap A
  <2> HIDE DEF A
  <2> QED BY OnlyIs
<1>2. b \in Seq(Providers) /\ ToSet(b) = ToSet(s) \cap B
  <2> HIDE DEF B
  <2> QED BY OnlyIs
<1>3. <<p>> \in Seq(Providers) /\ ToSet(<<p>>) = {p}
  <2>1. <<p>> \in Seq(Providers) /\ Len(<<p>>) = 1 /\ <<p>>[1] = p /\ DOMAIN <<p>> = {1}
    OBVIOUS
  <2> QED BY <2>1 DEF ToSet
<1>4. A \cup B = Providers /\ ToSet(s) \subseteq Providers
  BY Members, RoutingAssumption
<1>5. PICK c : c = <<p>>
  OBVIOUS
<1>6. Inserted(s, p) = (a \o c) \o b
  BY <1>5 DEF Inserted
<1> HIDE DEF a, b, A, B
<1>7. \A x, y \in Seq(Providers) : x \o y \in Seq(Providers) /\ ToSet(x \o y) = ToSet(x) \cup ToSet(y)
  BY MembersOfBoth
<1>8. c \in Seq(Providers) /\ ToSet(c) = {p}
  BY <1>3, <1>5
<1>9. a \o c \in Seq(Providers) /\ ToSet(a \o c) = ToSet(a) \cup ToSet(c)
  BY <1>1, <1>7, <1>8
<1>10. (a \o c) \o b \in Seq(Providers) /\ ToSet((a \o c) \o b) = ToSet(a \o c) \cup ToSet(b)
  BY <1>2, <1>7, <1>9
<1> QED
  BY <1>1, <1>2, <1>4, <1>6, <1>8, <1>9, <1>10

\* The sort by cost loses no candidate and invents none.
LEMMA CheapestIs ==
  ASSUME NEW s \in Seq(Providers)
  PROVE  Cheapest(s) \in Seq(Providers) /\ ToSet(Cheapest(s)) = ToSet(s)
<1> DEFINE N == Len(s)
           D == DOMAIN s
           P == Seq(Providers)
           Step1(l, n) == Inserted(l, s[n])
           step == [a \in P \X (1..N) |-> Step1(a[1], a[2])]
           G(i) == [u \in SUBSET D |-> IF u = {} THEN <<>> ELSE Step1(i[u \ {Max(u)}], Max(u))]
<1>1. N \in Nat /\ D = 1..N /\ \A i \in 1..N : s[i] \in Providers
  BY LenProperties, ElementOfSeq
<1>2. <<>> \in P
  BY EmptySeq
<1>3. \A l \in P, n \in 1..N : Step1(l, n) \in P /\ ToSet(Step1(l, n)) = ToSet(l) \cup {s[n]}
  BY <1>1, InsertedIs
<1> HIDE DEF Step1, N, P
<1>4. step \in [P \X (1..N) -> P]
  BY <1>3
<1>5. PICK h \in [SUBSET (1..N) -> P] : Folds(h, N, <<>>, step)
  <2> HIDE DEF step
  <2> QED BY <1>1, <1>2, <1>4, FoldExists
<1>6. \A l \in P, n \in 1..N : step[<<l, n>>] = Step1(l, n)
  <2> TAKE l \in P, n \in 1..N
  <2>1. <<l, n>> \in P \X (1..N) /\ <<l, n>>[1] = l /\ <<l, n>>[2] = n
    OBVIOUS
  <2> QED BY <2>1
<1> HIDE DEF step
<1>7. \A u \in SUBSET D : u # {} => Max(u) \in 1..N /\ u \ {Max(u)} \in SUBSET (1..N)
  <2> TAKE u \in SUBSET D
  <2> QED BY <1>1, LastOf
<1>8. h = G(h)
  <2>1. ASSUME NEW u \in SUBSET D
        PROVE  h[u] = IF u = {} THEN <<>> ELSE Step1(h[u \ {Max(u)}], Max(u))
    <3>1. h[u] = IF u = {} THEN <<>> ELSE step[<<h[u \ {Max(u)}], Max(u)>>]
      BY <1>1, <1>5 DEF Folds
    <3>2. CASE u = {}
      BY <3>1, <3>2
    <3>3. CASE u # {}
      <4>1. Max(u) \in 1..N /\ h[u \ {Max(u)}] \in P
        BY <1>5, <1>7, <3>3
      <4> QED BY <1>6, <3>1, <3>3, <4>1
    <3> QED BY <3>2, <3>3
  <2>2. h = [u \in SUBSET D |-> h[u]]
    BY <1>1, <1>5
  <2> QED BY <2>1, <2>2
<1> DEFINE it == CHOOSE i : i = G(i)
<1>9. it = G(it)
  <2> HIDE DEF G
  <2> QED BY <1>8
<1>10. Cheapest(s) = it[D]
  BY DEF Cheapest, FoldLeft, MapThenFoldSet, Step1
<1> HIDE DEF it
<1>11. \A u \in SUBSET D : it[u] = IF u = {} THEN <<>> ELSE Step1(it[u \ {Max(u)}], Max(u))
  BY <1>9
<1> HIDE DEF G
<1> DEFINE A == {n \in 0..N : it[1..n] \in P /\ ToSet(it[1..n]) = {s[i] : i \in 1..n}}
<1>12. 0 \in A
  <2>1. 1..0 = {} /\ 1..0 \in SUBSET D /\ 0 \in 0..N
    BY <1>1
  <2>2. it[1..0] = <<>>
    BY <1>11, <2>1
  <2>3. ToSet(<<>>) = {}
    BY DEF ToSet
  <2>4. {s[i] : i \in 1..0} = {}
    BY <2>1
  <2> QED BY <1>2, <2>1, <2>2, <2>3, <2>4
<1>13. ASSUME NEW n \in 1..N, n - 1 \in A PROVE n \in A
  <2>1. n \in Nat \ {0} /\ n \in 0..N /\ n - 1 \in 0..N
    BY <1>1
  <2>a. n \in 1..n
    BY <2>1
  <2>b. \A x \in 1..n : x \in 1..N
    BY <1>1, <2>1
  <2>2. n \in 1..n /\ (\A x \in 1..n : x \in 1..N) /\ 1..n # {}
    BY <2>a, <2>b
  <2>3. 1..n \in SUBSET D
    BY <1>1, <2>2
  <2>4. Max(1..n) = n /\ (1..n) \ {Max(1..n)} = 1..(n - 1)
    BY <2>1, LastOfAll
  <2>5. it[1..n] = Step1(it[1..(n - 1)], n)
    <3> HIDE DEF D
    <3> QED BY <1>11, <2>2, <2>3, <2>4
  <2>6. it[1..(n - 1)] \in P /\ ToSet(it[1..(n - 1)]) = {s[i] : i \in 1..(n - 1)}
    BY <1>13
  <2>7. it[1..n] \in P /\ ToSet(it[1..n]) = {s[i] : i \in 1..(n - 1)} \cup {s[n]}
    BY <1>3, <2>5, <2>6
  <2>8. 1..n = (1..(n - 1)) \cup {n}
    BY <2>1
  <2>9. {s[i] : i \in 1..n} = {s[i] : i \in 1..(n - 1)} \cup {s[n]}
    BY <2>8
  <2> QED BY <2>1, <2>7, <2>9
<1>14. A = 0..N
  <2>1. A \in SUBSET (0..N)
    OBVIOUS
  <2> HIDE DEF A
  <2> QED BY <1>1, <1>12, <1>13, <2>1, UpTo
<1>15. N \in A
  <2> HIDE DEF A
  <2> QED BY <1>1, <1>14
<1>16. it[1..N] \in P /\ ToSet(it[1..N]) = {s[i] : i \in 1..N}
  BY <1>15
<1> QED
  BY <1>1, <1>10, <1>16 DEF ToSet, P, D

\* The lesser of two numbers.
LEMMA LesserOf ==
  ASSUME NEW a \in Nat, NEW b \in Nat
  PROVE  Min({a, b}) = IF a <= b THEN a ELSE b
<1>1. \E x \in {a, b} : \A y \in {a, b} : y >= x
  OBVIOUS
<1>2. Min({a, b}) \in {a, b} /\ \A y \in {a, b} : y >= Min({a, b})
  BY <1>1 DEF Min
<1> QED
  BY <1>2

\* The least of a set of numbers is in it.
LEMMA LeastIs ==
  ASSUME NEW S \in SUBSET Nat, S # {}
  PROVE  Min(S) \in S
<1>1. PICK x \in S : \A y \in S : x <= y
  BY LeastOf
<1>2. \E z \in S : \A y \in S : y >= z
  BY <1>1
<1> QED
  BY <1>2 DEF Min

\* The first n candidates are candidates; the first one of some is one.
LEMMA UptoIs ==
  ASSUME NEW T, NEW s \in Seq(T), NEW n \in Nat
  PROVE  /\ Upto(s, n) \in Seq(T) /\ ToSet(Upto(s, n)) \subseteq ToSet(s)
         /\ n = 1 /\ s # <<>> => Upto(s, n) # <<>>
<1>1. Len(s) \in Nat
  BY LenProperties
<1>2. PICK m \in Nat : m = Min({n, Len(s)}) /\ m <= Len(s) /\ (n = 1 /\ Len(s) # 0 => m = 1)
  BY <1>1, LesserOf
<1>3. /\ SubSeq(s, 1, m) \in Seq(T) /\ ToSet(SubSeq(s, 1, m)) \subseteq ToSet(s)
      /\ Len(SubSeq(s, 1, m)) = IF 1 <= m THEN m - 1 + 1 ELSE 0
  <2>1. \A a \in Nat \ {0}, b \in Nat :
          b <= Len(s) => /\ SubSeq(s, a, b) \in Seq(T) /\ ToSet(SubSeq(s, a, b)) \subseteq ToSet(s)
                         /\ Len(SubSeq(s, a, b)) = IF a <= b THEN b - a + 1 ELSE 0
    BY MembersOfPart
  <2>2. 1 \in Nat \ {0} /\ m \in Nat /\ m <= Len(s)
    BY <1>2
  <2> QED BY <2>1, <2>2
<1>4. n = 1 /\ s # <<>> => Len(SubSeq(s, 1, m)) # 0
  BY <1>2, <1>3, EmptySeq
<1>5. n = 1 /\ s # <<>> => SubSeq(s, 1, m) # <<>>
  BY <1>4, EmptySeq
<1> QED
  BY <1>2, <1>3, <1>5 DEF Upto

\* A rotation neither loses a candidate nor invents one.
LEMMA RotatedIs ==
  ASSUME NEW s \in Seq(Providers), s # <<>>, NEW key \in Keys, rotation \in [Keys -> Nat]
  PROVE  /\ Rotated(s, key) \in Seq(Providers) /\ ToSet(Rotated(s, key)) \subseteq ToSet(s)
         /\ Rotated(s, key) # <<>>
<1>1. Len(s) \in Nat \ {0} /\ rotation[key] \in Nat
  BY EmptySeq
<1>2. PICK i \in 0..(Len(s) - 1) : i = rotation[key] % Len(s)
  BY <1>1
<1> DEFINE a == SubSeq(s, i + 1, Len(s))
           b == SubSeq(s, 1, i)
<1>3. i + 1 \in Nat \ {0} /\ i \in Nat /\ i <= Len(s) /\ i + 1 <= Len(s) /\ Len(s) \in Nat
  BY <1>1, <1>2
<1>4. /\ a \in Seq(Providers) /\ ToSet(a) \subseteq ToSet(s)
      /\ Len(a) = Len(s) - (i + 1) + 1
  BY <1>3, MembersOfPart
<1>5. b \in Seq(Providers) /\ ToSet(b) \subseteq ToSet(s)
  BY <1>3, MembersOfPart
<1> HIDE DEF a, b
<1>6. a \o b \in Seq(Providers) /\ ToSet(a \o b) = ToSet(a) \cup ToSet(b)
  BY <1>4, <1>5, MembersOfBoth
<1>7. a # <<>>
  BY <1>3, <1>4, EmptySeq
<1>8. a \o b # <<>>
  BY <1>4, <1>5, <1>7, ConcatEqualIffEmpty
<1>9. Rotated(s, key) = a \o b
  BY <1>2 DEF Rotated, a, b
<1> QED
  BY <1>4, <1>5, <1>6, <1>8, <1>9

\* The instances the operator has not suspended.
On == {p \in Providers : registry[p] = "on"}

\* The sovereign list: the operator's own instances that are there.
LEMMA LocalIdsAre ==
  /\ LocalIds \in Seq(Providers) /\ ToSet(LocalIds) = Local \cap Present
<1>1. Listing \in Seq(Providers) /\ ToSet(Listing) = Providers
  BY RoutingAssumption DEF Providers
<1>2. LocalIds \in Seq(Providers) /\ ToSet(LocalIds) = ToSet(Listing) \cap (Local \cap Present)
  BY <1>1, OnlyIs DEF LocalIds
<1> QED
  BY <1>1, <1>2 DEF Present

\* The layers in front of the strategy: what each of them leaves.
LEMMA LayersAre ==
  ASSUME NEW run \in Run, run.task \in Tasks
  PROVE  /\ Raw(run) \in Seq(Providers) /\ Kept(run) \in Seq(Providers)
         /\ Available(run) \in Seq(Providers) /\ Matched(run) \in Seq(Providers)
         /\ HealthyOf(run) \in Seq(Providers)
         /\ ToSet(Raw(run)) = IF run.secret THEN Local \cap Present ELSE ToSet(Policy[run.task].candidates)
         /\ ToSet(Kept(run)) = IF run.degraded THEN ToSet(Raw(run)) \cap Free \cap Present ELSE ToSet(Raw(run))
         /\ ToSet(Available(run)) = ToSet(Kept(run)) \cap On
         /\ ToSet(Matched(run)) = ToSet(Available(run)) \cap {p \in Providers : Matches(Policy[run.task], p)}
         /\ ToSet(HealthyOf(run)) = ToSet(Matched(run)) \cap {p \in Providers : IsHealthy(p)}
<1>1. Raw(run) \in Seq(Providers)
  BY LocalIdsAre, RoutingAssumption DEF Raw
<1>2. ToSet(Raw(run)) = IF run.secret THEN Local \cap Present ELSE ToSet(Policy[run.task].candidates)
  BY LocalIdsAre DEF Raw
<1>3. /\ Kept(run) \in Seq(Providers)
      /\ ToSet(Kept(run)) = IF run.degraded THEN ToSet(Raw(run)) \cap Free \cap Present ELSE ToSet(Raw(run))
  <2>1. /\ Only(Raw(run), Free \cap Present) \in Seq(Providers)
        /\ ToSet(Only(Raw(run), Free \cap Present)) = ToSet(Raw(run)) \cap (Free \cap Present)
    BY <1>1, OnlyIs
  <2> QED BY <1>1, <2>1 DEF Kept
<1>4. Available(run) \in Seq(Providers) /\ ToSet(Available(run)) = ToSet(Kept(run)) \cap On
  BY <1>3, OnlyIs DEF Available, On
<1> DEFINE M == {p \in Providers : Matches(Policy[run.task], p)}
           H == {p \in Providers : IsHealthy(p)}
<1>5. Matched(run) = Only(Available(run), M) /\ HealthyOf(run) = Only(Matched(run), H)
  BY DEF Matched, HealthyOf
<1> HIDE DEF M, H
<1>6. Matched(run) \in Seq(Providers) /\ ToSet(Matched(run)) = ToSet(Available(run)) \cap M
  BY <1>4, <1>5, OnlyIs
<1>7. HealthyOf(run) \in Seq(Providers) /\ ToSet(HealthyOf(run)) = ToSet(Matched(run)) \cap H
  BY <1>5, <1>6, OnlyIs
<1> QED
  BY <1>1, <1>2, <1>3, <1>4, <1>6, <1>7 DEF M, H

\* The rotation is counted under a key the tracker knows.
LEMMA AvailableIsKey ==
  ASSUME NEW run \in Run, run.task \in Tasks
  PROVE  Available(run) \in Keys
<1> DEFINE C == {Policy[t].candidates : t \in Tasks} \cup {Listing}
<1>1. PICK c \in C : \E S \in SUBSET Providers : Raw(run) = Only(c, S) \/ Raw(run) = c
  <2>1. Local \cap Present \in SUBSET Providers
    BY DEF Present
  <2> QED BY <2>1 DEF Raw, LocalIds
<1>2. c \in Seq(Providers) /\ On \in SUBSET Providers
  BY RoutingAssumption DEF On
<1> HIDE DEF C
<1>3. \A S \in SUBSET Providers, U \in SUBSET Providers :
        Only(Only(c, S), U) = Only(c, S \cap U) /\ S \cap U \in SUBSET Providers
  <2> TAKE S \in SUBSET Providers, U \in SUBSET Providers
  <2>1. Only(Only(c, S), U) = Only(c, S \cap U)
    BY <1>2, OnlyOfOnly
  <2> QED BY <2>1
<1>4. PICK F \in SUBSET Providers : F = Free \cap Present
  BY DEF Present
<1>5. \E S \in SUBSET Providers : Kept(run) = Only(c, S) \/ Kept(run) = c
  <2>1. CASE run.degraded
    <3>1. Kept(run) = Only(Raw(run), F)
      BY <1>4, <2>1 DEF Kept
    <3>2. PICK S \in SUBSET Providers : Raw(run) = Only(c, S) \/ Raw(run) = c
      BY <1>1
    <3>3. S \cap F \in SUBSET Providers /\ Only(Only(c, S), F) = Only(c, S \cap F)
      BY <1>3
    <3>4. Kept(run) = Only(c, S \cap F) \/ Kept(run) = Only(c, F)
      BY <3>1, <3>2, <3>3, Zenon
    <3> QED BY <3>3, <3>4
  <2>2. CASE ~ run.degraded
    <3>1. Kept(run) = Raw(run)
      BY <2>2 DEF Kept
    <3> QED BY <1>1, <3>1
  <2> QED BY <2>1, <2>2
<1>6. Available(run) = Only(Kept(run), On)
  BY DEF Available, On
<1>7. \E S \in SUBSET Providers : Available(run) = Only(c, S)
  <2>1. PICK S \in SUBSET Providers : Kept(run) = Only(c, S) \/ Kept(run) = c
    BY <1>5
  <2>2. S \cap On \in SUBSET Providers /\ Only(Only(c, S), On) = Only(c, S \cap On)
    BY <1>2, <1>3
  <2>3. Available(run) = Only(c, S \cap On) \/ Available(run) = Only(c, On)
    BY <1>6, <2>1, <2>2, Zenon
  <2> QED BY <1>2, <2>2, <2>3
<1> QED
  BY <1>7 DEF Keys, C

\* What the router orders was available, and it orders nothing only where nothing that matches is healthy.
LEMMA OrderedIs ==
  ASSUME NEW run \in Run, run.task \in Tasks, rotation \in [Keys -> Nat]
  PROVE  /\ Ordered(run) \in Seq(Providers) /\ ToSet(Ordered(run)) \subseteq ToSet(Available(run))
         /\ Ordered(run) = <<>> /\ Matched(run) # <<>> => HealthyOf(run) = <<>>
<1> DEFINE ps == HealthyOf(run)
           strategy == Policy[run.task].strategy
<1>1. /\ ps \in Seq(Providers) /\ Available(run) \in Seq(Providers) /\ Matched(run) \in Seq(Providers)
      /\ ToSet(ps) \subseteq ToSet(Matched(run)) /\ ToSet(Matched(run)) \subseteq ToSet(Available(run))
  BY LayersAre
<1> HIDE DEF ps
<1>2. CASE strategy = "fixed"
  <2>1. Ordered(run) = Upto(Available(run), 1)
    BY <1>2 DEF Ordered
  <2>2. /\ Upto(Available(run), 1) \in Seq(Providers) /\ ToSet(Upto(Available(run), 1)) \subseteq ToSet(Available(run))
        /\ Available(run) # <<>> => Upto(Available(run), 1) # <<>>
    BY <1>1, UptoIs
  <2>3. Available(run) = <<>> => ToSet(Matched(run)) = {}
    BY <1>1, Members
  <2>4. Matched(run) # <<>> => ToSet(Matched(run)) # {}
    BY <1>1, Members
  <2> QED BY <2>1, <2>2, <2>3, <2>4
<1>3. CASE strategy = "round_robin"
  <2>1. Ordered(run) = IF ps = <<>> THEN ps ELSE Rotated(ps, Available(run))
    BY <1>3 DEF Ordered, ps
  <2>2. ps # <<>> => /\ Rotated(ps, Available(run)) \in Seq(Providers)
                     /\ ToSet(Rotated(ps, Available(run))) \subseteq ToSet(ps)
                     /\ Rotated(ps, Available(run)) # <<>>
    BY <1>1, AvailableIsKey, RotatedIs
  <2> QED BY <1>1, <2>1, <2>2 DEF ps
<1>4. CASE strategy = "cost_optimized"
  <2>1. Ordered(run) = Cheapest(ps)
    BY <1>4 DEF Ordered, ps
  <2>2. Cheapest(ps) \in Seq(Providers) /\ ToSet(Cheapest(ps)) = ToSet(ps)
    BY <1>1, CheapestIs
  <2>3. Cheapest(ps) = <<>> => ToSet(Cheapest(ps)) = {}
    BY <2>2, Members
  <2>4. ps # <<>> => ToSet(ps) # {}
    BY <1>1, Members
  <2> QED BY <1>1, <2>1, <2>2, <2>3, <2>4 DEF ps
<1>5. CASE strategy \notin {"fixed", "round_robin", "cost_optimized"}
  <2>1. Ordered(run) = ps
    BY <1>5 DEF Ordered, ps
  <2> QED BY <1>1, <2>1 DEF ps
<1> QED
  BY <1>2, <1>3, <1>4, <1>5

\* A run holds what its plan was fenced to, and tries nothing else.
PlanFenced(run) ==
  /\ run.secret => ToSet(run.plan) \subseteq Local
  /\ run.degraded => ToSet(run.plan) \subseteq Free
  /\ run.secret \/ run.degraded => run.over = NoProvider
\* What a run has at each phase.
Placed(run) ==
  /\ run.pc # "idle" => run.task \in Tasks
  /\ run.pc \in {"idle", "queued", "loaded", "gated", "deferred"} => run.next = 1
  /\ run.pc \in {"trying", "streaming", "overflowing"} => PlanFenced(run)
  /\ run.pc = "streaming" => run.next <= Len(run.plan) /\ run.at = run.plan[run.next]
  /\ run.pc = "overflowing" => run.at = run.over /\ run.at \in Providers

\* The invariant: the types, what each run has, and the pin of an errand.
RoutingInv ==
  /\ RoutingTypeOK
  /\ \A r \in RunSlots : Placed(runs[r])
  /\ errand.fenced => errand.at \in Local

\* The runs' part of the invariant, and the rest of the types.
RunsOK ==
  /\ runs \in [RunSlots -> Run]
  /\ \A r \in RunSlots : runs[r].next <= Len(runs[r].plan) + 1 /\ Placed(runs[r])
TrackerOK ==
  /\ cool \in [Providers -> Up..MaxCool]
  /\ registry \in [Providers -> {"on", "off", "gone"}]
  /\ rotation \in [Keys -> Nat]
  /\ led \in Providers \cup {NoProvider}
BudgetOK == spent \in 0..DailyCap /\ midnight \in 1..DayLength
ErrandOK ==
  /\ errand \in [at : Providers \cup {NoProvider}, fenced : BOOLEAN]
  /\ errand.fenced => errand.at \in Local

LEMMA RoutingParts ==
  RoutingInv <=> RunsOK /\ TrackerOK /\ BudgetOK /\ ErrandOK
BY Zenon DEF RoutingInv, RoutingTypeOK, RunsOK, TrackerOK, BudgetOK, ErrandOK

LEMMA RoutingPartsNext ==
  RoutingInv' <=> RunsOK' /\ TrackerOK' /\ BudgetOK' /\ ErrandOK'
BY Zenon DEF RoutingInv, RoutingTypeOK, RunsOK, TrackerOK, BudgetOK, ErrandOK

LEMMA Ticks ==
  /\ MaxCool \in Nat /\ DayLength \in Nat /\ DailyCap \in Nat /\ MaxCool + DayLength \in Nat
  /\ 0..MaxCool \subseteq 0..MaxCool + DayLength /\ 1..DayLength \subseteq 0..MaxCool + DayLength
  /\ 0 \in 0..MaxCool + DayLength
BY RoutingAssumption

\* One row is replaced by another that is in its place.
LEMMA Replaced ==
  ASSUME RunsOK, NEW r \in RunSlots, NEW x \in Run, x.next <= Len(x.plan) + 1, Placed(x),
         runs' = [runs EXCEPT ![r] = x]
  PROVE  RunsOK'
<1>1. runs' \in [RunSlots -> Run] /\ \A q \in RunSlots : runs'[q] = IF q = r THEN x ELSE runs[q]
  BY DEF RunsOK
<1> QED
  BY <1>1 DEF RunsOK

\* A vacant row, a deferred one and a queued one are in their place.
LEMMA VacantIs ==
  /\ Vacant \in Run /\ Vacant.next <= Len(Vacant.plan) + 1 /\ Placed(Vacant)
  /\ \A t \in Tasks : \A w \in 0..MaxCool + DayLength :
       LET x == [Vacant EXCEPT !.pc = "deferred", !.task = t, !.wait = w]
           y == [Vacant EXCEPT !.pc = "queued", !.task = t]
       IN  /\ x \in Run /\ x.next <= Len(x.plan) + 1 /\ Placed(x)
           /\ y \in Run /\ y.next <= Len(y.plan) + 1 /\ Placed(y)
<1>1. <<>> \in Seq(Providers) /\ Len(<<>>) = 0
  BY EmptySeq
<1>2. Vacant \in Run
  BY <1>1, Ticks DEF Vacant, Run, RunPcs
<1>3. Vacant.next = 1 /\ Vacant.plan = <<>> /\ Vacant.pc = "idle"
  BY DEF Vacant
<1>4. Vacant.next <= Len(Vacant.plan) + 1 /\ Placed(Vacant)
  BY <1>1, <1>3 DEF Placed
<1>5. ASSUME NEW t \in Tasks, NEW w \in 0..MaxCool + DayLength,
             NEW x, x = [Vacant EXCEPT !.pc = "deferred", !.task = t, !.wait = w]
      PROVE  x \in Run /\ x.next <= Len(x.plan) + 1 /\ Placed(x)
  <2>1. x \in Run /\ x.pc = "deferred" /\ x.task = t /\ x.next = 1 /\ x.plan = <<>>
    BY <1>2, <1>3, <1>5 DEF Run, RunPcs
  <2> QED BY <1>1, <2>1 DEF Placed
<1>6. ASSUME NEW t \in Tasks, NEW x, x = [Vacant EXCEPT !.pc = "queued", !.task = t]
      PROVE  x \in Run /\ x.next <= Len(x.plan) + 1 /\ Placed(x)
  <2>1. x \in Run /\ x.pc = "queued" /\ x.task = t /\ x.next = 1 /\ x.plan = <<>>
    BY <1>2, <1>3, <1>6 DEF Run, RunPcs
  <2> QED BY <1>1, <2>1 DEF Placed
<1> QED
  BY <1>2, <1>4, <1>5, <1>6

\* A deferral keeps the rows in their place; so do an end and a new start.
LEMMA Deferred ==
  ASSUME RunsOK, NEW r \in RunSlots, runs[r].task \in Tasks,
         NEW ticks \in 0..MaxCool + DayLength, Defer(r, ticks)
  PROVE  RunsOK'
<1>1. PICK x : x = [Vacant EXCEPT !.pc = "deferred", !.task = runs[r].task, !.wait = ticks]
  OBVIOUS
<1>2. x \in Run /\ x.next <= Len(x.plan) + 1 /\ Placed(x)
  BY <1>1, VacantIs
<1>3. runs' = [runs EXCEPT ![r] = x]
  BY <1>1 DEF Defer
<1> QED
  BY <1>2, <1>3, Replaced

LEMMA Ends ==
  ASSUME RunsOK, NEW r \in RunSlots, End(r)
  PROVE  RunsOK'
<1>1. runs' = [runs EXCEPT ![r] = Vacant]
  BY DEF End
<1> QED
  BY <1>1, VacantIs, Replaced

LEMMA Requeues ==
  ASSUME RunsOK, NEW r \in RunSlots, NEW t \in Tasks,
         runs' = [runs EXCEPT ![r] = [Vacant EXCEPT !.pc = "queued", !.task = t]]
  PROVE  RunsOK'
<1>1. PICK x : x = [Vacant EXCEPT !.pc = "queued", !.task = t]
  OBVIOUS
<1>2. PICK w : w \in 0..MaxCool + DayLength
  BY Ticks
<1>3. x \in Run /\ x.next <= Len(x.plan) + 1 /\ Placed(x)
  BY <1>1, <1>2, VacantIs
<1> QED
  BY <1>1, <1>3, Replaced

\* Reading a cooldown, which may expire it, keeps the tracker's type.
LEMMA CheckedIs ==
  ASSUME TrackerOK, NEW ps
  PROVE  Checked(ps) \in [Providers -> Up..MaxCool]
<1>1. Up \in Up..MaxCool
  BY Ticks DEF Up
<1> QED
  BY <1>1 DEF Checked, TrackerOK

\* The earliest reset of some instances is a time a deferral can wait.
LEMMA ResetsAre ==
  ASSUME TrackerOK, NEW ps \in SUBSET Providers
  PROVE  /\ Resets(ps) \subseteq 0..MaxCool
         /\ Resets(ps) # {} => Min(Resets(ps)) \in 0..MaxCool + DayLength
<1>1. Resets(ps) \subseteq 0..MaxCool
  <2>1. \A q \in ps : cool[q] \in Up..MaxCool
    BY DEF TrackerOK
  <2>2. \A q \in ps : cool[q] # Up => cool[q] \in 0..MaxCool
    BY <2>1, Ticks DEF Up
  <2> QED BY <2>2 DEF Resets
<1>2. Resets(ps) # {} => Min(Resets(ps)) \in Resets(ps)
  BY <1>1, LeastIs
<1> QED
  BY <1>1, <1>2, Ticks

\* What is spent never counts past the cap.
LEMMA SpendIs ==
  ASSUME BudgetOK, NEW p \in Providers, Spends(p)
  PROVE  spent' \in 0..DailyCap
<1>1. PICK n \in Nat : n = spent + IF p \in Free THEN 0 ELSE Cost[p]
  BY RoutingAssumption DEF BudgetOK
<1>2. spent' = Min({n, DailyCap})
  BY <1>1 DEF Spends, Capped
<1>3. Min({n, DailyCap}) = IF n <= DailyCap THEN n ELSE DailyCap
  BY Ticks, LesserOf
<1> QED
  BY <1>2, <1>3, Ticks

\* The instance a confidential errand is pinned to is the operator's own.
LEMMA LocalFirst ==
  ASSUME LocalIds # <<>>
  PROVE  LocalIds[1] \in Local \cap Providers
BY LocalIdsAre, Members, RoutingAssumption DEF Present

\* The actions of a run, one group a lemma.
LEMMA PlanKeeps ==
  ASSUME RoutingInv, NEW r \in RunSlots, Plan(r)
  PROVE  RunsOK' /\ TrackerOK'
<1> DEFINE run == runs[r]
           order == Ordered(run)
<1>1. RunsOK /\ TrackerOK /\ BudgetOK /\ ErrandOK
  BY RoutingParts
<1>2. run \in Run /\ run.task \in Tasks /\ run.pc = "gated" /\ run.next = 1 /\ rotation \in [Keys -> Nat]
  BY <1>1 DEF Plan, RunsOK, Placed, TrackerOK
<1>3. PICK p : p = Upto(order, Capacity(Policy[run.task]))
  OBVIOUS
<1>4. /\ order \in Seq(Providers) /\ ToSet(order) \subseteq ToSet(Available(run)) /\ order # <<>>
      /\ Available(run) \in Keys
  BY <1>2, OrderedIs, AvailableIsKey DEF Plan
<1>5. Capacity(Policy[run.task]) \in Nat
  BY <1>2, RoutingAssumption DEF Capacity
<1>6. p \in Seq(Providers) /\ ToSet(p) \subseteq ToSet(Available(run))
  <2> HIDE DEF order, run
  <2> QED BY <1>3, <1>4, <1>5, UptoIs
<1>7. /\ run.secret => ToSet(Available(run)) \subseteq Local
      /\ run.degraded => ToSet(Available(run)) \subseteq Free
  BY <1>2, LayersAre
<1>8. PICK x : x = [run EXCEPT !.pc = "trying", !.over = Overflow(run), !.plan = p]
  OBVIOUS
<1>9. Overflow(run) \in Providers \cup {NoProvider} /\ (run.secret \/ run.degraded => Overflow(run) = NoProvider)
  BY <1>2, RoutingAssumption DEF Overflow
<1> HIDE DEF run, order
<1>10. /\ x \in Run /\ x.pc = "trying" /\ x.over = Overflow(run) /\ x.plan = p /\ x.next = 1
       /\ x.task = run.task /\ x.secret = run.secret /\ x.degraded = run.degraded
  BY <1>2, <1>6, <1>8, <1>9 DEF Run, RunPcs
<1>11. Placed(x) /\ x.next <= Len(x.plan) + 1
  <2>1. Len(p) \in Nat
    BY <1>6, LenProperties
  <2> QED BY <1>2, <1>6, <1>7, <1>9, <1>10, <2>1 DEF Placed, PlanFenced
<1>12. runs' = [runs EXCEPT ![r] = x]
  BY <1>3, <1>8 DEF Plan, run, order
<1>13. RunsOK'
  BY <1>1, <1>10, <1>11, <1>12, Replaced
<1>14. /\ cool' \in [Providers -> Up..MaxCool]
       /\ UNCHANGED registry
  <2>1. PICK ps : cool' = Checked(ps)
    BY DEF Plan
  <2> QED BY <1>1, <2>1, CheckedIs DEF Plan
<1>15. rotation' \in [Keys -> Nat] /\ led' \in Providers \cup {NoProvider}
  <2>1. CASE Policy[run.task].strategy = "round_robin"
    <3>1. rotation' = Rotation(Available(run), Len(order)) /\ led' = order[1]
      BY <2>1 DEF Plan, run, order
    <3>2. Len(order) \in Nat \ {0} /\ order[1] \in ToSet(order) /\ ToSet(order) \subseteq Providers
      BY <1>4, Members
    <3>3. (rotation[Available(run)] % Len(order)) + 1 \in Nat
      BY <1>2, <1>4, <3>2
    <3>4. rotation' \in [Keys -> Nat]
      BY <1>2, <3>1, <3>3 DEF Rotation
    <3> QED BY <3>1, <3>2, <3>4
  <2>2. CASE Policy[run.task].strategy # "round_robin"
    <3>1. UNCHANGED <<rotation, led>>
      BY <2>2 DEF Plan, run
    <3> QED BY <1>1, <3>1 DEF TrackerOK
  <2> QED BY <2>1, <2>2
<1> QED
  BY <1>1, <1>13, <1>14, <1>15 DEF TrackerOK

\* Where candidates match and none is healthy, the earliest reset is a time to come.
LEMMA CoolingHasReset ==
  ASSUME RoutingInv, NEW r \in RunSlots, runs[r].pc = "gated", CoolingOnly(runs[r])
  PROVE  Min(Resets(ToSet(Matched(runs[r])))) \in 0..MaxCool + DayLength
<1> DEFINE run == runs[r]
<1>1. RunsOK /\ TrackerOK
  BY RoutingParts
<1>2. run \in Run /\ run.task \in Tasks /\ rotation \in [Keys -> Nat]
  BY <1>1 DEF RunsOK, Placed, TrackerOK
<1>3. Ordered(run) = <<>> /\ Matched(run) # <<>>
  BY DEF CoolingOnly
<1> HIDE DEF run
<1>4. HealthyOf(run) = <<>>
  BY <1>2, <1>3, OrderedIs
<1>5. /\ Matched(run) \in Seq(Providers) /\ ToSet(Matched(run)) # {} /\ ToSet(Matched(run)) \subseteq Providers
      /\ ToSet(HealthyOf(run)) = ToSet(Matched(run)) \cap {p \in Providers : IsHealthy(p)}
      /\ ToSet(HealthyOf(run)) = {}
  BY <1>2, <1>3, <1>4, LayersAre, Members
<1>6. PICK p \in ToSet(Matched(run)) : p \in Providers /\ ~ IsHealthy(p)
  BY <1>5
<1>7. cool[p] # Up
  BY <1>1, <1>6 DEF IsHealthy, Up, TrackerOK
<1>8. Resets(ToSet(Matched(run))) # {}
  BY <1>6, <1>7 DEF Resets
<1> QED
  BY <1>1, <1>5, <1>8, ResetsAre DEF run

LEMMA GateKeeps ==
  ASSUME RoutingInv, NEW r \in RunSlots, DeferForCooling(r) \/ DeferForBudget(r) \/ FailUnroutable(r)
  PROVE  RunsOK' /\ TrackerOK'
<1>1. RunsOK /\ TrackerOK /\ BudgetOK
  BY RoutingParts
<1>2. runs[r].pc = "gated" /\ runs[r].task \in Tasks
  BY <1>1 DEF RunsOK, Placed, DeferForCooling, DeferForBudget, FailUnroutable
<1>3. TrackerOK'
  <2>1. cool' = cool \/ \E ps : cool' = Checked(ps)
    BY DEF DeferForCooling, DeferForBudget, FailUnroutable, health
  <2>2. cool' \in [Providers -> Up..MaxCool]
    BY <1>1, <2>1, CheckedIs DEF TrackerOK
  <2>3. UNCHANGED <<registry, rotation, led>>
    BY DEF DeferForCooling, DeferForBudget, FailUnroutable, health
  <2> QED BY <1>1, <2>2, <2>3 DEF TrackerOK
<1>4. CASE DeferForCooling(r)
  <2>1. PICK n \in 0..MaxCool + DayLength : n = Min(Resets(ToSet(Matched(runs[r]))))
    BY <1>2, <1>4, CoolingHasReset DEF DeferForCooling
  <2>2. Defer(r, n)
    BY <1>4, <2>1 DEF DeferForCooling
  <2> QED BY <1>1, <1>2, <1>3, <2>2, Deferred
<1>5. CASE DeferForBudget(r)
  <2>1. PICK n \in 0..MaxCool + DayLength : n = midnight
    BY <1>1, Ticks DEF BudgetOK
  <2>2. Defer(r, n)
    BY <1>5, <2>1 DEF DeferForBudget
  <2> QED BY <1>1, <1>2, <1>3, <2>2, Deferred
<1>6. CASE FailUnroutable(r)
  BY <1>1, <1>3, <1>6, Ends DEF FailUnroutable
<1> QED
  BY <1>4, <1>5, <1>6

LEMMA LoadKeeps ==
  ASSUME RunsOK, NEW r \in RunSlots, LoadRun(r) \/ CheckBudget(r)
  PROVE  RunsOK'
<1>1. runs[r] \in Run /\ Placed(runs[r]) /\ runs[r].next <= Len(runs[r].plan) + 1
  BY DEF RunsOK
<1>2. PICK x \in Run : /\ runs' = [runs EXCEPT ![r] = x] /\ x.pc \in {"loaded", "gated"}
                       /\ x.task = runs[r].task /\ x.next = runs[r].next /\ x.plan = runs[r].plan
  <2>1. CASE LoadRun(r)
    <3>1. PICK secret \in BOOLEAN : runs' = [runs EXCEPT ![r].pc = "loaded", ![r].secret = secret]
      BY <2>1 DEF LoadRun
    <3>2. PICK x : x = [runs[r] EXCEPT !.pc = "loaded", !.secret = secret]
      OBVIOUS
    <3>3. /\ x \in Run /\ x.pc = "loaded" /\ x.task = runs[r].task /\ x.next = runs[r].next
          /\ x.plan = runs[r].plan
      BY <1>1, <3>2 DEF Run, RunPcs
    <3>4. runs' = [runs EXCEPT ![r] = x]
      BY <3>1, <3>2
    <3> QED BY <3>3, <3>4
  <2>2. CASE CheckBudget(r)
    <3> DEFINE late == (spent >= DailyCap)
    <3>a. late \in BOOLEAN
      OBVIOUS
    <3>1. runs' = [runs EXCEPT ![r].pc = "gated", ![r].degraded = late]
      BY <2>2 DEF CheckBudget
    <3> HIDE DEF late
    <3>2. PICK x : x = [runs[r] EXCEPT !.pc = "gated", !.degraded = late]
      OBVIOUS
    <3>3. /\ x \in Run /\ x.pc = "gated" /\ x.task = runs[r].task /\ x.next = runs[r].next
          /\ x.plan = runs[r].plan
      BY <1>1, <3>a, <3>2 DEF Run, RunPcs
    <3>4. runs' = [runs EXCEPT ![r] = x]
      BY <3>1, <3>2
    <3> QED BY <3>3, <3>4
  <2> QED BY <2>1, <2>2
<1>3. runs[r].pc \in {"queued", "loaded"}
  BY DEF LoadRun, CheckBudget
<1>4. Placed(x) /\ x.next <= Len(x.plan) + 1
  BY <1>1, <1>2, <1>3 DEF Placed
<1> QED
  BY <1>2, <1>4, Replaced

LEMMA TryKeeps ==
  ASSUME RunsOK, NEW r \in RunSlots, Try(r)
  PROVE  RunsOK'
<1> DEFINE run == runs[r]
<1>1. run \in Run /\ Placed(run) /\ run.pc = "trying" /\ run.next <= Len(run.plan)
  BY DEF RunsOK, Try
<1>2. Len(run.plan) \in Nat /\ run.next \in 1..Len(run.plan) /\ run.plan \in Seq(Providers)
  <2>1. run.plan \in Seq(Providers) /\ run.next \in Nat \ {0}
    BY <1>1 DEF Run
  <2> QED BY <1>1, <2>1, LenProperties
<1>3. run.plan[run.next] \in Providers
  BY <1>2, ElementOfSeq
<1>4. PICK x : x = IF run.plan[run.next] \in Present
                     THEN [run EXCEPT !.pc = "streaming", !.at = run.plan[run.next]]
                     ELSE [run EXCEPT !.next = run.next + 1]
  OBVIOUS
<1>5. runs' = [runs EXCEPT ![r] = x]
  BY <1>4 DEF Try
<1> HIDE DEF run
<1>6. x \in Run /\ x.next <= Len(x.plan) + 1 /\ Placed(x)
  <2>1. CASE run.plan[run.next] \in Present
    <3>1. /\ x \in Run /\ x.pc = "streaming" /\ x.at = run.plan[run.next] /\ x.task = run.task
          /\ x.secret = run.secret /\ x.degraded = run.degraded /\ x.plan = run.plan
          /\ x.over = run.over /\ x.next = run.next
      BY <1>1, <1>3, <1>4, <2>1 DEF Run, RunPcs
    <3> QED BY <1>1, <1>2, <3>1 DEF Placed, PlanFenced
  <2>2. CASE run.plan[run.next] \notin Present
    <3>a. PICK n \in Nat \ {0} : n = run.next + 1
      BY <1>2
    <3>b. x = [run EXCEPT !.next = n]
      BY <1>4, <2>2, <3>a
    <3>1. /\ x \in Run /\ x.pc = "trying" /\ x.task = run.task
          /\ x.secret = run.secret /\ x.degraded = run.degraded /\ x.plan = run.plan
          /\ x.over = run.over /\ x.next = run.next + 1
      BY <1>1, <3>a, <3>b DEF Run, RunPcs
    <3> QED BY <1>1, <1>2, <3>1 DEF Placed, PlanFenced
  <2> QED BY <2>1, <2>2
<1> QED
  BY <1>5, <1>6, Replaced

\* The next candidate of the plan, rate limited or not.
LEMMA AdvanceKeeps ==
  ASSUME RunsOK, NEW r \in RunSlots, runs[r].pc = "streaming",
         runs' = Advances(r) \/ runs' = [Advances(r) EXCEPT ![r].limited = TRUE]
  PROVE  RunsOK'
<1> DEFINE run == runs[r]
<1>1. run \in Run /\ Placed(run) /\ run.next <= Len(run.plan) /\ runs \in [RunSlots -> Run]
  BY DEF RunsOK, Placed
<1>2. Len(run.plan) \in Nat /\ run.next \in Nat \ {0}
  BY <1>1, LenProperties DEF Run
<1>3. PICK x : /\ x = [run EXCEPT !.pc = "trying", !.at = NoProvider, !.next = run.next + 1]
                 \/ x = [run EXCEPT !.pc = "trying", !.at = NoProvider, !.next = run.next + 1, !.limited = TRUE]
               /\ runs' = [runs EXCEPT ![r] = x]
  <2>1. CASE runs' = Advances(r)
    <3>1. PICK x : x = [run EXCEPT !.pc = "trying", !.at = NoProvider, !.next = run.next + 1]
      OBVIOUS
    <3>2. runs' = [runs EXCEPT ![r] = x]
      BY <1>1, <2>1, <3>1 DEF Advances
    <3> QED BY <3>1, <3>2
  <2>2. CASE runs' = [Advances(r) EXCEPT ![r].limited = TRUE]
    <3>1. PICK x : x = [run EXCEPT !.pc = "trying", !.at = NoProvider, !.next = run.next + 1, !.limited = TRUE]
      OBVIOUS
    <3>2. runs' = [runs EXCEPT ![r] = x]
      BY <1>1, <2>2, <3>1 DEF Advances
    <3> QED BY <3>1, <3>2
  <2> QED BY <2>1, <2>2
<1> HIDE DEF run
<1>4. /\ x \in Run /\ x.pc = "trying" /\ x.task = run.task
      /\ x.secret = run.secret /\ x.degraded = run.degraded /\ x.plan = run.plan
      /\ x.over = run.over /\ x.next = run.next + 1
  <2>1. PICK n \in Nat \ {0} : n = run.next + 1
    BY <1>2
  <2>2. \/ x = [run EXCEPT !.pc = "trying", !.at = NoProvider, !.next = n]
        \/ x = [run EXCEPT !.pc = "trying", !.at = NoProvider, !.next = n, !.limited = TRUE]
    BY <1>3, <2>1
  <2> QED BY <1>1, <2>1, <2>2 DEF Run, RunPcs
<1>5. run.pc = "streaming"
  BY DEF run
<1>6. x.next <= Len(x.plan) + 1 /\ Placed(x)
  BY <1>1, <1>2, <1>4, <1>5 DEF Placed, PlanFenced
<1> QED
  BY <1>3, <1>4, <1>6, Replaced

LEMMA OverflowKeeps ==
  ASSUME RunsOK, NEW r \in RunSlots, StartOverflow(r)
  PROVE  RunsOK'
<1> DEFINE run == runs[r]
<1>1. /\ run \in Run /\ Placed(run) /\ run.next <= Len(run.plan) + 1 /\ run.pc = "trying"
      /\ run.over \in Providers
  BY DEF RunsOK, StartOverflow, Exhausted, Present
<1>2. PICK x : x = [run EXCEPT !.pc = "overflowing", !.at = run.over]
  OBVIOUS
<1>3. runs' = [runs EXCEPT ![r] = x]
  BY <1>2 DEF StartOverflow
<1> HIDE DEF run
<1>4. /\ x \in Run /\ x.pc = "overflowing" /\ x.at = run.over /\ x.task = run.task
      /\ x.secret = run.secret /\ x.degraded = run.degraded /\ x.plan = run.plan
      /\ x.over = run.over /\ x.next = run.next
  BY <1>1, <1>2 DEF Run, RunPcs
<1>5. x.next <= Len(x.plan) + 1 /\ Placed(x)
  BY <1>1, <1>4 DEF Placed, PlanFenced
<1> QED
  BY <1>3, <1>4, <1>5, Replaced

LEMMA SettleKeeps ==
  ASSUME RunsOK, TrackerOK, NEW r \in RunSlots, Settle(r)
  PROVE  RunsOK'
<1>1. runs[r] \in Run /\ runs[r].task \in Tasks
  BY DEF RunsOK, Placed, Settle, Exhausted
<1>2. ToSet(runs[r].plan) \in SUBSET Providers
  BY <1>1, Members DEF Run
<1>3. CASE End(r)
  BY <1>3, Ends
<1>4. CASE Resets(ToSet(runs[r].plan)) # {} /\ Defer(r, Min(Resets(ToSet(runs[r].plan))))
  <2>1. PICK n \in 0..MaxCool + DayLength : n = Min(Resets(ToSet(runs[r].plan)))
    BY <1>2, <1>4, ResetsAre
  <2>2. Defer(r, n)
    BY <1>4, <2>1
  <2> QED BY <1>1, <2>2, Deferred
<1> QED
  BY <1>3, <1>4 DEF Settle

LEMMA TimeKeeps ==
  ASSUME RoutingInv, Tick
  PROVE  RoutingInv'
<1>1. RunsOK /\ TrackerOK /\ BudgetOK /\ ErrandOK
  BY RoutingParts
<1>2. \A w \in Up..MaxCool : Later(w) \in Up..MaxCool
  BY Ticks DEF Later, Up
<1>3. TrackerOK'
  BY <1>1, <1>2 DEF TrackerOK, Tick
<1>4. BudgetOK'
  BY <1>1, Ticks DEF BudgetOK, Tick
<1>5. ErrandOK'
  BY <1>1 DEF ErrandOK, Tick
<1>6. \A w \in 0..MaxCool + DayLength : Later(w) \in 0..MaxCool + DayLength
  BY Ticks DEF Later
<1>7. \A r \in RunSlots : /\ runs'[r] = [runs[r] EXCEPT !.wait = Later(runs[r].wait)]
                          /\ runs[r] \in Run /\ Placed(runs[r]) /\ runs[r].next <= Len(runs[r].plan) + 1
  BY <1>1 DEF Tick, RunsOK
<1>8. ASSUME NEW r \in RunSlots
      PROVE  runs'[r] \in Run /\ Placed(runs'[r]) /\ runs'[r].next <= Len(runs'[r].plan) + 1
  <2>1. PICK x : x = runs'[r]
    OBVIOUS
  <2>2. PICK run : run = runs[r]
    OBVIOUS
  <2>3. /\ x = [run EXCEPT !.wait = Later(run.wait)]
        /\ run \in Run /\ Placed(run) /\ run.next <= Len(run.plan) + 1
    BY <1>7, <2>1, <2>2
  <2>4. Later(run.wait) \in 0..MaxCool + DayLength
    BY <1>6, <2>3 DEF Run
  <2>5. /\ x \in Run /\ x.pc = run.pc /\ x.at = run.at /\ x.task = run.task
        /\ x.secret = run.secret /\ x.degraded = run.degraded /\ x.plan = run.plan
        /\ x.over = run.over /\ x.next = run.next
    BY <2>3, <2>4 DEF Run
  <2>6. Placed(x) /\ x.next <= Len(x.plan) + 1
    BY <2>3, <2>5 DEF Placed, PlanFenced
  <2> QED BY <2>1, <2>5, <2>6
<1>9. runs' = [r \in RunSlots |-> runs'[r]]
  BY DEF Tick
<1>10. RunsOK'
  BY <1>8, <1>9 DEF RunsOK
<1> QED
  BY <1>3, <1>4, <1>5, <1>10, RoutingPartsNext

\* An errand that is pinned, if it is confidential, is pinned to a local instance.
LEMMA ErrandStarts ==
  ASSUME NEW p \in Providers, NEW fenced \in BOOLEAN, Start(p, fenced), fenced => p \in Local
  PROVE  ErrandOK' /\ UNCHANGED <<cool, rotation, spent, midnight, registry, runs, led>>
<1>1. errand' = [at |-> p, fenced |-> fenced]
  BY DEF Start
<1>2. UNCHANGED <<cool, rotation, spent, midnight, registry, runs, led>>
  BY DEF Start, Rest, health, budget
<1> QED
  BY <1>1, <1>2 DEF ErrandOK

\* Who an errand is given to: a fenced one to an instance of the operator's own.
LEMMA ErrandIsFenced ==
  ASSUME NEW want \in Wanted, NEW secret \in BOOLEAN,
         CreateTurn(want, secret) \/ Summarize(want, secret) \/ \E s \in BOOLEAN : CreatePlanning(want, secret, s)
  PROVE  ErrandOK' /\ UNCHANGED <<cool, rotation, spent, midnight, registry, runs, led>>
<1>1. want \in Providers
  BY RoutingAssumption
<1>2. ~ Refused(want, secret) => /\ Pinned(want, secret) \in Providers
                                 /\ secret => Pinned(want, secret) \in Local
  BY <1>1, LocalFirst DEF Refused, Pinned, IsLocal, Present
<1>3. CASE CreateTurn(want, secret)
  <2>1. PICK p \in Providers : p = Pinned(want, secret)
    BY <1>2, <1>3 DEF CreateTurn
  <2> QED BY <1>2, <1>3, <2>1, ErrandStarts DEF CreateTurn
<1>4. CASE Summarize(want, secret)
  <2>1. CASE secret
    <3>1. PICK p \in Local \cap Providers : p = LocalIds[1] /\ Start(p, TRUE)
      BY <1>4, <2>1, LocalFirst DEF Summarize
    <3> QED BY <3>1, ErrandStarts
  <2>2. CASE ~ secret
    <3>1. Start(want, FALSE)
      BY <1>4, <2>2 DEF Summarize
    <3> QED BY <1>1, <3>1, ErrandStarts
  <2> QED BY <2>1, <2>2
<1>5. CASE \E s \in BOOLEAN : CreatePlanning(want, secret, s)
  <2>1. PICK s \in BOOLEAN : CreatePlanning(want, secret, s)
    BY <1>5
  <2>2. PICK p \in Providers : p = Pinned(want, secret)
    BY <1>2, <2>1 DEF CreatePlanning
  <2> DEFINE fenced == secret \/ (s /\ IsLocal(p))
  <2>3. fenced \in BOOLEAN
    BY DEF IsLocal
  <2>4. fenced => p \in Local
    BY <1>2, <2>1, <2>2 DEF CreatePlanning, IsLocal
  <2>5. Start(p, fenced)
    BY <2>1, <2>2 DEF CreatePlanning
  <2> HIDE DEF fenced
  <2> QED BY <2>3, <2>4, <2>5, ErrandStarts
<1> QED
  BY <1>3, <1>4, <1>5

\* The invariant holds at the start and every step keeps it.
LEMMA RoutingInitially ==
  ASSUME RoutingInit
  PROVE  RoutingInv
<1>1. TrackerOK
  BY Ticks DEF RoutingInit, TrackerOK, Up
<1>2. BudgetOK
  BY RoutingAssumption DEF RoutingInit, BudgetOK
<1>3. RunsOK
  <2>1. runs = [r \in RunSlots |-> Vacant]
    BY DEF RoutingInit
  <2> QED BY <2>1, VacantIs DEF RunsOK
<1>4. ErrandOK
  BY DEF RoutingInit, ErrandOK, NoErrand
<1> QED
  BY <1>1, <1>2, <1>3, <1>4, RoutingParts

\* A step of one run.
LEMMA RunStep ==
  ASSUME RoutingInv, NEW r \in RunSlots, Submit(r) \/ Step(r) \/ TakeUp(r)
  PROVE  RoutingInv'
<1>1. RunsOK /\ TrackerOK /\ BudgetOK /\ ErrandOK
  BY RoutingParts
<1>2. ASSUME UNCHANGED Others PROVE TrackerOK' /\ BudgetOK' /\ ErrandOK'
  BY <1>1, <1>2 DEF Others, health, budget, TrackerOK, BudgetOK, ErrandOK
<1>3. ASSUME UNCHANGED <<spent, midnight, errand>> PROVE BudgetOK' /\ ErrandOK'
  BY <1>1, <1>3 DEF BudgetOK, ErrandOK
<1>4. CASE Submit(r)
  <2>1. PICK t \in Tasks : runs' = [runs EXCEPT ![r] = [Vacant EXCEPT !.pc = "queued", !.task = t]]
    BY <1>4 DEF Submit
  <2> QED BY <1>1, <1>2, <1>4, <2>1, Requeues, RoutingPartsNext DEF Submit
<1>5. CASE TakeUp(r)
  <2>1. PICK t \in Tasks : t = runs[r].task
    BY <1>1, <1>5 DEF TakeUp, RunsOK, Placed
  <2>2. runs' = [runs EXCEPT ![r] = [Vacant EXCEPT !.pc = "queued", !.task = t]]
    BY <1>5, <2>1 DEF TakeUp
  <2> QED BY <1>1, <1>2, <1>5, <2>2, Requeues, RoutingPartsNext DEF TakeUp
<1>6. CASE LoadRun(r) \/ CheckBudget(r)
  BY <1>1, <1>2, <1>6, LoadKeeps, RoutingPartsNext DEF LoadRun, CheckBudget
<1>7. CASE Plan(r)
  BY <1>3, <1>7, PlanKeeps, RoutingPartsNext DEF Plan
<1>8. CASE DeferForCooling(r) \/ DeferForBudget(r) \/ FailUnroutable(r)
  <2>1. UNCHANGED <<spent, midnight, errand>>
    BY <1>8 DEF DeferForCooling, DeferForBudget, FailUnroutable, budget
  <2> QED BY <1>3, <1>8, <2>1, GateKeeps, RoutingPartsNext
<1>9. CASE Try(r)
  BY <1>1, <1>2, <1>9, TryKeeps, RoutingPartsNext DEF Try
<1>10. CASE Succeed(r)
  <2>1. runs[r].at \in Providers
    <3>1. CASE runs[r].pc = "streaming"
      <4>1. /\ runs[r].plan \in Seq(Providers) /\ runs[r].next \in Nat \ {0}
            /\ runs[r].next <= Len(runs[r].plan) /\ runs[r].at = runs[r].plan[runs[r].next]
        BY <1>1, <3>1 DEF RunsOK, Placed, Run
      <4>2. runs[r].next \in 1..Len(runs[r].plan)
        BY <4>1, LenProperties
      <4> QED BY <4>1, <4>2, ElementOfSeq
    <3>2. CASE runs[r].pc = "overflowing"
      BY <1>1, <3>2 DEF RunsOK, Placed
    <3> QED BY <1>10, <3>1, <3>2 DEF Succeed
  <2>2. RunsOK'
    BY <1>1, <1>10, Ends DEF Succeed
  <2>3. TrackerOK' /\ ErrandOK'
    BY <1>1, <1>10 DEF Succeed, TrackerOK, ErrandOK
  <2>4. PICK p \in Providers : p = runs[r].at
    BY <2>1
  <2>5. spent' \in 0..DailyCap
    BY <1>1, <1>10, <2>4, SpendIs DEF Succeed
  <2>6. BudgetOK'
    BY <1>1, <1>10, <2>5 DEF Succeed, BudgetOK
  <2> QED BY <2>2, <2>3, <2>6, RoutingPartsNext
<1>11. CASE RateLimit(r)
  <2>1. RunsOK'
    BY <1>1, <1>11, AdvanceKeeps DEF RateLimit
  <2>2. PICK n \in 0..MaxCool : cool' = [cool EXCEPT ![runs[r].at] = n]
    BY <1>11 DEF RateLimit
  <2>3. n \in Up..MaxCool
    BY Ticks DEF Up
  <2>4. TrackerOK'
    BY <1>1, <1>11, <2>2, <2>3 DEF RateLimit, TrackerOK
  <2> QED BY <1>3, <1>11, <2>1, <2>4, RoutingPartsNext DEF RateLimit
<1>12. CASE Err(r)
  <2>1. RunsOK'
    BY <1>1, <1>12, AdvanceKeeps, Ends DEF Err
  <2> QED BY <1>2, <1>12, <2>1, RoutingPartsNext DEF Err
<1>13. CASE StartOverflow(r)
  BY <1>1, <1>2, <1>13, OverflowKeeps, RoutingPartsNext DEF StartOverflow
<1>14. CASE Settle(r)
  BY <1>1, <1>2, <1>14, SettleKeeps, RoutingPartsNext DEF Settle
<1> QED
  BY <1>4, <1>5, <1>6, <1>7, <1>8, <1>9, <1>10, <1>11, <1>12, <1>13, <1>14 DEF Step

LEMMA RoutingStep ==
  ASSUME RoutingInv, [RoutingNext]_routingVars
  PROVE  RoutingInv'
<1>1. RunsOK /\ TrackerOK /\ BudgetOK /\ ErrandOK
  BY RoutingParts
<1>2. CASE ListProviders
  <2>1. cool' \in [Providers -> Up..MaxCool]
    BY <1>1, <1>2, CheckedIs DEF ListProviders
  <2> QED BY <1>1, <1>2, <2>1, RoutingPartsNext DEF ListProviders, RunsOK, TrackerOK, BudgetOK, ErrandOK
<1>3. ASSUME NEW p \in Providers, ResetCooldown(p) PROVE RoutingInv'
  <2>1. Up \in Up..MaxCool
    BY Ticks DEF Up
  <2>2. cool' \in [Providers -> Up..MaxCool]
    BY <1>1, <1>3, <2>1 DEF ResetCooldown, TrackerOK
  <2> QED BY <1>1, <1>3, <2>2, RoutingPartsNext DEF ResetCooldown, RunsOK, TrackerOK, BudgetOK, ErrandOK
<1>4. ASSUME NEW p \in Volatile, Suspend(p) \/ Redefine(p) PROVE RoutingInv'
  <2>1. PICK s \in {"on", "off", "gone"} : registry' = [registry EXCEPT ![p] = s]
    BY <1>4 DEF Suspend, Redefine
  <2>2. registry' \in [Providers -> {"on", "off", "gone"}]
    BY <1>1, <2>1 DEF TrackerOK
  <2>3. UNCHANGED <<cool, rotation, spent, midnight, runs, errand, led>>
    BY <1>4 DEF Suspend, Redefine, health, budget
  <2> QED BY <1>1, <2>2, <2>3, RoutingPartsNext DEF RunsOK, TrackerOK, BudgetOK, ErrandOK
<1>5. CASE Return
  <2>1. spent' \in 0..DailyCap
    <3>1. CASE errand.at \in Present
      <4>1. PICK p \in Providers : p = errand.at
        BY <3>1 DEF Present
      <4> QED BY <1>1, <1>5, <3>1, <4>1, SpendIs DEF Return
    <3>2. CASE errand.at \notin Present
      BY <1>1, <1>5, <3>2 DEF Return, BudgetOK
    <3> QED BY <3>1, <3>2
  <2>2. ErrandOK'
    BY <1>5 DEF Return, ErrandOK, NoErrand
  <2> QED BY <1>1, <1>5, <2>1, <2>2, RoutingPartsNext DEF Return, RunsOK, TrackerOK, BudgetOK
<1>6. ASSUME NEW want \in Wanted, NEW secret \in BOOLEAN,
             CreateTurn(want, secret) \/ Summarize(want, secret)
               \/ \E s \in BOOLEAN : CreatePlanning(want, secret, s)
      PROVE  RoutingInv'
  <2>1. ErrandOK' /\ UNCHANGED <<cool, rotation, spent, midnight, registry, runs, led>>
    BY <1>6, ErrandIsFenced
  <2> QED BY <1>1, <2>1, RoutingPartsNext DEF RunsOK, TrackerOK, BudgetOK
<1>7. CASE UNCHANGED routingVars
  BY <1>1, <1>7, RoutingPartsNext
     DEF routingVars, health, budget, RunsOK, TrackerOK, BudgetOK, ErrandOK
<1> QED
  BY <1>2, <1>3, <1>4, <1>5, <1>6, <1>7, TimeKeeps, RunStep DEF RoutingNext

\* The invariant of the router, the tracker and the runs they serve.
LEMMA RoutingAlways == RoutingSpec => []RoutingInv
<1>1. RoutingInit => RoutingInv
  BY RoutingInitially
<1>2. RoutingInv /\ [RoutingNext]_routingVars => RoutingInv'
  BY RoutingStep
<1> QED
  BY <1>1, <1>2, PTL DEF RoutingSpec

\* The types of the rows, the tracker and the counters; among them, every deferral has a time.
THEOREM RoutingIsTyped == RoutingSpec => []RoutingTypeOK
<1>1. RoutingInv => RoutingTypeOK
  BY DEF RoutingInv
<1> QED
  BY <1>1, RoutingAlways, PTL

\* What streams or overflows is inside its fence: it was taken from a fenced plan.
LEMMA InvFences ==
  ASSUME RoutingInv
  PROVE  FencesHold
<1>1. RunsOK /\ ErrandOK
  BY RoutingParts
<1>2. ASSUME NEW r \in RunSlots, runs[r].pc \in {"streaming", "overflowing"}
      PROVE  (runs[r].secret => runs[r].at \in Local) /\ (runs[r].degraded => runs[r].at \in Free)
  <2>1. Placed(runs[r]) /\ runs[r] \in Run /\ PlanFenced(runs[r])
    BY <1>1, <1>2 DEF RunsOK, Placed
  <2>2. CASE runs[r].pc = "streaming"
    <3>1. /\ runs[r].plan \in Seq(Providers) /\ runs[r].next \in Nat \ {0}
          /\ runs[r].next <= Len(runs[r].plan) /\ runs[r].at = runs[r].plan[runs[r].next]
      BY <2>1, <2>2 DEF Placed, Run
    <3>2. runs[r].next \in 1..Len(runs[r].plan)
      BY <3>1, LenProperties
    <3>3. runs[r].at \in ToSet(runs[r].plan)
      BY <3>1, <3>2, Members
    <3> QED BY <2>1, <3>3 DEF PlanFenced
  <2>3. CASE runs[r].pc = "overflowing"
    <3>1. runs[r].at = runs[r].over /\ runs[r].at \in Providers
      BY <2>1, <2>3 DEF Placed
    <3>2. ~ runs[r].secret /\ ~ runs[r].degraded
      BY <2>1, <3>1, RoutingAssumption DEF PlanFenced
    <3> QED BY <3>2
  <2> QED BY <1>2, <2>2, <2>3
<1> QED
  BY <1>1, <1>2 DEF FencesHold, ErrandOK

\* What is confidential goes to an instance of the operator's own, and what started over
\* budget to a free one: router.resolve's two layers and the errands' pins.
THEOREM FencesAlwaysHold == RoutingSpec => []FencesHold
<1>1. RoutingInv => FencesHold
  BY InvFences
<1> QED
  BY <1>1, RoutingAlways, PTL

\* What a step that fails a run as unroutable must find.
Unroutable(r) ==
  runs[r].pc = "gated" /\ runs'[r].pc = "idle" /\ ~runs[r].degraded =>
    \A p \in Providers : ~Serves(runs[r], p)

\* A run that leaves the gate for good leaves it as unroutable.
LEMMA OnlyFailureEnds ==
  ASSUME RoutingInv, RoutingNext, NEW r \in RunSlots, runs[r].pc = "gated", runs'[r].pc = "idle"
  PROVE  FailUnroutable(r)
<1>1. runs \in [RunSlots -> Run]
  BY RoutingParts DEF RunsOK
<1>2. ASSUME NEW q \in RunSlots, Submit(q) \/ Step(q) \/ TakeUp(q) PROVE FailUnroutable(r)
  <2>1. PICK x : runs' = [runs EXCEPT ![q] = x]
    <3>1. CASE Submit(q) \/ TakeUp(q)
      BY <3>1 DEF Submit, TakeUp
    <3>2. CASE LoadRun(q) \/ CheckBudget(q)
      <4>1. CASE LoadRun(q)
        <5>1. PICK secret \in BOOLEAN : runs' = [runs EXCEPT ![q].pc = "loaded", ![q].secret = secret]
          BY <4>1 DEF LoadRun
        <5> QED BY <1>1, <5>1
      <4>2. CASE CheckBudget(q)
        BY <1>1, <4>2 DEF CheckBudget
      <4> QED BY <3>2, <4>1, <4>2
    <3>3. CASE Plan(q)
      BY <1>1, <3>3 DEF Plan
    <3>4. CASE DeferForCooling(q) \/ DeferForBudget(q) \/ FailUnroutable(q) \/ Succeed(q) \/ Settle(q)
      BY <3>4 DEF DeferForCooling, DeferForBudget, FailUnroutable, Succeed, Settle, Defer, End
    <3>5. CASE Try(q) \/ StartOverflow(q)
      BY <1>1, <3>5 DEF Try, StartOverflow
    <3>6. CASE RateLimit(q) \/ Err(q)
      BY <1>1, <3>6 DEF RateLimit, Err, Advances, End
    <3> QED BY <1>2, <3>1, <3>2, <3>3, <3>4, <3>5, <3>6 DEF Step
  <2>2. q = r
    BY <1>1, <2>1
  <2>3. Plan(r) \/ DeferForCooling(r) \/ DeferForBudget(r) \/ FailUnroutable(r) \/ TakeUp(r)
    BY <1>2, <2>2 DEF Submit, Step, LoadRun, CheckBudget, Try, Succeed, RateLimit, Err, StartOverflow,
                      Settle, Exhausted
  <2>4. ~ Plan(r)
    <3>1. SUFFICES ASSUME Plan(r) PROVE FALSE
      OBVIOUS
    <3>2. PICK o, u : runs' = [runs EXCEPT ![r].pc = "trying", ![r].over = o, ![r].plan = u]
      BY <3>1 DEF Plan
    <3>3. runs'[r] = [runs[r] EXCEPT !.pc = "trying", !.over = o, !.plan = u]
      BY <1>1, <3>2
    <3>4. runs[r] \in Run
      BY <1>1
    <3>5. runs'[r].pc = "trying"
      BY <3>3, <3>4 DEF Run
    <3> QED BY <3>5
  <2>5. ~ DeferForCooling(r) /\ ~ DeferForBudget(r)
    BY <1>1 DEF DeferForCooling, DeferForBudget, Defer, Vacant
  <2>6. ~ TakeUp(r)
    BY DEF TakeUp
  <2> QED BY <2>3, <2>4, <2>5, <2>6
<1>3. ASSUME UNCHANGED runs PROVE FALSE
  BY <1>3
<1>4. ~ Tick
  <2>1. SUFFICES ASSUME Tick PROVE FALSE
    OBVIOUS
  <2>2. PICK w : runs'[r] = [runs[r] EXCEPT !.wait = w]
    BY <2>1 DEF Tick
  <2>3. runs[r] \in Run
    BY <1>1
  <2>4. runs'[r].pc = "gated"
    BY <2>2, <2>3 DEF Run
  <2> QED BY <2>4
<1>5. ~ ListProviders /\ (\A p \in Providers : ~ ResetCooldown(p)) /\ ~ Return
      /\ \A p \in Volatile : ~ Suspend(p) /\ ~ Redefine(p)
  BY <1>3 DEF ListProviders, ResetCooldown, Suspend, Redefine, Return
<1>6. \A p \in Wanted, secret \in BOOLEAN : /\ ~ CreateTurn(p, secret) /\ ~ Summarize(p, secret)
                                            /\ \A s \in BOOLEAN : ~ CreatePlanning(p, secret, s)
  BY <1>3 DEF CreateTurn, Summarize, CreatePlanning, Start, Rest
<1> QED
  BY <1>2, <1>4, <1>5, <1>6 DEF RoutingNext

\* A run fails as unroutable only where no candidate matches, whatever cools.
LEMMA FailureIsConfiguration ==
  ASSUME RoutingInv, NEW r \in RunSlots, FailUnroutable(r), ~runs[r].degraded, NEW p \in Providers
  PROVE  ~Serves(runs[r], p)
<1> DEFINE run == runs[r]
<1>1. run \in Run /\ run.task \in Tasks
  BY RoutingParts DEF RunsOK, Placed, FailUnroutable
<1>2. ~ OverBudget(run) /\ Ordered(run) = <<>> /\ ~ CoolingOnly(run)
  BY DEF FailUnroutable
<1>3. Matched(run) = <<>>
  BY <1>2 DEF CoolingOnly
<1> HIDE DEF run
<1>4. p \notin ToSet(Matched(run))
  BY <1>3 DEF ToSet
<1>5. Serves(run, p) => p \in ToSet(Matched(run))
  <2>1. ~ run.degraded
    BY DEF run
  <2>2. registry[p] = "on" => p \in On /\ p \in Present
    BY DEF On, Present
  <2>3. Serves(run, p) => p \in ToSet(Raw(run))
    BY <1>1, <2>2, LayersAre DEF Serves
  <2>4. Serves(run, p) => p \in ToSet(Available(run))
    BY <1>1, <2>1, <2>2, <2>3, LayersAre DEF Serves
  <2> QED BY <1>1, <2>4, LayersAre DEF Serves
<1> QED
  BY <1>4, <1>5 DEF run

\* A run under its budget fails as unroutable only where nothing could ever serve it: what
\* router.resolve calls a matter of configuration is one.
THEOREM UnroutableIsOnlyConfiguration == RoutingSpec => UnroutableIsConfiguration
<1>1. RoutingInv /\ [RoutingNext]_routingVars => [\A r \in RunSlots : Unroutable(r)]_routingVars
  <2> SUFFICES ASSUME RoutingInv, RoutingNext, NEW r \in RunSlots,
                      runs[r].pc = "gated", runs'[r].pc = "idle", ~runs[r].degraded, NEW p \in Providers
               PROVE  ~Serves(runs[r], p)
    BY DEF Unroutable
  <2> QED
    BY OnlyFailureEnds, FailureIsConfiguration
<1>2. [\A r \in RunSlots : Unroutable(r)]_routingVars
        <=> [\A r \in RunSlots : runs[r].pc = "gated" /\ runs'[r].pc = "idle" /\ ~runs[r].degraded =>
               \A p \in Providers : ~Serves(runs[r], p)]_routingVars
  BY DEF Unroutable
<1> QED
  BY <1>1, <1>2, RoutingAlways, PTL DEF RoutingSpec, UnroutableIsConfiguration

-----------------------------------------------------------------------------
\* TaskFiles: rows and files.

\* A finite set of naturals has an upper bound.
LEMMA BoundOf ==
  ASSUME NEW S \in SUBSET Nat, IsFiniteSet(S)
  PROVE  \E m \in Nat : \A x \in S : x <= m
<1>1. PICK n \in Nat : ExistsBijection(1..n, S)
  BY FS_NatBijection
<1>2. PICK f \in Bijection(1..n, S) : TRUE
  BY <1>1 DEF ExistsBijection
<1>3. f \in [1..n -> S] /\ \A x \in S : \E i \in 1..n : f[i] = x
  BY <1>2 DEF Bijection, Injection, Surjection
<1> DEFINE G == {i \in 0..n : \E m \in Nat : \A j \in 1..i : f[j] <= m}
<1>4. 0 \in G
  <2>1. \A j \in 1..0 : f[j] <= 0
    OBVIOUS
  <2> QED BY <2>1
<1>5. ASSUME NEW i \in 1..n, i - 1 \in G PROVE i \in G
  <2>1. PICK m \in Nat : \A j \in 1..(i - 1) : f[j] <= m
    BY <1>5
  <2>2. f[i] \in Nat /\ \A j \in 1..i : f[j] \in Nat /\ (j = i \/ j \in 1..(i - 1))
    <3>1. \A j \in 1..n : f[j] \in Nat
      BY <1>3
    <3>2. \A j \in 1..i : j \in 1..n /\ (j = i \/ j \in 1..(i - 1))
      OBVIOUS
    <3> QED BY <3>1, <3>2
  <2> DEFINE c == f[i]
  <2>a. c \in Nat
    BY <2>2
  <2>3. \A j \in 1..i : f[j] <= m + c
    <3> HIDE DEF c
    <3>1. \A j \in 1..i : f[j] \in Nat /\ (f[j] <= m \/ f[j] = c)
      BY <2>1, <2>2 DEF c
    <3> QED BY <2>a, <3>1
  <2>4. m + c \in Nat
    BY <2>2
  <2>5. i \in 0..n
    OBVIOUS
  <2> QED BY <2>3, <2>4, <2>5
<1>6. G = 0..n
  <2>1. G \in SUBSET (0..n)
    OBVIOUS
  <2> HIDE DEF G
  <2> QED BY <1>4, <1>5, <2>1, UpTo
<1>7. n \in G
  <2> HIDE DEF G
  <2> QED BY <1>6
<1>8. PICK m \in Nat : \A j \in 1..n : f[j] <= m
  BY <1>7
<1>9. ASSUME NEW x \in S PROVE x <= m
  <2>1. PICK i \in 1..n : f[i] = x
    BY <1>3
  <2> QED BY <1>8, <2>1
<1> QED
  BY <1>9

\* Two lists without repetitions that share nothing make one.
LEMMA OnceInBoth ==
  ASSUME NEW T, NEW s \in Seq(T), NEW t \in Seq(T), IsInjective(s), IsInjective(t),
         ToSet(s) \cap ToSet(t) = {}
  PROVE  IsInjective(s \o t)
<1>1. /\ s \o t \in Seq(T) /\ Len(s \o t) = Len(s) + Len(t)
      /\ \A i \in 1..(Len(s) + Len(t)) : (s \o t)[i] = IF i <= Len(s) THEN s[i] ELSE t[i - Len(s)]
  BY ConcatProperties
<1>2. Len(s) \in Nat /\ Len(t) \in Nat /\ DOMAIN s = 1..Len(s) /\ DOMAIN t = 1..Len(t)
      /\ DOMAIN (s \o t) = 1..Len(s \o t)
  BY <1>1, LenProperties
<1>3. \A i \in 1..Len(s), j \in 1..Len(t) : s[i] # t[j]
  BY Members
<1>4. /\ \A i, j \in 1..Len(s) : s[i] = s[j] => i = j
      /\ \A i, j \in 1..Len(t) : t[i] = t[j] => i = j
  BY <1>2 DEF IsInjective
<1>5. PICK b : b = s \o t
  OBVIOUS
<1>6. PICK m \in Nat, n \in Nat : m = Len(s) /\ n = Len(t)
  BY <1>2
<1>7. ASSUME NEW i \in 1..(m + n), NEW j \in 1..(m + n), b[i] = b[j] PROVE i = j
  <2>1. b[i] = (IF i <= m THEN s[i] ELSE t[i - m]) /\ b[j] = (IF j <= m THEN s[j] ELSE t[j - m])
    BY <1>1, <1>5, <1>6
  <2>2. /\ i <= m => i \in 1..m
        /\ j <= m => j \in 1..m
        /\ ~ (i <= m) => i - m \in 1..n
        /\ ~ (j <= m) => j - m \in 1..n
    OBVIOUS
  <2>3. CASE i <= m /\ j <= m
    BY <1>4, <1>6, <1>7, <2>1, <2>2, <2>3
  <2>4. CASE i <= m /\ ~ (j <= m)
    BY <1>3, <1>6, <1>7, <2>1, <2>2, <2>4
  <2>5. CASE ~ (i <= m) /\ j <= m
    BY <1>3, <1>6, <1>7, <2>1, <2>2, <2>5
  <2>6. CASE ~ (i <= m) /\ ~ (j <= m)
    <3>1. i - m = j - m
      BY <1>4, <1>6, <1>7, <2>1, <2>2, <2>6
    <3> QED BY <3>1
  <2> QED BY <2>3, <2>4, <2>5, <2>6
<1> QED
  BY <1>1, <1>2, <1>5, <1>6, <1>7 DEF IsInjective

\* What is kept of a list without repetitions has none.
LEMMA OnceInOnly ==
  ASSUME NEW T, NEW s \in Seq(T), NEW S, IsInjective(s)
  PROVE  IsInjective(Only(s, S))
<1>1. PICK e : Places(e, Only(s, S), s, S)
  BY OnlyPlaces
<1>2. Only(s, S) \in Seq(T)
  BY OnlyPlaces
<1>3. /\ Len(s) \in Nat /\ DOMAIN s = 1..Len(s)
      /\ Len(Only(s, S)) \in Nat /\ DOMAIN Only(s, S) = 1..Len(Only(s, S))
  BY <1>2, LenProperties
<1>o. PICK o : o = Only(s, S)
  OBVIOUS
<1>4. PICK m \in Nat : o = Only(s, S) /\ m = Len(o) /\ DOMAIN o = 1..m
  BY <1>3, <1>o
<1>5. ASSUME NEW i \in 1..m, NEW j \in 1..m, o[i] = o[j] PROVE i = j
  <2>1. e[i] \in 1..Len(s) /\ e[j] \in 1..Len(s) /\ s[e[i]] = s[e[j]]
    <3> HIDE DEF Places
    <3>1. Places(e, o, s, S)
      BY <1>1, <1>4
    <3>2. e[i] \in 1..Len(s) /\ e[j] \in 1..Len(s) /\ o[i] = s[e[i]] /\ o[j] = s[e[j]]
      BY <1>4, <3>1 DEF Places
    <3> QED BY <1>5, <3>2
  <2>2. e[i] = e[j]
    BY <1>3, <2>1 DEF IsInjective
  <2>3. ~ (i < j) /\ ~ (j < i)
    BY <1>1, <1>3, <1>4, <2>1, <2>2 DEF Places
  <2> QED BY <2>3
<1> QED
  BY <1>4, <1>5 DEF IsInjective

\* The list without the members of S.
LEMMA WithoutIs ==
  ASSUME NEW T, NEW s \in Seq(T), NEW S
  PROVE  /\ Without(s, S) \in Seq(T) /\ ToSet(Without(s, S)) = ToSet(s) \ S
         /\ IsInjective(s) => IsInjective(Without(s, S))
<1>1. /\ Only(s, ToSet(s) \ S) \in Seq(T)
      /\ ToSet(Only(s, ToSet(s) \ S)) = ToSet(s) \cap (ToSet(s) \ S)
  BY OnlyIs
<1>2. IsInjective(s) => IsInjective(Only(s, ToSet(s) \ S))
  BY OnceInOnly
<1> QED
  BY <1>1, <1>2 DEF Without

\* A set of paths in path order.
LEMMA InOrderIs ==
  ASSUME NEW S \in SUBSET Names
  PROVE  InOrder(S) \in Seq(Names) /\ ToSet(InOrder(S)) = S /\ IsInjective(InOrder(S))
<1>1. PICK N \in Nat : N = Len(Weight) /\ Names = 1..N
  <2>1. Len(Weight) \in Nat
    BY FilesAssumption, LenProperties
  <2> QED BY <2>1 DEF Names
<1>2. PICK s : s = [n \in 1..N |-> n]
  OBVIOUS
<1>3. s \in [1..N -> 1..N]
  BY <1>2
<1>4. s \in Seq(1..N) /\ Len(s) = N
  BY <1>3, SeqDef, LenProperties
<1>5. ToSet(s) = 1..N /\ IsInjective(s)
  BY <1>2 DEF ToSet, IsInjective
<1>6. Only(s, S) \in Seq(1..N) /\ ToSet(Only(s, S)) = ToSet(s) \cap S /\ IsInjective(Only(s, S))
  BY <1>4, <1>5, OnlyIs, OnceInOnly
<1>7. InOrder(S) = Only(s, S)
  BY <1>1, <1>2 DEF InOrder
<1> QED
  BY <1>1, <1>5, <1>6, <1>7

\* The names are the positions of the weights.
LEMMA NamesAre ==
  Len(Weight) \in Nat /\ Names = 1..Len(Weight) /\ Referenced \subseteq Names
BY FilesAssumption, LenProperties DEF Names

\* A row is a run and the name of one of its files.
Rows == TaskRuns \X Names

\* The rows a run records: one for each file it captured, in their order.
LEMMA RowsOfIs ==
  ASSUME NEW r \in TaskRuns, new[r] \in Seq(Names), IsInjective(new[r])
  PROVE  /\ RowsOf(r) \in Seq(Rows) /\ Len(RowsOf(r)) = Len(new[r]) /\ IsInjective(RowsOf(r))
         /\ \A row : row \in ToSet(RowsOf(r)) <=> \E n \in ToSet(new[r]) : row = <<r, n>>
         /\ new[r] = <<>> => RowsOf(r) = <<>>
<1>1. PICK c \in Seq(Names) : c = new[r]
  OBVIOUS
<1>2. PICK m \in Nat : m = Len(c) /\ DOMAIN c = 1..m /\ \A i \in 1..m : c[i] \in Names
  BY LenProperties, ElementOfSeq
<1>3. PICK s : s = [i \in 1..m |-> <<r, c[i]>>]
  OBVIOUS
<1>4. \A i \in 1..m : <<r, c[i]>> \in Rows
  BY <1>2 DEF Rows
<1>5. s \in [1..m -> Rows]
  BY <1>3, <1>4
<1>6. s \in Seq(Rows) /\ Len(s) = m /\ DOMAIN s = 1..m
  BY <1>5, SeqDef, LenProperties
<1>7. IsInjective(s)
  BY <1>1, <1>2, <1>3, <1>6 DEF IsInjective
<1>8. ASSUME NEW row PROVE row \in ToSet(s) <=> \E n \in ToSet(c) : row = <<r, n>>
  BY <1>2, <1>3, <1>6 DEF ToSet
<1>9. RowsOf(r) = s
  BY <1>1, <1>2, <1>3 DEF RowsOf
<1>10. c = <<>> => s = <<>>
  <2>1. SUFFICES ASSUME c = <<>> PROVE s = <<>>
    OBVIOUS
  <2>2. m = 0
    BY <1>2, <2>1
  <2> QED BY <1>6, <2>2, EmptySeq
<1> QED
  BY <1>1, <1>2, <1>6, <1>7, <1>8, <1>9, <1>10

\* Nothing weighs nothing.
LEMMA NothingFits ==
  ASSUME NEW c \in [count : Nat \cup {Unlimited}, bytes : Nat \cup {Unlimited}]
  PROVE  Fits(<<>>, c)
<1>1. Bytes(<<>>) = 0
  <2>1. DOMAIN <<>> = {}
    OBVIOUS
  <2> DEFINE add(row, sum) == Weight[row[2]] + sum
             G(i) == [s \in SUBSET {} |->
                        IF s = {} THEN 0
                        ELSE LET x == CHOOSE y \in s : TRUE IN add(<<>>[x], i[s \ {x}])]
             it == CHOOSE i : i = G(i)
  <2>2. \E i : i = G(i)
    <3> DEFINE g == [s \in SUBSET {} |-> 0]
    <3>1. g = G(g)
      <4>1. \A s \in SUBSET {} : s = {}
        OBVIOUS
      <4> QED BY <4>1
    <3> QED BY <3>1
  <2>3. it = G(it)
    <3> HIDE DEF G
    <3> QED BY <2>2
  <2>4. it[{}] = 0
    <3> HIDE DEF it
    <3> QED BY <2>3
  <2>5. Bytes(<<>>) = it[{}]
    BY <2>1 DEF Bytes, FoldSeq, FoldFunction, FoldFunctionOnSet, MapThenFoldSet
  <2> QED BY <2>4, <2>5
<1>2. Len(<<>>) = 0
  BY EmptySeq
<1>3. c.count \in Nat \cup {Unlimited} /\ c.bytes \in Nat \cup {Unlimited}
  OBVIOUS
<1> QED
  BY <1>1, <1>2, <1>3 DEF Fits

\* What retention takes is the shortest run of oldest rows that lets the rest fit.
LEMMA PrunedIs ==
  ASSUME NEW s \in Seq(Rows), NEW c \in [count : Nat \cup {Unlimited}, bytes : Nat \cup {Unlimited}]
  PROVE  \E k \in 0..Len(s) : /\ Pruned(s, c) = ToSet(SubSeq(s, 1, k))
                              /\ Fits(SubSeq(s, k + 1, Len(s)), c)
                              /\ \A j \in 0..(k - 1) : ~ Fits(SubSeq(s, j + 1, Len(s)), c)
<1> DEFINE J == {j \in 0..Len(s) : Fits(SubSeq(s, j + 1, Len(s)), c)}
<1>1. Len(s) \in Nat
  BY LenProperties
<1>2. Len(s) \in J
  <2>1. SubSeq(s, Len(s) + 1, Len(s)) = <<>>
    <3>1. PICK m \in Nat : m = Len(s)
      BY <1>1
    <3>2. m + 1 \in Nat \ {0} /\ ~ (m + 1 <= m) /\ m <= m
      OBVIOUS
    <3>3. SubSeq(s, m + 1, m) \in Seq(Rows) /\ Len(SubSeq(s, m + 1, m)) = 0
      BY <3>1, <3>2, MembersOfPart
    <3> QED BY <3>1, <3>3, EmptySeq
  <2>2. Fits(SubSeq(s, Len(s) + 1, Len(s)), c)
    BY <2>1, NothingFits
  <2>3. Len(s) \in 0..Len(s)
    BY <1>1
  <2> QED BY <2>2, <2>3
<1>3. J \in SUBSET Nat /\ J # {}
  BY <1>1, <1>2
<1> HIDE DEF J
<1>4. \E k \in J : \A j \in J : k <= j
  BY <1>3, LeastOf
<1>5. PICK k : k = Min(J)
  OBVIOUS
<1>6. k \in J /\ \A j \in J : k <= j
  BY <1>4, <1>5 DEF Min
<1>7. k \in 0..Len(s) /\ Fits(SubSeq(s, k + 1, Len(s)), c)
  BY <1>6, Zenon DEF J
<1>8. ASSUME NEW j \in 0..(k - 1) PROVE ~ Fits(SubSeq(s, j + 1, Len(s)), c)
  <2>1. j \in 0..Len(s) /\ ~ (k <= j)
    BY <1>1, <1>7
  <2> QED BY <1>6, <2>1 DEF J
<1>9. Pruned(s, c) = ToSet(SubSeq(s, 1, k))
  BY <1>5 DEF Pruned, J
<1> QED
  BY <1>7, <1>8, <1>9

\* In a list without repetitions the members of a first part are at its positions.
LEMMA FirstPart ==
  ASSUME NEW T, NEW s \in Seq(T), IsInjective(s), NEW k \in 0..Len(s), NEW i \in 1..Len(s)
  PROVE  s[i] \in ToSet(SubSeq(s, 1, k)) <=> i <= k
<1>1. Len(s) \in Nat /\ DOMAIN s = 1..Len(s)
  BY LenProperties
<1>2. k \in Nat /\ k <= Len(s)
  BY <1>1
<1>3. PICK p \in Seq(T) : p = SubSeq(s, 1, k)
  <2>1. SubSeq(s, 1, k) \in Seq(T)
    BY <1>2, MembersOfPart
  <2> QED BY <2>1
<1>4. Len(p) = k /\ \A j \in 1..k : p[j] = s[j]
  <2>1. Len(SubSeq(s, 1, k)) = (IF 1 <= k THEN k - 1 + 1 ELSE 0)
        /\ \A j \in 1..(k - 1 + 1) : SubSeq(s, 1, k)[j] = s[1 + j - 1]
    BY <1>2, MembersOfPart
  <2>2. k - 1 + 1 = k /\ (IF 1 <= k THEN k - 1 + 1 ELSE 0) = k /\ \A j \in 1..k : 1 + j - 1 = j
    BY <1>2
  <2>3. Len(p) = k
    BY <1>3, <2>1, <2>2
  <2>4. \A j \in 1..k : p[j] = s[1 + j - 1]
    BY <1>3, <2>1, <2>2, Zenon
  <2> QED BY <2>2, <2>3, <2>4
<1>5. s[i] \in ToSet(p) <=> \E j \in 1..k : s[i] = s[j]
  <2>1. /\ \A j \in 1..k : p[j] \in ToSet(p)
        /\ \A x \in ToSet(p) : \E j \in 1..k : p[j] = x
    BY <1>4, Members
  <2> QED BY <1>4, <2>1
<1>6. \A j \in 1..k : j \in 1..Len(s)
  BY <1>1, <1>2
<1>7. (\E j \in 1..k : s[i] = s[j]) <=> i <= k
  <2>1. ASSUME NEW j \in 1..k, s[i] = s[j] PROVE i <= k
    <3>1. i = j
      BY <1>1, <1>6, <2>1 DEF IsInjective
    <3> QED BY <3>1
  <2>2. i <= k => i \in 1..k
    BY <1>1, <1>2
  <2> QED BY <2>1, <2>2
<1> QED
  BY <1>3, <1>5, <1>7

\* Without its oldest k rows the list is the rest of it.
LEMMA RestIs ==
  ASSUME NEW T, NEW s \in Seq(T), IsInjective(s), NEW k \in 0..Len(s)
  PROVE  Without(s, ToSet(SubSeq(s, 1, k))) = SubSeq(s, k + 1, Len(s))
<1>1. Len(s) \in Nat
  BY LenProperties
<1> DEFINE Z == ToSet(SubSeq(s, 1, k))
<1>2. \A i \in 1..Len(s) : s[i] \in ToSet(s) /\ (s[i] \in Z <=> i <= k)
  BY Members, FirstPart
<1>3. PICK U : U = ToSet(s) \ Z
  OBVIOUS
<1>4. (\A i \in 1..k : s[i] \notin U) /\ (\A i \in (k + 1)..Len(s) : s[i] \in U)
  <2> HIDE DEF Z
  <2>1. \A i \in 1..Len(s) : s[i] \in U <=> ~ (i <= k)
    BY <1>2, <1>3
  <2>2. (\A i \in 1..k : i \in 1..Len(s) /\ i <= k)
        /\ (\A i \in (k + 1)..Len(s) : i \in 1..Len(s) /\ ~ (i <= k))
    BY <1>1
  <2> QED BY <2>1, <2>2
<1>5. Only(s, U) = SubSeq(s, k + 1, Len(s))
  BY <1>4, OnlySuffix
<1> QED
  BY <1>3, <1>5 DEF Without

\* The run whose report is told of is a run, if there is a report.
LEMMA NewestIs ==
  ASSUME reports \subseteq TaskRuns
  PROVE  Newest \in TaskRuns \cup {0}
<1>1. CASE reports = {}
  BY <1>1 DEF Newest
<1>2. CASE reports # {}
  <2>1. TaskRuns \in SUBSET Nat /\ IsFiniteSet(TaskRuns) /\ 0 \notin TaskRuns
    BY FilesAssumption
  <2>2. PICK m \in Nat : \A r \in TaskRuns : r <= m
    BY <2>1, BoundOf
  <2>3. reports \in SUBSET (1..m)
    BY <2>1, <2>2
  <2>4. Max(reports) \in reports
    BY <1>2, <2>3, LastOf
  <2> QED BY <1>2, <2>4 DEF Newest
<1> QED
  BY <1>1, <1>2

\* What the capture leaves out is of what it found.
LEMMA LargestIs == \A S : Largest(S) \subseteq S
BY DEF Largest

\* The phases before a run's tail.
Early == {"queued", "loaded", "working", "parked"}

\* The types, cut into what a step touches together.
TailOK ==
  /\ pc \in [TaskRuns -> Pcs] /\ cap \in [TaskRuns -> Caps]
  /\ told \in [TaskRuns -> TaskRuns \cup {0}]
  /\ new \in [TaskRuns -> Seq(Names)] /\ \A r \in TaskRuns : IsInjective(new[r])
  /\ gone \in [TaskRuns -> SUBSET Rows]
DirsOK ==
  /\ scratch \in [Names -> TaskRuns \cup {0}]
  /\ outputs \in [TaskRuns -> [Names -> TaskRuns \cup {0}]]
  /\ history \in [TaskRuns -> [Names -> TaskRuns \cup {0}]]
  /\ reports \subseteq TaskRuns
StoreOK ==
  /\ caps \in Caps
  /\ assets \in Seq(Rows) /\ IsInjective(assets)
  /\ op \in [kind : {"idle", "delete", "clear", "cleared"}, rows : SUBSET Rows]
  /\ op.kind = "idle" => op.rows = {}
LockOK ==
  /\ lock \in TaskRuns \cup {0, -1}
  /\ \A r \in TaskRuns : lock = r => pc[r] \in {"recorded", "pruned"}
  /\ \A r \in TaskRuns : pc[r] \in {"recorded", "pruned"} /\ new[r] # <<>> => lock = r
StoryOK ==
  story \in [wrote : [TaskRuns -> SUBSET Names], mixed : SUBSET TaskRuns, lost : SUBSET Rows]

\* What a run has at each phase.
ByPhase ==
  \A r \in TaskRuns :
    /\ pc[r] \in Early => outputs[r] = Nothing
    /\ pc[r] \in Early \cup {"imported", "captured"} => history[r] = Nothing
    /\ pc[r] \notin InTail => new[r] = <<>>
    /\ pc[r] # "pruned" => gone[r] = {}

\* Rows are of runs that have succeeded, and success is final.
RowsFinal ==
  /\ \A row \in ToSet(assets) \cup op.rows : pc[row[1]] = "succeeded"
  /\ \A r \in TaskRuns : \A row \in gone[r] : row[1] = r \/ pc[row[1]] = "succeeded"

\* In its tail a run's files and its rows are the same but for what was taken.
NewHasFiles ==
  \A r \in TaskRuns, n \in Names : pc[r] \in InTail =>
    /\ outputs[r][n] # 0 \/ history[r][n] # 0 => n \in ToSet(new[r])
    /\ n \in ToSet(new[r]) => outputs[r][n] # 0 \/ <<r, n>> \in story.lost \cup gone[r]

\* A row on its way out has no file.
LeavingHaveNone ==
  /\ \A row \in op.rows : outputs[row[1]][row[2]] = 0 /\ history[row[1]][row[2]] = 0
  /\ \A r \in TaskRuns : \A row \in gone[r] : outputs[row[1]][row[2]] = 0 /\ history[row[1]][row[2]] = 0

\* The scratch of a run that shares it with nobody.
ScratchIsOwn ==
  \A r \in TaskRuns \ story.mixed : pc[r] \in Using =>
    /\ \A q \in TaskRuns \ {r} : pc[q] \notin Using
    /\ \A n \in Names : scratch[n] = IF n \in story.wrote[r] THEN r ELSE 0
\* What a run alone has imported was referenced, and is no other run's file.
ImportsOwn ==
  \A r \in TaskRuns : pc[r] = "imported" =>
    /\ ToSet(new[r]) \subseteq Referenced
    /\ \A n \in Names : outputs[r][n] \in {0, r}

\* What a retention pass has taken is the oldest, and under the lock no more than it must.
OldestGone ==
  \A r \in TaskRuns : pc[r] = "pruned" =>
    LET all == assets \o RowsOf(r) IN
    /\ \A i, j \in 1..Len(all) : i < j /\ all[j] \in gone[r] => all[i] \in gone[r]
    /\ lock = r => gone[r] = Pruned(all, cap[r])

FilesTyped == TailOK /\ DirsOK /\ StoreOK /\ LockOK /\ StoryOK
TailInv == ByPhase /\ RowsFinal /\ NewHasFiles /\ LeavingHaveNone

\* The two names of nobody are no run's.
LEMMA RunsAre == /\ TaskRuns \subseteq Nat \ {0} /\ 0 \notin TaskRuns /\ -1 \notin TaskRuns
                 /\ \A r \in TaskRuns : r # 0 /\ r # -1
BY FilesAssumption

\* Unlinking a row's file empties its place and no other.
LEMMA UnlinkedIs ==
  ASSUME NEW dir \in [TaskRuns -> [Names -> TaskRuns \cup {0}]], NEW S
  PROVE  /\ Unlinked(dir, S) \in [TaskRuns -> [Names -> TaskRuns \cup {0}]]
         /\ \A r \in TaskRuns, n \in Names :
              Unlinked(dir, S)[r][n] = IF <<r, n>> \in S THEN 0 ELSE dir[r][n]
         /\ \A r \in TaskRuns : dir[r] = Nothing => Unlinked(dir, S)[r] = Nothing
BY DEF Unlinked, Nothing

\* The committed rows and the run's own are different rows.
LEMMA AllRows ==
  ASSUME FilesTyped, RowsFinal, NEW r \in TaskRuns, pc[r] # "succeeded"
  PROVE  /\ assets \o RowsOf(r) \in Seq(Rows) /\ IsInjective(assets \o RowsOf(r))
         /\ \A row : row \in ToSet(assets \o RowsOf(r)) <=>
                       row \in ToSet(assets) \/ \E n \in ToSet(new[r]) : row = <<r, n>>
         /\ assets \in Seq(Rows) /\ IsInjective(assets) /\ ToSet(assets) \subseteq Rows
         /\ new[r] = <<>> => assets \o RowsOf(r) = assets
<1>1. /\ assets \in Seq(Rows) /\ IsInjective(assets)
      /\ new[r] \in Seq(Names) /\ IsInjective(new[r])
  BY DEF FilesTyped, StoreOK, TailOK
<1>2. /\ RowsOf(r) \in Seq(Rows) /\ IsInjective(RowsOf(r))
      /\ \A row : row \in ToSet(RowsOf(r)) <=> \E n \in ToSet(new[r]) : row = <<r, n>>
      /\ new[r] = <<>> => RowsOf(r) = <<>>
  BY <1>1, RowsOfIs
<1>3. ToSet(assets) \cap ToSet(RowsOf(r)) = {}
  <2>1. ASSUME NEW row \in ToSet(RowsOf(r)) PROVE pc[row[1]] # "succeeded"
    BY <1>2
  <2> QED BY <2>1 DEF RowsFinal
<1>4. assets \o RowsOf(r) \in Seq(Rows)
      /\ ToSet(assets \o RowsOf(r)) = ToSet(assets) \cup ToSet(RowsOf(r))
  BY <1>1, <1>2, MembersOfBoth
<1>5. IsInjective(assets \o RowsOf(r))
  BY <1>1, <1>2, <1>3, OnceInBoth
<1>6. ToSet(assets) \subseteq Rows
  BY <1>1, Members
<1>7. new[r] = <<>> => assets \o RowsOf(r) = assets
  BY <1>1, <1>2, ConcatEmptySeq
<1> QED
  BY <1>1, <1>2, <1>4, <1>5, <1>6, <1>7

\* The rows a retention pass takes are rows it sees.
LEMMA TakenAreSeen ==
  ASSUME FilesTyped, RowsFinal, NEW r \in TaskRuns, pc[r] = "recorded"
  PROVE  /\ Pruned(Visible(r), cap[r]) \subseteq Rows
         /\ \A row \in Pruned(Visible(r), cap[r]) :
              row \in ToSet(assets) \/ \E n \in ToSet(new[r]) : row = <<r, n>>
<1>1. Visible(r) \in Seq(Rows)
      /\ ToSet(Visible(r)) \subseteq ToSet(assets \o RowsOf(r)) \cup ToSet(assets)
  BY AllRows DEF Visible
<1>2. cap[r] \in [count : Nat \cup {Unlimited}, bytes : Nat \cup {Unlimited}]
  BY FilesAssumption DEF FilesTyped, TailOK
<1>3. PICK k \in 0..Len(Visible(r)) : Pruned(Visible(r), cap[r]) = ToSet(SubSeq(Visible(r), 1, k))
  BY <1>1, <1>2, PrunedIs
<1>4. k \in Nat /\ k <= Len(Visible(r))
  BY <1>1, <1>3, LenProperties
<1>5. ToSet(SubSeq(Visible(r), 1, k)) \subseteq ToSet(Visible(r))
  BY <1>1, <1>4, MembersOfPart
<1>6. ToSet(Visible(r)) \subseteq Rows
  BY <1>1, Members
<1> QED
  BY <1>1, <1>3, <1>5, <1>6, AllRows

\* What a run takes into its rows when it captures.
LEMMA CapturedIs ==
  ASSUME FilesTyped, NEW r \in TaskRuns, NEW S \in SUBSET Names
  PROVE  LET c == InOrder(S) \o Without(new[r], S)
         IN  c \in Seq(Names) /\ IsInjective(c) /\ ToSet(c) = S \cup ToSet(new[r])
<1>1. new[r] \in Seq(Names) /\ IsInjective(new[r])
  BY DEF FilesTyped, TailOK
<1>2. InOrder(S) \in Seq(Names) /\ ToSet(InOrder(S)) = S /\ IsInjective(InOrder(S))
  BY InOrderIs
<1>3. Without(new[r], S) \in Seq(Names) /\ ToSet(Without(new[r], S)) = ToSet(new[r]) \ S
      /\ IsInjective(Without(new[r], S))
  BY <1>1, WithoutIs
<1>4. ToSet(InOrder(S)) \cap ToSet(Without(new[r], S)) = {}
  BY <1>2, <1>3
<1> QED
  BY <1>2, <1>3, <1>4, OnceInBoth, MembersOfBoth

\* What every way out of a tail leaves of it.
LEMMA CutIs ==
  ASSUME FilesTyped, NEW S \in SUBSET TaskRuns, NEW how \in Pcs, Cut(S, how)
  PROVE  /\ TailOK'
         /\ \A r \in TaskRuns : /\ pc'[r] = IF r \in S THEN how ELSE pc[r]
                                /\ new'[r] = IF r \in S THEN <<>> ELSE new[r]
                                /\ gone'[r] = IF r \in S THEN {} ELSE gone[r]
         /\ UNCHANGED cap /\ UNCHANGED files /\ UNCHANGED assets /\ UNCHANGED caps
<1>1. <<>> \in Seq(Names) /\ IsInjective(<<>>)
  BY EmptySeq DEF IsInjective
<1>2. /\ pc' = [r \in TaskRuns |-> IF r \in S THEN how ELSE pc[r]]
      /\ new' = [r \in TaskRuns |-> IF r \in S THEN <<>> ELSE new[r]]
      /\ gone' = [r \in TaskRuns |-> IF r \in S THEN {} ELSE gone[r]]
      /\ UNCHANGED <<cap, told, files, assets, caps>>
  BY DEF Cut
<1>3. pc' \in [TaskRuns -> Pcs] /\ gone' \in [TaskRuns -> SUBSET Rows]
  BY <1>2 DEF FilesTyped, TailOK
<1>4. new' \in [TaskRuns -> Seq(Names)] /\ \A r \in TaskRuns : IsInjective(new'[r])
  BY <1>1, <1>2 DEF FilesTyped, TailOK
<1> QED
  BY <1>2, <1>3, <1>4 DEF FilesTyped, TailOK

\* Each group of variables keeps its type, whatever steps.
LEMMA TailKeeps ==
  ASSUME FilesTyped, RowsFinal, FilesNext
  PROVE  TailOK'
<1> USE DEF FilesTyped, TailOK
<1>1. ASSUME NEW r \in TaskRuns, Load(r) PROVE TailOK'
  BY <1>1 DEF Load, Pcs, StoreOK
<1>2. ASSUME NEW r \in TaskRuns, Begin(r) PROVE TailOK'
  BY <1>2, NewestIs DEF Begin, Pcs, DirsOK
<1>3. ASSUME NEW r \in TaskRuns, NEW how \in {"parked", "failed"}, Leave(r, how) PROVE TailOK'
  BY <1>3 DEF Leave, Pcs, Ended
<1>4. ASSUME NEW r \in TaskRuns, NEW S \in SUBSET Names, Import(r, S) PROVE TailOK'
  BY <1>4, InOrderIs DEF Import, Pcs, InTail
<1>5. ASSUME NEW r \in TaskRuns, Capture(r) PROVE TailOK'
  <2>1. PICK S \in SUBSET Names : new' = [new EXCEPT ![r] = InOrder(S) \o Without(@, S)]
    <3>1. Largest({n \in Names : scratch[n] # 0}) \in SUBSET Names
      BY LargestIs
    <3> QED BY <1>5, <3>1 DEF Capture
  <2>2. PICK c \in Seq(Names) : IsInjective(c) /\ new' = [new EXCEPT ![r] = c]
    <3>1. InOrder(S) \o Without(new[r], S) \in Seq(Names) /\ IsInjective(InOrder(S) \o Without(new[r], S))
      BY CapturedIs
    <3> QED BY <2>1, <3>1
  <2> QED BY <1>5, <2>2 DEF Capture, Pcs, InTail
<1>6. ASSUME NEW r \in TaskRuns, Record(r) PROVE TailOK'
  BY <1>6 DEF Record, Pcs, InTail
<1>7. ASSUME NEW r \in TaskRuns, Retain(r) PROVE TailOK'
  BY <1>7, TakenAreSeen DEF Retain, Pcs, InTail
<1>8. ASSUME NEW r \in TaskRuns, Commit(r) PROVE TailOK'
  <2>1. <<>> \in Seq(Names) /\ IsInjective(<<>>)
    BY EmptySeq DEF IsInjective
  <2> QED BY <1>8, <2>1 DEF Commit, Pcs, Ended
<1>9. ASSUME NEW r \in TaskRuns, Locked(r) \/ Cancel(r) PROVE TailOK'
  BY <1>9, CutIs DEF Locked, Cancel, Pcs, Ended
<1>10. ASSUME Crash PROVE TailOK'
  <2>1. {r \in TaskRuns : pc[r] \in {"loaded", "working"} \cup InTail} \in SUBSET TaskRuns
    OBVIOUS
  <2> QED BY <1>10, <2>1, CutIs DEF Crash, Pcs, Ended
<1>11. ASSUME UNCHANGED tail PROVE TailOK'
  BY <1>11 DEF tail
<1>12. {} \in SUBSET Names /\ \A n \in Referenced : {n} \in SUBSET Names
  BY NamesAre
<1> QED
  BY <1>1, <1>2, <1>3, <1>4, <1>5, <1>6, <1>7, <1>8, <1>9, <1>10, <1>11, <1>12
     DEF FilesNext, Work, SetCaps, DeleteRun, Clear, Request, ClearDirs, OperatorCommit, OperatorLocked

LEMMA DirsKeep ==
  ASSUME FilesTyped, FilesNext
  PROVE  DirsOK'
<1> USE DEF FilesTyped, DirsOK
<1>1. ASSUME NEW r \in TaskRuns, Begin(r) PROVE DirsOK'
  BY <1>1 DEF Begin, Nothing
<1>2. ASSUME NEW r \in TaskRuns, NEW n \in Names, Work(r, n) PROVE DirsOK'
  BY <1>2 DEF Work
<1>3. ASSUME NEW r \in TaskRuns, NEW S, Import(r, S) PROVE DirsOK'
  BY <1>3 DEF Import
<1>4. ASSUME NEW r \in TaskRuns, Capture(r) PROVE DirsOK'
  <2>1. PICK S : outputs' = [outputs EXCEPT ![r] = [n \in Names |-> IF n \in S THEN scratch[n] ELSE @[n]]]
    BY <1>4 DEF Capture
  <2> QED BY <1>4, <2>1 DEF Capture
<1>5. ASSUME NEW r \in TaskRuns, Record(r) PROVE DirsOK'
  BY <1>5 DEF Record
<1>6. ASSUME NEW r \in TaskRuns, Retain(r) PROVE DirsOK'
  BY <1>6, UnlinkedIs DEF Retain
<1>7. ASSUME NEW kind, NEW S, Request(kind, S) PROVE DirsOK'
  BY <1>7, UnlinkedIs DEF Request
<1>8. ASSUME ClearDirs PROVE DirsOK'
  BY <1>8, UnlinkedIs DEF ClearDirs
<1>9. ASSUME UNCHANGED files PROVE DirsOK'
  BY <1>9 DEF files
<1> QED
  BY <1>1, <1>2, <1>3, <1>4, <1>5, <1>6, <1>7, <1>8, <1>9
     DEF FilesNext, Load, Leave, Commit, Locked, Cancel, Crash, Cut, SetCaps, DeleteRun, Clear,
         OperatorCommit, OperatorLocked

LEMMA StoreKeeps ==
  ASSUME FilesTyped, RowsFinal, FilesNext
  PROVE  StoreOK'
<1> USE DEF FilesTyped, StoreOK
<1>1. ASSUME NEW r \in TaskRuns, Commit(r) PROVE StoreOK'
  <2>1. pc[r] # "succeeded"
    BY <1>1 DEF Commit
  <2>2. PICK all \in Seq(Rows) : all = assets \o RowsOf(r) /\ IsInjective(all)
    BY <2>1, AllRows
  <2>3. PICK left \in Seq(Rows) : left = Without(all, gone[r]) /\ IsInjective(left)
    BY <2>2, WithoutIs
  <2>4. assets' = left /\ UNCHANGED <<caps, op>>
    BY <1>1, <2>2, <2>3 DEF Commit, desk
  <2> QED BY <2>3, <2>4
<1>2. ASSUME OperatorCommit PROVE StoreOK'
  <2>1. PICK left \in Seq(Rows) : left = Without(assets, op.rows) /\ IsInjective(left)
    BY WithoutIs
  <2> QED BY <1>2, <2>1 DEF OperatorCommit, Idle
<1>3. ASSUME NEW kind \in {"delete", "clear"}, NEW S \in SUBSET Rows, Request(kind, S) PROVE StoreOK'
  BY <1>3 DEF Request
<1>4. ASSUME ClearDirs PROVE StoreOK'
  <2>1. op' = [op EXCEPT !.kind = "cleared"] /\ UNCHANGED <<assets, caps>>
    BY <1>4 DEF ClearDirs, store
  <2> QED BY <2>1
<1>5. ASSUME op' = Idle, UNCHANGED <<assets, caps>> PROVE StoreOK'
  BY <1>5 DEF Idle
<1>6. ASSUME NEW c \in Caps, SetCaps(c) PROVE StoreOK'
  BY <1>6 DEF SetCaps, store
<1>7. ASSUME UNCHANGED <<assets, caps, op>> PROVE StoreOK'
  BY <1>7
<1>8. /\ ToSet(assets) \in SUBSET Rows
      /\ \A r \in TaskRuns : {row \in ToSet(assets) : row[1] = r} \in SUBSET Rows
  BY Members
<1>9. ASSUME NEW r \in TaskRuns, Load(r) \/ Begin(r) \/ Capture(r) \/ Record(r) \/ Retain(r)
                                 \/ Locked(r) \/ Cancel(r)
      PROVE  UNCHANGED <<assets, caps, op>>
  BY <1>9 DEF Load, Begin, Capture, Record, Retain, Locked, Cancel, Cut, store, desk
<1>10. ASSUME NEW r \in TaskRuns
       PROVE /\ \A n \in Names : Work(r, n) => UNCHANGED <<assets, caps, op>>
             /\ \A how : Leave(r, how) => UNCHANGED <<assets, caps, op>>
             /\ \A S : Import(r, S) => UNCHANGED <<assets, caps, op>>
  BY DEF Work, Leave, Import, store, desk
<1>11. OperatorLocked \/ Crash => op' = Idle /\ UNCHANGED <<assets, caps>>
  BY DEF OperatorLocked, Crash, Cut, store
<1>12. /\ \A r \in TaskRuns : DeleteRun(r) => Request("delete", {row \in ToSet(assets) : row[1] = r})
       /\ Clear => Request("clear", ToSet(assets))
  BY DEF DeleteRun, Clear
<1> QED
  BY <1>1, <1>2, <1>3, <1>4, <1>5, <1>6, <1>7, <1>8, <1>9, <1>10, <1>11, <1>12 DEF FilesNext

LEMMA StoryKeeps ==
  ASSUME FilesTyped, FilesNext
  PROVE  StoryOK'
<1> USE DEF FilesTyped, StoryOK
<1>1. ASSUME NEW r \in TaskRuns, Begin(r) PROVE StoryOK'
  <2>1. PICK m \in SUBSET TaskRuns : story' = [story EXCEPT !.wrote[r] = {}, !.mixed = m]
    <3> DEFINE others == {s \in TaskRuns \ {r} : pc[s] \in Using}
               m == (story.mixed \ {r}) \cup (IF others = {} THEN {} ELSE others \cup {r})
    <3>1. m \in SUBSET TaskRuns
      OBVIOUS
    <3>2. story' = [story EXCEPT !.wrote[r] = {}, !.mixed = m]
      BY <1>1 DEF Begin
    <3> QED BY <3>1, <3>2
  <2> QED BY <2>1
<1>2. ASSUME NEW r \in TaskRuns, NEW n \in Names, Work(r, n) PROVE StoryOK'
  BY <1>2 DEF Work
<1>3. ASSUME NEW S \in SUBSET Rows, story' = [story EXCEPT !.lost = @ \cup S] PROVE StoryOK'
  BY <1>3
<1>4. ASSUME UNCHANGED story PROVE StoryOK'
  BY <1>4
<1>5. ASSUME NEW r \in TaskRuns, Locked(r) \/ Cancel(r) PROVE StoryOK'
  <2>1. gone[r] \in SUBSET Rows
    BY DEF TailOK
  <2> QED BY <1>3, <1>5, <2>1 DEF Locked, Cancel
<1>6. ASSUME ClearDirs PROVE StoryOK'
  <2>1. {row \in TaskRuns \X Sub : outputs[row[1]][row[2]] # 0} \in SUBSET Rows
    BY FilesAssumption DEF Rows
  <2> QED BY <1>3, <1>6, <2>1 DEF ClearDirs
<1>7. ASSUME OperatorLocked PROVE StoryOK'
  BY <1>3, <1>7 DEF OperatorLocked, StoreOK
<1>8. ASSUME Crash PROVE StoryOK'
  <2> DEFINE driven == {r \in TaskRuns : pc[r] \in {"loaded", "working"} \cup InTail}
  <2>1. op.rows \cup UNION {gone[r] : r \in driven} \in SUBSET Rows
    BY DEF StoreOK, TailOK
  <2>2. story' = [story EXCEPT !.lost = @ \cup (op.rows \cup UNION {gone[r] : r \in driven})]
    BY <1>8 DEF Crash
  <2> HIDE DEF driven
  <2> QED BY <1>3, <2>1, <2>2
<1> QED
  BY <1>1, <1>2, <1>4, <1>5, <1>6, <1>7, <1>8
     DEF FilesNext, Load, Leave, Import, Capture, Record, Retain, Commit, SetCaps, DeleteRun, Clear,
         Request, OperatorCommit

\* The write lock is held by who flushed rows and by nobody else.
LEMMA LockKeeps ==
  ASSUME FilesTyped, ByPhase, FilesNext
  PROVE  LockOK'
<1>c. ASSUME NEW S \in SUBSET TaskRuns, NEW how \in {"failed", "cancelled"}, Cut(S, how)
      PROVE  /\ \A r \in TaskRuns : /\ pc'[r] = IF r \in S THEN how ELSE pc[r]
                                    /\ new'[r] = IF r \in S THEN <<>> ELSE new[r]
                                    /\ gone'[r] = IF r \in S THEN {} ELSE gone[r]
             /\ UNCHANGED files
  <2>1. how \in Pcs
    BY DEF Pcs, Ended
  <2> QED BY <1>c, <2>1, CutIs
<1> USE DEF FilesTyped, TailOK, LockOK
<1>a. 0 \notin TaskRuns /\ -1 \notin TaskRuns
  BY RunsAre
<1>1. ASSUME NEW r \in TaskRuns, Record(r) PROVE LockOK'
  BY <1>1, <1>a DEF Record
<1>2. ASSUME NEW r \in TaskRuns, Retain(r) PROVE LockOK'
  BY <1>2, <1>a DEF Retain, store
<1>3. ASSUME NEW r \in TaskRuns, Commit(r) PROVE LockOK'
  BY <1>3, <1>a DEF Commit
<1>4. ASSUME NEW r \in TaskRuns, Locked(r) PROVE LockOK'
  <2>1. {r} \in SUBSET TaskRuns /\ Cut({r}, "failed") /\ lock' = lock /\ lock # r
    BY <1>4 DEF Locked
  <2>2. \A q \in TaskRuns : q # r => pc'[q] = pc[q] /\ new'[q] = new[q]
    BY <2>1, <1>c
  <2>3. pc'[r] = "failed"
    BY <2>1, <1>c
  <2> QED BY <2>1, <2>2, <2>3, <1>a
<1>5. ASSUME NEW r \in TaskRuns, Cancel(r) PROVE LockOK'
  <2>1. {r} \in SUBSET TaskRuns /\ Cut({r}, "cancelled") /\ lock' = IF lock = r THEN 0 ELSE lock
    BY <1>5 DEF Cancel
  <2>2. \A q \in TaskRuns : q # r => pc'[q] = pc[q] /\ new'[q] = new[q]
    BY <2>1, <1>c
  <2>3. pc'[r] = "cancelled"
    BY <2>1, <1>c
  <2> QED BY <2>1, <2>2, <2>3, <1>a
<1>6. ASSUME Clear PROVE LockOK'
  BY <1>6, <1>a DEF Clear, Request, tail
<1>7. ASSUME OperatorCommit PROVE LockOK'
  BY <1>7, <1>a DEF OperatorCommit, tail
<1>8. ASSUME Crash PROVE LockOK'
  <2> DEFINE driven == {r \in TaskRuns : pc[r] \in {"loaded", "working"} \cup InTail}
  <2>1. driven \in SUBSET TaskRuns /\ Cut(driven, "failed") /\ lock' = 0
    BY <1>8 DEF Crash
  <2>2. \A r \in TaskRuns : pc'[r] \notin {"recorded", "pruned"}
    <3>1. \A r \in TaskRuns : r \notin driven => pc[r] \notin {"recorded", "pruned"}
      BY DEF InTail
    <3> HIDE DEF driven
    <3>2. \A r \in TaskRuns : pc'[r] = IF r \in driven THEN "failed" ELSE pc[r]
      BY <2>1, <1>c
    <3> QED BY <3>1, <3>2
  <2> QED BY <2>1, <2>2, <1>a
<1>9. ASSUME UNCHANGED <<tail, lock>> PROVE LockOK'
  BY <1>9 DEF tail
<1>10. ASSUME NEW r \in TaskRuns, Load(r) \/ Begin(r) \/ Capture(r) PROVE LockOK'
  BY <1>10 DEF Load, Begin, Capture, store
<1>11. ASSUME NEW r \in TaskRuns, NEW how \in {"parked", "failed"}, Leave(r, how) PROVE LockOK'
  BY <1>11 DEF Leave, store
<1>12. ASSUME NEW r \in TaskRuns, NEW S, Import(r, S) PROVE LockOK'
  BY <1>12 DEF Import, store
<1> QED
  BY <1>1, <1>2, <1>3, <1>4, <1>5, <1>6, <1>7, <1>8, <1>9, <1>10, <1>11, <1>12
     DEF FilesNext, Work, SetCaps, DeleteRun, Request, ClearDirs, OperatorLocked, store

\* The parts of the invariant about rows, each kept by every step.
LEMMA PhaseKeeps ==
  ASSUME FilesTyped, ByPhase, FilesNext
  PROVE  ByPhase'
<1>c. ASSUME NEW S \in SUBSET TaskRuns, NEW how \in {"failed", "cancelled"}, Cut(S, how)
      PROVE  /\ \A r \in TaskRuns : /\ pc'[r] = IF r \in S THEN how ELSE pc[r]
                                    /\ new'[r] = IF r \in S THEN <<>> ELSE new[r]
                                    /\ gone'[r] = IF r \in S THEN {} ELSE gone[r]
             /\ UNCHANGED files
  <2>1. how \in Pcs
    BY DEF Pcs, Ended
  <2> QED BY <1>c, <2>1, CutIs
<1>u. \A S : \A q \in TaskRuns : /\ outputs[q] = Nothing => Unlinked(outputs, S)[q] = Nothing
                                 /\ history[q] = Nothing => Unlinked(history, S)[q] = Nothing
  BY UnlinkedIs DEF FilesTyped, DirsOK
<1> USE DEF FilesTyped, TailOK, DirsOK, ByPhase, Early, InTail
<1>1. ASSUME NEW r \in TaskRuns, Load(r) \/ Begin(r) PROVE ByPhase'
  BY <1>1 DEF Load, Begin, files
<1>2. ASSUME NEW r \in TaskRuns, NEW n, Work(r, n) PROVE ByPhase'
  BY <1>2 DEF Work, tail
<1>3. ASSUME NEW r \in TaskRuns, NEW how \in {"parked", "failed"}, Leave(r, how) PROVE ByPhase'
  BY <1>3 DEF Leave, files
<1>4. ASSUME NEW r \in TaskRuns, NEW S, Import(r, S) PROVE ByPhase'
  <2>1. PICK c : new' = [new EXCEPT ![r] = c]
    BY <1>4 DEF Import
  <2>2. PICK d : outputs' = [outputs EXCEPT ![r] = d]
    BY <1>4 DEF Import
  <2> QED BY <1>4, <2>1, <2>2 DEF Import
<1>5. ASSUME NEW r \in TaskRuns, Capture(r) PROVE ByPhase'
  <2>1. PICK c : new' = [new EXCEPT ![r] = c]
    BY <1>5 DEF Capture
  <2>2. PICK d : outputs' = [outputs EXCEPT ![r] = d]
    BY <1>5 DEF Capture
  <2> QED BY <1>5, <2>1, <2>2 DEF Capture
<1>6. ASSUME NEW r \in TaskRuns, Record(r) PROVE ByPhase'
  BY <1>6 DEF Record
<1>7. ASSUME NEW r \in TaskRuns, Retain(r) PROVE ByPhase'
  <2>1. PICK c : outputs' = Unlinked(outputs, c) /\ history' = Unlinked(history, c)
                 /\ gone' = [gone EXCEPT ![r] = c]
    BY <1>7 DEF Retain
  <2>2. \A q \in TaskRuns : /\ outputs[q] = Nothing => outputs'[q] = Nothing
                            /\ history[q] = Nothing => history'[q] = Nothing
    BY <2>1, <1>u
  <2> QED BY <1>7, <2>1, <2>2 DEF Retain
<1>8. ASSUME NEW r \in TaskRuns, Commit(r) PROVE ByPhase'
  BY <1>8 DEF Commit, files
<1>9. ASSUME NEW S \in SUBSET TaskRuns, NEW how \in {"failed", "cancelled"}, Cut(S, how) PROVE ByPhase'
  <2>1. how # "pruned" /\ how \notin InTail /\ how \notin Early /\ how \notin {"imported", "captured"}
    OBVIOUS
  <2>2. UNCHANGED <<outputs, history>>
    BY <1>c, <1>9 DEF files
  <2> QED BY <1>9, <2>1, <2>2, <1>c
<1>10. ASSUME NEW kind, NEW S, Request(kind, S) PROVE ByPhase'
  <2>1. \A q \in TaskRuns : /\ outputs[q] = Nothing => outputs'[q] = Nothing
                            /\ history[q] = Nothing => history'[q] = Nothing
    BY <1>10, <1>u DEF Request
  <2> QED BY <1>10, <2>1 DEF Request, tail
<1>11. ASSUME ClearDirs PROVE ByPhase'
  <2>1. \A q \in TaskRuns : outputs[q] = Nothing => outputs'[q] = Nothing
    BY <1>11, <1>u DEF ClearDirs
  <2> QED BY <1>11, <2>1 DEF ClearDirs, tail
<1>12. ASSUME UNCHANGED <<tail, files>> PROVE ByPhase'
  BY <1>12 DEF tail, files
<1>13. ASSUME NEW r \in TaskRuns, Locked(r) \/ Cancel(r) PROVE ByPhase'
  BY <1>9, <1>13 DEF Locked, Cancel
<1>14. ASSUME Crash PROVE ByPhase'
  BY <1>9, <1>14 DEF Crash
<1> QED
  BY <1>1, <1>2, <1>3, <1>4, <1>5, <1>6, <1>7, <1>8, <1>10, <1>11, <1>12, <1>13, <1>14
     DEF FilesNext, SetCaps, DeleteRun, Clear, OperatorCommit, OperatorLocked

\* A row that is committed is one that was, or one of the run that commits.
LEMMA RowsThen ==
  ASSUME FilesTyped, RowsFinal, FilesNext
  PROVE  /\ \A row \in ToSet(assets') : \/ row \in ToSet(assets)
                                        \/ \E r \in TaskRuns, n \in Names : Commit(r) /\ row = <<r, n>>
         /\ op'.rows \subseteq op.rows \cup ToSet(assets)
         /\ assets' # assets => (\E r \in TaskRuns : Commit(r)) \/ OperatorCommit
<1> USE DEF FilesTyped
<1>1. ASSUME NEW r \in TaskRuns, Commit(r)
      PROVE  \A row \in ToSet(assets') : row \in ToSet(assets) \/ \E n \in Names : row = <<r, n>>
  <2>1. pc[r] # "succeeded" /\ assets' = Without(assets \o RowsOf(r), gone[r])
    BY <1>1 DEF Commit
  <2>2. PICK all \in Seq(Rows) : all = assets \o RowsOf(r)
           /\ \A row : row \in ToSet(all) <=> row \in ToSet(assets) \/ \E n \in ToSet(new[r]) : row = <<r, n>>
    BY <2>1, AllRows
  <2>3. ToSet(assets') \subseteq ToSet(all)
    <3>1. ToSet(Without(all, gone[r])) = ToSet(all) \ gone[r]
      BY <2>2, WithoutIs
    <3> QED BY <2>1, <2>2, <3>1
  <2>4. ToSet(new[r]) \subseteq Names
    BY Members DEF TailOK
  <2> QED BY <2>2, <2>3, <2>4
<1>2. OperatorCommit => ToSet(assets') \subseteq ToSet(assets)
  BY WithoutIs DEF OperatorCommit, StoreOK
<1>3. \/ assets' = assets
      \/ \E r \in TaskRuns : Commit(r)
      \/ OperatorCommit
  BY DEF FilesNext, Load, Begin, Work, Leave, Import, Capture, Record, Retain, Locked, Cancel, Cut, Crash,
         SetCaps, DeleteRun, Clear, Request, ClearDirs, OperatorLocked, store
<1>4. op'.rows \subseteq op.rows \cup ToSet(assets)
  <2>1. op' = op \/ op'.rows \subseteq op.rows \cup ToSet(assets)
    <3>1. ASSUME NEW kind, NEW S \in SUBSET ToSet(assets), Request(kind, S)
          PROVE  op'.rows \subseteq op.rows \cup ToSet(assets)
      BY <3>1 DEF Request
    <3>2. Clear => op'.rows \subseteq op.rows \cup ToSet(assets)
      BY <3>1 DEF Clear
    <3>3. \A r \in TaskRuns : DeleteRun(r) => op'.rows \subseteq op.rows \cup ToSet(assets)
      BY <3>1 DEF DeleteRun
    <3>4. ClearDirs => op'.rows \subseteq op.rows \cup ToSet(assets)
      BY DEF ClearDirs, StoreOK
    <3>5. op' = Idle => op'.rows \subseteq op.rows \cup ToSet(assets)
      BY DEF Idle
    <3> QED
      BY <3>2, <3>3, <3>4, <3>5
         DEF FilesNext, Load, Begin, Work, Leave, Import, Capture, Record, Retain, Commit, Locked, Cancel,
             Crash, SetCaps, OperatorCommit, OperatorLocked, desk
  <2> QED BY <2>1
<1> QED
  BY <1>1, <1>2, <1>3, <1>4

\* Success is final.
LEMMA SuccessStays ==
  ASSUME FilesTyped, FilesNext, NEW r \in TaskRuns, pc[r] = "succeeded"
  PROVE  pc'[r] = "succeeded"
<1> USE DEF FilesTyped, TailOK
<1>1. ASSUME NEW q \in TaskRuns,
             \/ Load(q) \/ Begin(q) \/ Capture(q) \/ Record(q) \/ Retain(q) \/ Commit(q)
      PROVE  pc'[r] = "succeeded"
  BY <1>1 DEF Load, Begin, Capture, Record, Retain, Commit
<1>2. \A q \in TaskRuns : /\ \A how : Leave(q, how) => pc'[r] = "succeeded"
                          /\ \A S : Import(q, S) => pc'[r] = "succeeded"
  BY DEF Leave, Import
<1>3. ASSUME NEW S \in SUBSET TaskRuns, NEW how, r \notin S, Cut(S, how) PROVE pc'[r] = "succeeded"
  BY <1>3 DEF Cut
<1>4. ASSUME NEW q \in TaskRuns, Locked(q) \/ Cancel(q) PROVE pc'[r] = "succeeded"
  <2>1. r \notin {q}
    BY <1>4 DEF Locked, Cancel, Ended
  <2> QED BY <1>3, <1>4, <2>1 DEF Locked, Cancel
<1>5. Crash => pc'[r] = "succeeded"
  BY <1>3 DEF Crash, InTail
<1>6. UNCHANGED tail => pc'[r] = "succeeded"
  BY DEF tail
<1> QED
  BY <1>1, <1>2, <1>4, <1>5, <1>6
     DEF FilesNext, Work, SetCaps, DeleteRun, Clear, Request, ClearDirs, OperatorCommit, OperatorLocked

\* What a retention pass holds it keeps until it has committed or been cut.
LEMMA GoneThen ==
  ASSUME FilesTyped, ByPhase, FilesNext, NEW r \in TaskRuns
  PROVE  gone'[r] \subseteq gone[r] \/ Retain(r)
<1> USE DEF FilesTyped, TailOK
<1>1. ASSUME NEW q \in TaskRuns, Retain(q) \/ Commit(q) PROVE gone'[r] \subseteq gone[r] \/ Retain(r)
  BY <1>1 DEF Retain, Commit
<1>2. \A q \in TaskRuns : Load(q) \/ Begin(q) \/ Capture(q) \/ Record(q) => gone' = gone
  BY DEF Load, Begin, Capture, Record
<1>3. \A q \in TaskRuns : /\ \A how : Leave(q, how) => gone' = gone
                          /\ \A S : Import(q, S) => gone' = gone
  BY DEF Leave, Import
<1>4. ASSUME NEW S, NEW how, Cut(S, how) PROVE gone'[r] \subseteq gone[r]
  BY <1>4 DEF Cut
<1>5. (\A q \in TaskRuns : Locked(q) \/ Cancel(q) => gone'[r] \subseteq gone[r])
      /\ (Crash => gone'[r] \subseteq gone[r])
  BY <1>4 DEF Locked, Cancel, Crash
<1> QED
  BY <1>1, <1>2, <1>3, <1>5
     DEF FilesNext, Work, SetCaps, DeleteRun, Clear, Request, ClearDirs, OperatorCommit, OperatorLocked, tail

LEMMA FinalKeeps ==
  ASSUME FilesTyped, ByPhase, RowsFinal, FilesNext
  PROVE  RowsFinal'
<1>1. ASSUME NEW row \in Rows, pc[row[1]] = "succeeded" PROVE pc'[row[1]] = "succeeded"
  <2>1. row[1] \in TaskRuns
    BY DEF Rows
  <2> QED BY <1>1, <2>1, SuccessStays
<1>2. ToSet(assets) \subseteq Rows /\ op.rows \subseteq Rows /\ \A r \in TaskRuns : gone[r] \subseteq Rows
  BY Members DEF FilesTyped, StoreOK, TailOK
<1>3. ASSUME NEW row \in ToSet(assets') \cup op'.rows PROVE pc'[row[1]] = "succeeded"
  <2>1. CASE row \in ToSet(assets) \cup op.rows
    BY <1>1, <1>2, <2>1 DEF RowsFinal
  <2>2. CASE \E r \in TaskRuns, n \in Names : Commit(r) /\ row = <<r, n>>
    BY <2>2 DEF Commit, FilesTyped, TailOK
  <2> QED BY <1>3, <2>1, <2>2, RowsThen
<1>4. ASSUME NEW r \in TaskRuns, NEW row \in gone'[r] PROVE row[1] = r \/ pc'[row[1]] = "succeeded"
  <2>1. CASE row \in gone[r]
    BY <1>1, <1>2, <2>1 DEF RowsFinal
  <2>2. CASE Retain(r)
    <3>1. row \in Pruned(Visible(r), cap[r]) /\ pc[r] = "recorded"
      BY <1>4, <2>2 DEF Retain, FilesTyped, TailOK
    <3>2. row \in ToSet(assets) \/ \E n \in ToSet(new[r]) : row = <<r, n>>
      BY <3>1, TakenAreSeen
    <3> QED BY <1>1, <1>2, <3>2 DEF RowsFinal
  <2> QED BY <1>4, <2>1, <2>2, GoneThen
<1> QED
  BY <1>3, <1>4 DEF RowsFinal

\* The files a step leaves, run by run and path by path.
LEMMA FilesThen ==
  ASSUME FilesTyped, FilesNext, NEW r \in TaskRuns, NEW n \in Names
  PROVE  \/ outputs'[r][n] = outputs[r][n] /\ history'[r][n] = history[r][n]
         \/ pc[r] \in {"working", "imported"} /\ history'[r][n] = history[r][n]
         \/ pc[r] = "captured" /\ Record(r) /\ outputs' = outputs
         \/ outputs'[r][n] = 0 /\ history'[r][n] \in {0, history[r][n]}
<1>u. \A S : /\ Unlinked(outputs, S)[r][n] \in {0, outputs[r][n]}
             /\ Unlinked(history, S)[r][n] \in {0, history[r][n]}
             /\ <<r, n>> \in S => Unlinked(outputs, S)[r][n] = 0 /\ Unlinked(history, S)[r][n] = 0
             /\ <<r, n>> \notin S => /\ Unlinked(outputs, S)[r][n] = outputs[r][n]
                                     /\ Unlinked(history, S)[r][n] = history[r][n]
  BY UnlinkedIs DEF FilesTyped, DirsOK
<1> USE DEF FilesTyped, DirsOK
<1>1. ASSUME NEW q \in TaskRuns, Retain(q)
      PROVE  \/ outputs'[r][n] = outputs[r][n] /\ history'[r][n] = history[r][n]
             \/ outputs'[r][n] = 0 /\ history'[r][n] \in {0, history[r][n]}
  BY <1>1, <1>u DEF Retain
<1>2. ASSUME NEW kind, NEW S, Request(kind, S)
      PROVE  \/ outputs'[r][n] = outputs[r][n] /\ history'[r][n] = history[r][n]
             \/ outputs'[r][n] = 0 /\ history'[r][n] \in {0, history[r][n]}
  BY <1>2, <1>u DEF Request
<1>3. ASSUME ClearDirs
      PROVE  \/ outputs'[r][n] = outputs[r][n] /\ history'[r][n] = history[r][n]
             \/ outputs'[r][n] = 0 /\ history'[r][n] \in {0, history[r][n]}
  BY <1>3, <1>u DEF ClearDirs
<1>4. ASSUME NEW q \in TaskRuns, NEW S, Import(q, S)
      PROVE  history' = history /\ (outputs'[r] = outputs[r] \/ pc[r] = "working")
  <2>1. PICK d : outputs' = [outputs EXCEPT ![q] = d]
    BY <1>4 DEF Import
  <2> QED BY <1>4, <2>1 DEF Import
<1>5. ASSUME NEW q \in TaskRuns, Capture(q)
      PROVE  history' = history /\ (outputs'[r] = outputs[r] \/ pc[r] = "imported")
  <2>1. PICK d : outputs' = [outputs EXCEPT ![q] = d]
    BY <1>5 DEF Capture
  <2>2. pc[q] = "imported" /\ history' = history
    BY <1>5 DEF Capture
  <2> QED BY <2>1, <2>2
<1>6. ASSUME NEW q \in TaskRuns, Record(q)
      PROVE  outputs' = outputs /\ (history'[r] = history[r] \/ (r = q /\ pc[r] = "captured"))
  <2>1. pc[q] = "captured" /\ outputs' = outputs /\ history' = [history EXCEPT ![q] = outputs[q]]
    BY <1>6 DEF Record
  <2>2. r # q => history'[r] = history[r]
    BY <2>1
  <2> QED BY <2>1, <2>2
<1>7. ASSUME NEW q \in TaskRuns, Load(q) \/ Begin(q) \/ Commit(q) \/ Locked(q) \/ Cancel(q)
      PROVE  UNCHANGED outputs /\ UNCHANGED history
  BY <1>7 DEF Load, Begin, Commit, Locked, Cancel, Cut, files
<1>8. ASSUME NEW q \in TaskRuns
      PROVE  /\ \A m \in Names : Work(q, m) => UNCHANGED outputs /\ UNCHANGED history
             /\ \A how : Leave(q, how) => UNCHANGED outputs /\ UNCHANGED history
  BY DEF Work, Leave, files
<1>9. ASSUME OperatorCommit \/ OperatorLocked \/ Crash \/ \E c \in Caps : SetCaps(c)
      PROVE  UNCHANGED outputs /\ UNCHANGED history
  BY <1>9 DEF OperatorCommit, OperatorLocked, Crash, Cut, SetCaps, files
<1> QED
  BY <1>1, <1>2, <1>3, <1>4, <1>5, <1>6, <1>7, <1>8, <1>9 DEF FilesNext, DeleteRun, Clear

\* What was unlinked stays without a file until its row is dropped or lost.
LEMMA LeavingKeeps ==
  ASSUME FilesTyped, ByPhase, RowsFinal, LeavingHaveNone, FilesNext
  PROVE  LeavingHaveNone'
<1>1. ASSUME NEW row \in Rows, pc[row[1]] \in {"pruned", "succeeded"},
             outputs[row[1]][row[2]] = 0 /\ history[row[1]][row[2]] = 0
      PROVE  outputs'[row[1]][row[2]] = 0 /\ history'[row[1]][row[2]] = 0
  <2>1. row[1] \in TaskRuns /\ row[2] \in Names
    BY DEF Rows
  <2> QED BY <1>1, <2>1, FilesThen
<1>2. op.rows \subseteq Rows /\ \A r \in TaskRuns : gone[r] \subseteq Rows
  BY DEF FilesTyped, StoreOK, TailOK
<1>u. \A S : \A row \in S \cap Rows : /\ Unlinked(outputs, S)[row[1]][row[2]] = 0
                                      /\ Unlinked(history, S)[row[1]][row[2]] = 0
  <2> SUFFICES ASSUME NEW S, NEW row \in S \cap Rows
               PROVE  /\ Unlinked(outputs, S)[row[1]][row[2]] = 0
                      /\ Unlinked(history, S)[row[1]][row[2]] = 0
    OBVIOUS
  <2>1. row[1] \in TaskRuns /\ row[2] \in Names /\ row = <<row[1], row[2]>>
    BY DEF Rows
  <2> QED BY <2>1, UnlinkedIs DEF FilesTyped, DirsOK
<1>3. ASSUME NEW row \in op'.rows
      PROVE  outputs'[row[1]][row[2]] = 0 /\ history'[row[1]][row[2]] = 0
  <2>1. CASE row \in op.rows
    BY <1>1, <1>2, <2>1 DEF RowsFinal, LeavingHaveNone
  <2>2. CASE row \notin op.rows
    <3>1. PICK kind, S : Request(kind, S) /\ row \in S /\ S \subseteq ToSet(assets)
      <4>1. ASSUME NEW kind, NEW S, Request(kind, S) PROVE op'.rows = S
        BY <4>1 DEF Request
      <4>2. \A r \in TaskRuns : DeleteRun(r) =>
              \E S : Request("delete", S) /\ row \in S /\ S \subseteq ToSet(assets)
        BY <1>3, <4>1 DEF DeleteRun
      <4>3. Clear => Request("clear", ToSet(assets)) /\ row \in ToSet(assets)
        BY <1>3, <4>1 DEF Clear
      <4>4. ~ ClearDirs /\ op' # Idle /\ op' # op
        BY <1>3, <2>2 DEF ClearDirs, Idle, FilesTyped, StoreOK
      <4> QED
        BY <4>2, <4>3, <4>4
           DEF FilesNext, Load, Begin, Work, Leave, Import, Capture, Record, Retain, Commit, Locked, Cancel,
               Crash, SetCaps, OperatorCommit, OperatorLocked, desk
    <3>2. row \in S \cap Rows
      BY <3>1, Members DEF FilesTyped, StoreOK
    <3> QED BY <1>u, <3>1, <3>2 DEF Request
  <2> QED BY <2>1, <2>2
<1>4. ASSUME NEW r \in TaskRuns, NEW row \in gone'[r]
      PROVE  outputs'[row[1]][row[2]] = 0 /\ history'[row[1]][row[2]] = 0
  <2>1. CASE row \in gone[r]
    <3>1. pc[r] = "pruned"
      BY <2>1 DEF ByPhase
    <3> QED BY <1>1, <1>2, <2>1, <3>1 DEF RowsFinal, LeavingHaveNone
  <2>2. CASE Retain(r)
    <3>1. row \in Pruned(Visible(r), cap[r]) /\ pc[r] = "recorded"
      BY <1>4, <2>2 DEF Retain, FilesTyped, TailOK
    <3>2. Pruned(Visible(r), cap[r]) \subseteq Rows
      BY <3>1, TakenAreSeen
    <3> QED BY <1>u, <2>2, <3>1, <3>2 DEF Retain
  <2> QED BY <1>4, <2>1, <2>2, GoneThen
<1> QED
  BY <1>3, <1>4 DEF LeavingHaveNone

\* In its tail a run's files and rows go together, whatever the others do.
LEMMA NewKeeps ==
  ASSUME FilesTyped, TailInv, FilesNext
  PROVE  NewHasFiles'
<1> SUFFICES ASSUME NEW r \in TaskRuns, NEW n \in Names, pc'[r] \in InTail
             PROVE  /\ outputs'[r][n] # 0 \/ history'[r][n] # 0 => n \in ToSet(new'[r])
                    /\ n \in ToSet(new'[r]) => outputs'[r][n] # 0 \/ <<r, n>> \in story'.lost \cup gone'[r]
  BY DEF NewHasFiles
<1> DEFINE Same == /\ pc'[r] = pc[r] /\ new'[r] = new[r] /\ gone'[r] = gone[r]
                   /\ story.lost \subseteq story'.lost
           Goal == /\ outputs'[r][n] # 0 \/ history'[r][n] # 0 => n \in ToSet(new'[r])
                   /\ n \in ToSet(new'[r]) => outputs'[r][n] # 0 \/ <<r, n>> \in story'.lost \cup gone'[r]
<1>a. pc[r] \in InTail =>
        /\ outputs[r][n] # 0 \/ history[r][n] # 0 => n \in ToSet(new[r])
        /\ n \in ToSet(new[r]) => outputs[r][n] # 0 \/ <<r, n>> \in story.lost \cup gone[r]
  BY DEF TailInv, NewHasFiles
<1>b. r # 0 /\ Nothing[n] = 0
  BY RunsAre DEF Nothing
<1>t. /\ pc \in [TaskRuns -> Pcs] /\ new \in [TaskRuns -> Seq(Names)] /\ gone \in [TaskRuns -> SUBSET Rows]
      /\ outputs \in [TaskRuns -> [Names -> TaskRuns \cup {0}]]
      /\ history \in [TaskRuns -> [Names -> TaskRuns \cup {0}]]
      /\ scratch \in [Names -> TaskRuns \cup {0}]
      /\ story \in [wrote : [TaskRuns -> SUBSET Names], mixed : SUBSET TaskRuns, lost : SUBSET Rows]
  BY DEF FilesTyped, TailOK, DirsOK, StoryOK
<1>u. \A S : /\ Unlinked(outputs, S)[r][n] = IF <<r, n>> \in S THEN 0 ELSE outputs[r][n]
             /\ Unlinked(history, S)[r][n] = IF <<r, n>> \in S THEN 0 ELSE history[r][n]
  <2>1. \A S : Unlinked(outputs, S)[r][n] = IF <<r, n>> \in S THEN 0 ELSE outputs[r][n]
    BY <1>t, UnlinkedIs
  <2>2. \A S : Unlinked(history, S)[r][n] = IF <<r, n>> \in S THEN 0 ELSE history[r][n]
    BY <1>t, UnlinkedIs
  <2> QED BY <2>1, <2>2
<1>1. ASSUME NEW q \in TaskRuns, Load(q) \/ Begin(q) PROVE Goal
  <2>1. r # q
    BY <1>1, <1>t DEF Load, Begin, InTail
  <2> QED BY <1>1, <1>a, <1>t, <2>1 DEF Load, Begin, files
<1>2. ASSUME NEW q \in TaskRuns, NEW m \in Names, Work(q, m) PROVE Goal
  <2>1. story'.lost = story.lost /\ UNCHANGED <<pc, new, gone, outputs, history>>
    BY <1>2, <1>t DEF Work, tail
  <2> QED BY <1>a, <2>1
<1>3. ASSUME NEW q \in TaskRuns, NEW how \in {"parked", "failed"}, Leave(q, how) PROVE Goal
  <2>1. r # q
    BY <1>3, <1>t DEF Leave, InTail
  <2> QED BY <1>3, <1>a, <1>t, <2>1 DEF Leave, files
<1>4. ASSUME NEW q \in TaskRuns, NEW S \in SUBSET Names, Import(q, S) PROVE Goal
  <2>1. CASE q # r
    BY <1>4, <1>a, <1>t, <2>1 DEF Import
  <2>2. CASE q = r
    <3>1. outputs[r][n] = 0 /\ history[r][n] = 0
      BY <1>4, <2>2, <1>b DEF Import, TailInv, ByPhase, Early
    <3>2. new'[r] = InOrder(S) /\ outputs'[r][n] = (IF n \in S THEN r ELSE 0) /\ history' = history
      BY <1>4, <1>t, <2>2, <3>1 DEF Import
    <3>3. ToSet(new'[r]) = S
      BY <3>2, InOrderIs
    <3> QED BY <1>b, <3>1, <3>2, <3>3
  <2> QED BY <2>1, <2>2
<1>5. ASSUME NEW q \in TaskRuns, Capture(q) PROVE Goal
  <2>1. CASE q # r
    BY <1>5, <1>a, <1>t, <2>1 DEF Capture
  <2>2. CASE q = r
    <3>1. PICK S \in SUBSET Names : /\ S = Largest({m \in Names : scratch[m] # 0})
                                    /\ \A m \in S : scratch[m] # 0
      <4>1. Largest({m \in Names : scratch[m] # 0}) \subseteq {m \in Names : scratch[m] # 0}
        BY LargestIs
      <4> QED BY <4>1
    <3>2. /\ new'[r] = InOrder(S) \o Without(new[r], S)
          /\ outputs'[r][n] = (IF n \in S THEN scratch[n] ELSE outputs[r][n]) /\ history' = history
          /\ gone' = gone /\ story' = story
      BY <1>5, <1>t, <2>2, <3>1 DEF Capture
    <3>3. ToSet(new'[r]) = S \cup ToSet(new[r])
      BY <3>2, CapturedIs
    <3>4. pc[r] \in InTail
      BY <1>5, <2>2 DEF Capture, InTail
    <3> QED BY <1>a, <3>1, <3>2, <3>3, <3>4
  <2> QED BY <2>1, <2>2
<1>6. ASSUME NEW q \in TaskRuns, Record(q) PROVE Goal
  BY <1>6, <1>a, <1>t DEF Record, InTail
<1>7. ASSUME NEW q \in TaskRuns, Retain(q) PROVE Goal
  <2>1. PICK S : S = Pruned(Visible(q), cap[q])
    OBVIOUS
  <2>2. /\ pc[q] = "recorded" /\ pc' = [pc EXCEPT ![q] = "pruned"] /\ gone' = [gone EXCEPT ![q] = S]
        /\ outputs' = Unlinked(outputs, S) /\ history' = Unlinked(history, S)
        /\ new' = new /\ story' = story
    BY <1>7, <2>1 DEF Retain
  <2>3. pc[r] \in InTail
    BY <1>t, <2>2 DEF InTail
  <2>4. CASE q = r
    <3>1. gone'[r] = S
      BY <1>t, <2>2, <2>4
    <3>2. gone[r] = {}
      BY <2>2, <2>4 DEF TailInv, ByPhase
    <3> QED BY <1>a, <1>u, <2>2, <2>3, <3>1, <3>2
  <2>5. CASE q # r
    <3>1. <<r, n>> \notin S
      <4>1. <<r, n>> \notin ToSet(assets)
        <5>1. pc[<<r, n>>[1]] # "succeeded"
          BY <2>3 DEF InTail
        <5> QED BY <5>1 DEF TailInv, RowsFinal
      <4> QED BY <2>1, <2>2, <2>5, <4>1, TakenAreSeen DEF TailInv
    <3> QED BY <1>a, <1>t, <1>u, <2>2, <2>3, <2>5, <3>1
  <2> QED BY <2>4, <2>5
<1>8. ASSUME NEW q \in TaskRuns, Commit(q) PROVE Goal
  <2>1. r # q
    BY <1>8, <1>t DEF Commit, InTail
  <2> QED BY <1>8, <1>a, <1>t, <2>1 DEF Commit, files
<1>9. ASSUME NEW S \in SUBSET TaskRuns, NEW how \in {"failed", "cancelled"}, Cut(S, how),
             story.lost \subseteq story'.lost
      PROVE  Goal
  <2>1. how \in Pcs /\ how \notin InTail
    BY DEF Pcs, Ended, InTail
  <2>2. r \notin S
    BY <1>9, <2>1, CutIs
  <2>3. pc'[r] = pc[r] /\ new'[r] = new[r] /\ gone'[r] = gone[r] /\ UNCHANGED files
    BY <1>9, <2>1, <2>2, CutIs
  <2> QED BY <1>9, <1>a, <2>3 DEF files
<1>10. ASSUME NEW q \in TaskRuns, Locked(q) \/ Cancel(q) PROVE Goal
  <2>1. story.lost \subseteq story'.lost
    BY <1>10, <1>t DEF Locked, Cancel
  <2>2. {q} \in SUBSET TaskRuns /\ \E how \in {"failed", "cancelled"} : Cut({q}, how)
    BY <1>10 DEF Locked, Cancel
  <2> QED BY <1>9, <2>1, <2>2
<1>11. ASSUME Crash PROVE Goal
  <2>1. story.lost \subseteq story'.lost
    BY <1>11, <1>t DEF Crash
  <2> QED BY <1>9, <1>11, <2>1 DEF Crash
<1>12. ASSUME NEW kind, NEW S \in SUBSET ToSet(assets), Request(kind, S) PROVE Goal
  <2>1. UNCHANGED <<pc, new, gone, story>> /\ outputs' = Unlinked(outputs, S) /\ history' = Unlinked(history, S)
    BY <1>12 DEF Request, tail
  <2>2. <<r, n>> \notin S
    <3>1. pc[<<r, n>>[1]] # "succeeded"
      BY <2>1 DEF InTail
    <3> QED BY <3>1 DEF TailInv, RowsFinal
  <2> QED BY <1>a, <1>u, <2>1, <2>2
<1>13. ASSUME ClearDirs PROVE Goal
  <2>1. PICK S : /\ outputs' = Unlinked(outputs, S) /\ history' = history
                 /\ story' = [story EXCEPT !.lost = @ \cup S] /\ UNCHANGED <<pc, new, gone>>
    BY <1>13 DEF ClearDirs, tail
  <2>2. story'.lost = story.lost \cup S
    BY <1>t, <2>1
  <2> QED BY <1>a, <1>u, <2>1, <2>2
<1>14. ASSUME UNCHANGED <<tail, files>>, story.lost \subseteq story'.lost PROVE Goal
  BY <1>14, <1>a DEF tail, files
<1>15. ASSUME OperatorCommit \/ OperatorLocked \/ \E c \in Caps : SetCaps(c) PROVE Goal
  <2>1. story.lost \subseteq story'.lost
    BY <1>15, <1>t DEF OperatorCommit, OperatorLocked, SetCaps
  <2>2. UNCHANGED <<tail, files>>
    BY <1>15 DEF OperatorCommit, OperatorLocked, SetCaps
  <2> QED BY <1>14, <2>1, <2>2
<1>16. {} \in SUBSET Names /\ \A m \in Referenced : {m} \in SUBSET Names
  BY NamesAre
<1>17. \A q \in TaskRuns : DeleteRun(q) => Goal
  BY <1>12 DEF DeleteRun
<1>18. Clear => Goal
  BY <1>12 DEF Clear
<1> HIDE DEF Goal
<1>19. Goal
  BY <1>1, <1>2, <1>3, <1>4, <1>5, <1>6, <1>7, <1>8, <1>10, <1>11, <1>13, <1>15, <1>16, <1>17, <1>18
     DEF FilesNext
<1> QED
  BY <1>19 DEF Goal

\* The rows a commit leaves.
LEMMA CommitLeaves ==
  ASSUME FilesTyped, RowsFinal, NEW q \in TaskRuns, Commit(q)
  PROVE  \A row : row \in ToSet(assets') <=>
           /\ row \in ToSet(assets) \/ \E n \in ToSet(new[q]) : row = <<q, n>>
           /\ row \notin gone[q]
<1>1. pc[q] # "succeeded" /\ assets' = Without(assets \o RowsOf(q), gone[q])
  BY DEF Commit
<1>2. PICK all \in Seq(Rows) : all = assets \o RowsOf(q)
         /\ \A row : row \in ToSet(all) <=> (row \in ToSet(assets) \/ \E n \in ToSet(new[q]) : row = <<q, n>>)
  BY <1>1, AllRows
<1>3. ToSet(Without(all, gone[q])) = ToSet(all) \ gone[q]
  BY <1>2, WithoutIs
<1> QED
  BY <1>1, <1>2, <1>3

\* A row leaves the table only with the commit of who unlinked its file.
LEMMA RowsLeave ==
  ASSUME FilesTyped, RowsFinal, FilesNext, NEW row \in ToSet(assets), row \notin ToSet(assets')
  PROVE  (\E q \in TaskRuns : row \in gone[q]) \/ row \in op.rows
<1>1. ASSUME NEW q \in TaskRuns, Commit(q) PROVE row \in gone[q]
  BY <1>1, CommitLeaves
<1>2. ASSUME OperatorCommit PROVE row \in op.rows
  <2>1. ToSet(Without(assets, op.rows)) = ToSet(assets) \ op.rows
    BY WithoutIs DEF FilesTyped, StoreOK
  <2> QED BY <1>2, <2>1 DEF OperatorCommit
<1> QED
  BY <1>1, <1>2, RowsThen

\* What a commit that never came has lost stays lost.
LEMMA LostGrows ==
  ASSUME FilesTyped, FilesNext
  PROVE  story.lost \subseteq story'.lost
<1> USE DEF FilesTyped, StoryOK
<1>1. ASSUME NEW S, story' = [story EXCEPT !.lost = @ \cup S] PROVE story.lost \subseteq story'.lost
  BY <1>1
<1>2. ASSUME NEW q \in TaskRuns, Locked(q) \/ Cancel(q) PROVE story.lost \subseteq story'.lost
  BY <1>1, <1>2 DEF Locked, Cancel
<1>3. ClearDirs \/ OperatorLocked => story.lost \subseteq story'.lost
  BY <1>1 DEF ClearDirs, OperatorLocked
<1>4. ASSUME Crash PROVE story.lost \subseteq story'.lost
  BY <1>4 DEF Crash
<1>5. ASSUME NEW q \in TaskRuns PROVE /\ Begin(q) => story'.lost = story.lost
                                      /\ \A n \in Names : Work(q, n) => story'.lost = story.lost
  BY DEF Begin, Work
<1> QED
  BY <1>2, <1>3, <1>4, <1>5
     DEF FilesNext, Load, Leave, Import, Capture, Record, Retain, Commit, SetCaps, DeleteRun, Clear, Request,
         OperatorCommit

\* The rows whose file is gone or may be.
Leaving == (op.rows \cup story.lost) \cup UNION {gone[r] : r \in TaskRuns}

LEMMA LeavingIs ==
  ASSUME NEW row
  PROVE  /\ row \in Leaving <=> \/ row \in op.rows
                                \/ \E r \in TaskRuns : row \in gone[r]
                                \/ row \in story.lost
         /\ row \in Leaving' <=> \/ row \in op'.rows
                                 \/ \E r \in TaskRuns : row \in gone'[r]
                                 \/ row \in story'.lost
BY DEF Leaving

\* A row that is on its way out is gone with a commit, or is lost.
LEMMA LeavingThen ==
  ASSUME FilesTyped, TailInv, FilesNext, NEW row \in Leaving, row \in ToSet(assets'), row \in Rows
  PROVE  row \in Leaving'
<1>1. CASE row \in story.lost
  BY <1>1, LostGrows, LeavingIs
<1>2. CASE row \in op.rows
  <2>1. row \in op'.rows \/ row \in story'.lost
    <3>1. ~ OperatorCommit
      <4>1. OperatorCommit => ToSet(assets') = ToSet(assets) \ op.rows
        BY WithoutIs DEF FilesTyped, StoreOK, OperatorCommit
      <4> QED BY <1>2, <4>1
    <3>2. OperatorLocked \/ Crash => row \in story'.lost
      BY <1>2 DEF OperatorLocked, Crash, FilesTyped, StoryOK
    <3>3. op # Idle
      BY <1>2 DEF Idle
    <3>4. ~ Clear /\ \A q \in TaskRuns : ~ DeleteRun(q)
      BY <3>3 DEF Clear, DeleteRun, Request
    <3>5. ClearDirs => op'.rows = op.rows
      BY DEF ClearDirs, FilesTyped, StoreOK
    <3>6. \A q \in TaskRuns :
            /\ Load(q) \/ Begin(q) \/ Capture(q) \/ Record(q) \/ Retain(q) \/ Commit(q) \/ Locked(q)
               \/ Cancel(q) => op' = op
            /\ \A n \in Names : Work(q, n) => op' = op
            /\ \A how : Leave(q, how) => op' = op
            /\ \A S : Import(q, S) => op' = op
      BY DEF Load, Begin, Capture, Record, Retain, Commit, Locked, Cancel, Work, Leave, Import, desk
    <3>7. \A c : SetCaps(c) => op' = op
      BY DEF SetCaps
    <3> QED
      BY <1>2, <3>1, <3>2, <3>4, <3>5, <3>6, <3>7 DEF FilesNext
  <2> QED BY <2>1, LeavingIs
<1>3. ASSUME NEW r \in TaskRuns, row \in gone[r] PROVE row \in gone'[r] \cup story'.lost
  <2>1. pc[r] = "pruned" /\ r \in TaskRuns /\ gone \in [TaskRuns -> SUBSET Rows]
    BY <1>3 DEF TailInv, ByPhase, FilesTyped, TailOK
  <2>2. ASSUME NEW q \in TaskRuns, Commit(q) PROVE row \in gone'[r]
    <3>1. q # r
      BY <1>3, <2>2, CommitLeaves DEF TailInv
    <3> QED BY <1>3, <2>1, <2>2, <3>1 DEF Commit
  <2>3. ASSUME NEW q \in TaskRuns, Retain(q) PROVE row \in gone'[r]
    <3>1. q # r /\ \E S : gone' = [gone EXCEPT ![q] = S]
      BY <2>1, <2>3 DEF Retain
    <3> QED BY <1>3, <2>1, <3>1
  <2>4. ASSUME NEW q \in TaskRuns, Locked(q) \/ Cancel(q) PROVE row \in gone'[r] \cup story'.lost
    <3>1. story' = [story EXCEPT !.lost = @ \cup gone[q]] /\ \E how : Cut({q}, how)
      BY <2>4 DEF Locked, Cancel
    <3>2. q # r => gone'[r] = gone[r]
      BY <3>1 DEF Cut
    <3>3. story'.lost = story.lost \cup gone[q]
      BY <3>1 DEF FilesTyped, StoryOK
    <3> QED BY <1>3, <3>2, <3>3
  <2>5. ASSUME Crash PROVE row \in story'.lost
    <3>1. r \in {s \in TaskRuns : pc[s] \in {"loaded", "working"} \cup InTail}
      BY <2>1 DEF InTail
    <3>2. row \in UNION {gone[s] : s \in {t \in TaskRuns : pc[t] \in {"loaded", "working"} \cup InTail}}
      BY <1>3, <3>1
    <3> QED BY <2>5, <3>2 DEF Crash, FilesTyped, StoryOK
  <2>6. ASSUME gone' = gone PROVE row \in gone'[r]
    BY <1>3, <2>6
  <2> QED
    BY <2>2, <2>3, <2>4, <2>5, <2>6
       DEF FilesNext, Load, Begin, Work, Leave, Import, Capture, Record, SetCaps, DeleteRun, Clear, Request,
           ClearDirs, OperatorCommit, OperatorLocked, tail
<1> QED
  BY <1>1, <1>2, <1>3, LeavingIs

\* Whoever unlinks a stored file keeps account of it.
LEMMA TakenIsLeaving ==
  ASSUME FilesTyped, TailInv, FilesNext, NEW r \in TaskRuns, NEW n \in Names,
         outputs[r][n] # 0, outputs'[r][n] = 0
  PROVE  <<r, n>> \in Leaving'
<1>u. \A S : <<r, n>> \notin S => Unlinked(outputs, S)[r][n] = outputs[r][n]
  BY UnlinkedIs DEF FilesTyped, DirsOK
<1>t. outputs \in [TaskRuns -> [Names -> TaskRuns \cup {0}]]
  BY DEF FilesTyped, DirsOK
<1>1. ASSUME NEW q \in TaskRuns, Retain(q) PROVE <<r, n>> \in Leaving'
  <2>1. PICK S : S = Pruned(Visible(q), cap[q]) /\ outputs' = Unlinked(outputs, S)
                 /\ gone' = [gone EXCEPT ![q] = S]
    BY <1>1 DEF Retain
  <2>2. <<r, n>> \in S /\ gone'[q] = S
    BY <1>u, <2>1 DEF FilesTyped, TailOK
  <2> QED BY <2>2, LeavingIs
<1>2. ASSUME NEW kind, NEW S, Request(kind, S) PROVE <<r, n>> \in Leaving'
  <2>1. <<r, n>> \in S /\ op'.rows = S
    BY <1>2, <1>u DEF Request
  <2> QED BY <2>1, LeavingIs
<1>3. ASSUME ClearDirs PROVE <<r, n>> \in Leaving'
  <2>1. PICK S : outputs' = Unlinked(outputs, S) /\ story' = [story EXCEPT !.lost = @ \cup S]
    BY <1>3 DEF ClearDirs
  <2>2. <<r, n>> \in S /\ story'.lost = story.lost \cup S
    BY <1>u, <2>1 DEF FilesTyped, StoryOK
  <2> QED BY <2>2, LeavingIs
<1>b. r # 0
  BY RunsAre
<1>4. ASSUME NEW q \in TaskRuns, NEW S, Import(q, S) PROVE FALSE
  <2>1. outputs' = [outputs EXCEPT ![q] = [m \in Names |-> IF m \in S THEN q ELSE outputs[q][m]]]
    BY <1>4 DEF Import
  <2>2. q # r => outputs'[r] = outputs[r]
    BY <1>t, <2>1
  <2>3. outputs'[q] = [m \in Names |-> IF m \in S THEN q ELSE outputs[q][m]]
    BY <1>t, <2>1
  <2>4. q = r => outputs'[r][n] = IF n \in S THEN r ELSE outputs[r][n]
    BY <2>3
  <2> QED BY <1>b, <2>2, <2>4
<1>5. ASSUME NEW q \in TaskRuns, Capture(q) PROVE FALSE
  <2>1. PICK S : /\ outputs' = [outputs EXCEPT ![q] = [m \in Names |-> IF m \in S THEN scratch[m] ELSE outputs[q][m]]]
                 /\ \A m \in S : scratch[m] # 0
    <3> DEFINE S == Largest({m \in Names : scratch[m] # 0})
    <3>1. \A m \in S : scratch[m] # 0
      BY LargestIs
    <3>2. outputs' = [outputs EXCEPT ![q] = [m \in Names |-> IF m \in S THEN scratch[m] ELSE outputs[q][m]]]
      BY <1>5 DEF Capture
    <3> HIDE DEF S
    <3> QED BY <3>1, <3>2
  <2>2. q # r => outputs'[r] = outputs[r]
    BY <1>t, <2>1
  <2>3. outputs'[q] = [m \in Names |-> IF m \in S THEN scratch[m] ELSE outputs[q][m]]
    BY <1>t, <2>1
  <2>4. q = r => outputs'[r][n] = IF n \in S THEN scratch[n] ELSE outputs[r][n]
    BY <2>3
  <2> QED BY <2>1, <2>2, <2>4
<1>6. outputs' # outputs
  OBVIOUS
<1> QED
  BY <1>1, <1>2, <1>3, <1>4, <1>5, <1>6
     DEF FilesNext, Load, Begin, Work, Leave, Record, Commit, Locked, Cancel, Cut, Crash, SetCaps, DeleteRun,
         Clear, OperatorCommit, OperatorLocked, files

\* A run succeeds by its commit.
LEMMA SucceedsByCommit ==
  ASSUME FilesTyped, FilesNext, NEW r \in TaskRuns, pc[r] # "succeeded", pc'[r] = "succeeded"
  PROVE  Commit(r)
<1> USE DEF FilesTyped, TailOK
<1>1. ASSUME NEW q \in TaskRuns, Load(q) \/ Begin(q) \/ Capture(q) \/ Record(q) \/ Retain(q) PROVE FALSE
  BY <1>1 DEF Load, Begin, Capture, Record, Retain
<1>2. \A q \in TaskRuns : /\ \A how \in {"parked", "failed"} : ~ Leave(q, how)
                          /\ \A S : ~ Import(q, S)
                          /\ Commit(q) => q = r
  BY DEF Leave, Import, Commit
<1>3. ASSUME NEW S, NEW how \in {"failed", "cancelled"}, Cut(S, how) PROVE FALSE
  BY <1>3 DEF Cut
<1>4. (\A q \in TaskRuns : ~ Locked(q) /\ ~ Cancel(q)) /\ ~ Crash
  BY <1>3 DEF Locked, Cancel, Crash
<1>5. pc' # pc
  OBVIOUS
<1> QED
  BY <1>1, <1>2, <1>4, <1>5
     DEF FilesNext, Work, SetCaps, DeleteRun, Clear, Request, ClearDirs, OperatorCommit, OperatorLocked, tail

\* Rows and files agree after every step but for those named causes.
LEMMA MatchKeeps ==
  ASSUME FilesTyped, TailInv, RowsMatchFiles, FilesNext
  PROVE  RowsMatchFiles'
<1>a. ToSet(assets) \subseteq Rows /\ ToSet(assets') \subseteq Rows
  <2>1. StoreOK /\ StoreOK'
    BY StoreKeeps DEF FilesTyped, TailInv
  <2>2. assets \in Seq(Rows) /\ assets' \in Seq(Rows)
    BY <2>1 DEF StoreOK
  <2> QED BY <2>2, Members
<1>1. ASSUME NEW row \in ToSet(assets'), row \notin Leaving' PROVE outputs'[row[1]][row[2]] # 0
  <2>1. row \in Rows /\ row[1] \in TaskRuns /\ row[2] \in Names /\ row = <<row[1], row[2]>>
    BY <1>a DEF Rows
  <2>2. row \notin Leaving
    BY <1>1, <2>1, LeavingThen
  <2>3. outputs[row[1]][row[2]] # 0
    <3>1. CASE row \in ToSet(assets)
      BY <2>2, <3>1, LeavingIs DEF RowsMatchFiles
    <3>2. CASE row \notin ToSet(assets)
      <4>1. PICK r \in TaskRuns : Commit(r) /\ row[1] = r
        BY <3>2, RowsThen DEF TailInv
      <4>2. pc[r] \in InTail /\ row[2] \in ToSet(new[r])
        <5>1. PICK n \in ToSet(new[r]) : row = <<r, n>>
          BY <3>2, <4>1, CommitLeaves DEF TailInv
        <5>2. row[2] = n
          BY <5>1
        <5>3. pc[r] = "pruned"
          BY <4>1 DEF Commit
        <5> QED BY <5>2, <5>3 DEF InTail
      <4>3. row \notin story.lost \cup gone[r]
        BY <2>2, LeavingIs
      <4> QED BY <2>1, <4>1, <4>2, <4>3 DEF TailInv, NewHasFiles
    <3> QED BY <3>1, <3>2
  <2> QED BY <1>1, <2>1, <2>3, TakenIsLeaving
<1>2. ASSUME NEW r \in TaskRuns, NEW n \in Names, pc'[r] = "succeeded",
             outputs'[r][n] # 0 \/ history'[r][n] # 0
      PROVE  <<r, n>> \in ToSet(assets')
  <2>1. CASE pc[r] = "succeeded"
    <3>1. outputs[r][n] # 0 \/ history[r][n] # 0
      BY <1>2, <2>1, FilesThen
    <3>2. <<r, n>> \in ToSet(assets)
      BY <2>1, <3>1 DEF RowsMatchFiles
    <3>3. <<r, n>>[1] = r /\ <<r, n>>[2] = n
      OBVIOUS
    <3>4. <<r, n>> \notin op.rows /\ \A q \in TaskRuns : <<r, n>> \notin gone[q]
      BY <3>1, <3>3 DEF TailInv, LeavingHaveNone
    <3> QED BY <3>2, <3>4, RowsLeave DEF TailInv
  <2>2. CASE pc[r] # "succeeded"
    <3>1. Commit(r)
      BY <1>2, <2>2, SucceedsByCommit
    <3>2. pc[r] \in InTail /\ (outputs[r][n] # 0 \/ history[r][n] # 0)
      BY <1>2, <3>1 DEF Commit, InTail, files
    <3>3. n \in ToSet(new[r])
      BY <3>2 DEF TailInv, NewHasFiles
    <3>4. <<r, n>>[1] = r /\ <<r, n>>[2] = n
      OBVIOUS
    <3>5. <<r, n>> \notin gone[r]
      BY <3>2, <3>4 DEF TailInv, LeavingHaveNone
    <3> QED BY <3>1, <3>3, <3>5, CommitLeaves DEF TailInv
  <2> QED BY <2>1, <2>2
<1>3. \A row \in ToSet(assets') \ ((op'.rows \cup UNION {gone'[r] : r \in TaskRuns}) \cup story'.lost) :
        outputs'[row[1]][row[2]] # 0
  <2> SUFFICES ASSUME NEW row \in ToSet(assets'), row \notin op'.rows, row \notin story'.lost,
                      row \notin UNION {gone'[r] : r \in TaskRuns}
               PROVE  outputs'[row[1]][row[2]] # 0
    OBVIOUS
  <2>1. \A r \in TaskRuns : row \notin gone'[r]
    OBVIOUS
  <2> QED BY <1>1, <2>1, LeavingIs
<1> QED
  BY <1>2, <1>3 DEF RowsMatchFiles

\* Only a run that starts or writes changes the scratch or what is told of it.
LEMMA ScratchThen ==
  ASSUME FilesTyped, FilesNext
  PROVE  \/ \E q \in TaskRuns : Begin(q) \/ \E n \in Names : Work(q, n)
         \/ /\ scratch' = scratch /\ story'.wrote = story.wrote /\ story'.mixed = story.mixed
            /\ \A q \in TaskRuns : pc'[q] \in Using => pc[q] \in Using
<1> USE DEF FilesTyped, TailOK, StoryOK
<1> DEFINE Same == /\ scratch' = scratch /\ story'.wrote = story.wrote /\ story'.mixed = story.mixed
                   /\ \A q \in TaskRuns : pc'[q] \in Using => pc[q] \in Using
<1>1. ASSUME NEW q \in TaskRuns, Load(q) \/ Capture(q) \/ Record(q) \/ Retain(q) \/ Commit(q) PROVE Same
  <2>1. scratch' = scratch /\ story' = story
    BY <1>1 DEF Load, Capture, Record, Retain, Commit, files
  <2>2. PICK how \in {"loaded", "captured", "recorded", "pruned", "succeeded"} : pc' = [pc EXCEPT ![q] = how]
    BY <1>1 DEF Load, Capture, Record, Retain, Commit
  <2>3. how \notin Using
    BY DEF Using
  <2> QED BY <2>1, <2>2, <2>3
<1>2. ASSUME NEW q \in TaskRuns, NEW how \in {"parked", "failed"}, Leave(q, how) PROVE Same
  BY <1>2 DEF Leave, files, Using
<1>3. ASSUME NEW q \in TaskRuns, NEW S, Import(q, S) PROVE Same
  <2>1. scratch' = scratch /\ story' = story /\ pc[q] = "working" /\ pc' = [pc EXCEPT ![q] = "imported"]
    BY <1>3 DEF Import
  <2> QED BY <2>1 DEF Using
<1>4. ASSUME NEW S, NEW how \in {"failed", "cancelled"}, Cut(S, how),
             \E l : story' = [story EXCEPT !.lost = l]
      PROVE  Same
  <2>1. scratch' = scratch /\ pc' = [q \in TaskRuns |-> IF q \in S THEN how ELSE pc[q]]
    BY <1>4 DEF Cut, files
  <2>2. how \notin Using
    BY DEF Using
  <2>3. story'.wrote = story.wrote /\ story'.mixed = story.mixed
    BY <1>4
  <2> QED BY <2>1, <2>2, <2>3
<1>5. \A q \in TaskRuns : Locked(q) \/ Cancel(q) => Same
  BY <1>4 DEF Locked, Cancel
<1>6. Crash => Same
  BY <1>4 DEF Crash
<1>7. ASSUME UNCHANGED pc, UNCHANGED scratch, \E l : story' = [story EXCEPT !.lost = l] PROVE Same
  BY <1>7
<1>8. ClearDirs \/ OperatorLocked => Same
  BY <1>7 DEF ClearDirs, OperatorLocked, tail, files
<1>9. ASSUME UNCHANGED pc, UNCHANGED scratch, UNCHANGED story PROVE Same
  BY <1>9
<1>10. \A q \in TaskRuns : DeleteRun(q) => Same
  BY <1>9 DEF DeleteRun, Request, tail
<1>11. Clear \/ OperatorCommit \/ (\E c \in Caps : SetCaps(c)) => Same
  BY <1>9 DEF Clear, Request, OperatorCommit, SetCaps, tail, files
<1> HIDE DEF Same
<1>12. Same \/ \E q \in TaskRuns : Begin(q) \/ \E n \in Names : Work(q, n)
  BY <1>1, <1>2, <1>3, <1>5, <1>6, <1>8, <1>10, <1>11 DEF FilesNext
<1> QED
  BY <1>12 DEF Same

\* A run alone keeps the scratch to itself until another begins.
LEMMA ScratchKeeps ==
  ASSUME FilesTyped, ScratchIsOwn, FilesNext
  PROVE  ScratchIsOwn'
<1> SUFFICES ASSUME NEW r \in TaskRuns, r \notin story'.mixed, pc'[r] \in Using
             PROVE  /\ \A q \in TaskRuns \ {r} : pc'[q] \notin Using
                    /\ \A n \in Names : scratch'[n] = IF n \in story'.wrote[r] THEN r ELSE 0
  BY DEF ScratchIsOwn
<1> USE DEF FilesTyped, TailOK, DirsOK, StoryOK
<1>1. ASSUME NEW q \in TaskRuns, Begin(q)
      PROVE  /\ \A p \in TaskRuns \ {r} : pc'[p] \notin Using
             /\ \A n \in Names : scratch'[n] = IF n \in story'.wrote[r] THEN r ELSE 0
  <2>1. PICK others : others = {s \in TaskRuns \ {q} : pc[s] \in Using}
    OBVIOUS
  <2>2. PICK m : m = IF others = {} THEN {} ELSE others \cup {q}
    OBVIOUS
  <2>3. /\ pc' = [pc EXCEPT ![q] = "working"] /\ scratch' = Nothing
        /\ story' = [story EXCEPT !.wrote[q] = {}, !.mixed = (@ \ {q}) \cup m]
    BY <1>1, <2>1, <2>2 DEF Begin
  <2>4. r \notin m /\ story'.wrote = [story.wrote EXCEPT ![q] = {}]
    BY <2>3
  <2>5. r = q
    <3>1. r # q => pc[r] \in Using
      BY <2>3
    <3> QED BY <2>1, <2>2, <2>4, <3>1
  <2>6. others = {}
    BY <2>2, <2>4, <2>5
  <2>7. \A p \in TaskRuns \ {r} : pc'[p] = pc[p] /\ p \notin others
    BY <2>3, <2>5, <2>6
  <2>8. story'.wrote[r] = {}
    BY <2>4, <2>5
  <2> QED BY <2>1, <2>3, <2>5, <2>7, <2>8 DEF Nothing
<1>2. ASSUME NEW q \in TaskRuns, NEW m \in Names, Work(q, m)
      PROVE  /\ \A p \in TaskRuns \ {r} : pc'[p] \notin Using
             /\ \A n \in Names : scratch'[n] = IF n \in story'.wrote[r] THEN r ELSE 0
  <2>1. /\ pc' = pc /\ pc[q] = "working" /\ scratch' = [scratch EXCEPT ![m] = q]
        /\ story' = [story EXCEPT !.wrote[q] = @ \cup {m}]
    BY <1>2 DEF Work, tail
  <2>2. story'.mixed = story.mixed /\ story'.wrote = [story.wrote EXCEPT ![q] = @ \cup {m}]
    BY <2>1
  <2>3. q = r
    BY <2>1, <2>2 DEF ScratchIsOwn, Using
  <2>4. story'.wrote[r] = story.wrote[r] \cup {m}
    BY <2>2, <2>3
  <2> QED BY <2>1, <2>2, <2>3, <2>4 DEF ScratchIsOwn
<1>3. ASSUME scratch' = scratch, story'.wrote = story.wrote, story'.mixed = story.mixed,
             \A q \in TaskRuns : pc'[q] \in Using => pc[q] \in Using
      PROVE  /\ \A p \in TaskRuns \ {r} : pc'[p] \notin Using
             /\ \A n \in Names : scratch'[n] = IF n \in story'.wrote[r] THEN r ELSE 0
  BY <1>3 DEF ScratchIsOwn
<1> QED
  BY <1>1, <1>2, <1>3, ScratchThen

\* A run that was captured stays as it was captured until it is pruned.
LEMMA TailThen ==
  ASSUME FilesTyped, FilesNext, NEW r \in TaskRuns, pc'[r] \in {"imported", "captured", "recorded"}
  PROVE  \/ \E S \in SUBSET Referenced : Import(r, S) /\ pc'[r] = "imported"
         \/ Capture(r) /\ pc'[r] = "captured"
         \/ /\ new'[r] = new[r] /\ pc'[r] = pc[r]
            /\ pc[r] = "imported" => \A n \in Names : outputs'[r][n] \in {0, outputs[r][n]}
         \/ /\ new'[r] = new[r] /\ Record(r) /\ pc[r] = "captured" /\ pc'[r] = "recorded"
<1>u. \A S : \A n \in Names : Unlinked(outputs, S)[r][n] \in {0, outputs[r][n]}
  <2>1. \A S : \A n \in Names : Unlinked(outputs, S)[r][n] = IF <<r, n>> \in S THEN 0 ELSE outputs[r][n]
    BY UnlinkedIs DEF FilesTyped, DirsOK
  <2> QED BY <2>1
<1> USE DEF FilesTyped, TailOK, DirsOK
<1> DEFINE Same == /\ new'[r] = new[r] /\ pc'[r] = pc[r]
                   /\ pc[r] = "imported" => \A n \in Names : outputs'[r][n] \in {0, outputs[r][n]}
           Goal == \/ \E S \in SUBSET Referenced : Import(r, S) /\ pc'[r] = "imported"
                   \/ Capture(r) /\ pc'[r] = "captured"
                   \/ Same
                   \/ new'[r] = new[r] /\ Record(r) /\ pc[r] = "captured" /\ pc'[r] = "recorded"
<1>1. ASSUME NEW q \in TaskRuns, Load(q) \/ Begin(q) \/ Commit(q) PROVE Same
  <2>1. PICK how \in {"loaded", "working", "succeeded"} : pc' = [pc EXCEPT ![q] = how]
    BY <1>1 DEF Load, Begin, Commit
  <2>2. q # r
    BY <2>1
  <2>3. outputs' = outputs /\ new'[r] = new[r]
    BY <1>1, <2>2 DEF Load, Begin, Commit, files
  <2> QED BY <2>1, <2>2, <2>3
<1>2. ASSUME NEW q \in TaskRuns, NEW how \in {"parked", "failed"}, Leave(q, how) PROVE Same
  BY <1>2 DEF Leave, files
<1>3. ASSUME NEW q \in TaskRuns, NEW n \in Names, Work(q, n) PROVE Same
  BY <1>3 DEF Work, tail
<1>4. ASSUME NEW q \in TaskRuns, NEW S \in SUBSET Referenced, Import(q, S) PROVE Goal
  <2>1. PICK c, d : /\ new' = [new EXCEPT ![q] = c] /\ outputs' = [outputs EXCEPT ![q] = d]
                    /\ pc' = [pc EXCEPT ![q] = "imported"]
    BY <1>4 DEF Import
  <2>2. CASE q = r
    BY <1>4, <2>1, <2>2
  <2>3. CASE q # r
    BY <2>1, <2>3
  <2> QED BY <2>2, <2>3
<1>5. ASSUME NEW q \in TaskRuns, Capture(q) PROVE Goal
  <2>1. PICK c, d : /\ new' = [new EXCEPT ![q] = c] /\ outputs' = [outputs EXCEPT ![q] = d]
                    /\ pc' = [pc EXCEPT ![q] = "captured"]
    BY <1>5 DEF Capture
  <2>2. CASE q = r
    BY <1>5, <2>1, <2>2
  <2>3. CASE q # r
    BY <2>1, <2>3
  <2> QED BY <2>2, <2>3
<1>6. ASSUME NEW q \in TaskRuns, Record(q) PROVE Goal
  <2>1. pc[q] = "captured" /\ pc' = [pc EXCEPT ![q] = "recorded"] /\ new' = new /\ outputs' = outputs
    BY <1>6 DEF Record
  <2>2. CASE q = r
    BY <1>6, <2>1, <2>2
  <2>3. CASE q # r
    BY <2>1, <2>3
  <2> QED BY <2>2, <2>3
<1>7. ASSUME NEW q \in TaskRuns, Retain(q) PROVE Same
  <2>1. /\ pc' = [pc EXCEPT ![q] = "pruned"] /\ new' = new
        /\ \E S : outputs' = Unlinked(outputs, S)
    BY <1>7 DEF Retain
  <2>2. q # r
    BY <2>1
  <2> QED BY <1>u, <2>1, <2>2
<1>8. ASSUME NEW S, NEW how \in {"failed", "cancelled"}, Cut(S, how) PROVE Same
  <2>1. r \notin S
    BY <1>8 DEF Cut
  <2> QED BY <1>8, <2>1 DEF Cut, files
<1>9. (\A q \in TaskRuns : Locked(q) \/ Cancel(q) => Same) /\ (Crash => Same)
  BY <1>8 DEF Locked, Cancel, Crash
<1>10. ASSUME NEW S, outputs' = Unlinked(outputs, S), UNCHANGED tail PROVE Same
  BY <1>10, <1>u DEF tail
<1>11. (\A q \in TaskRuns : DeleteRun(q) => Same) /\ (Clear \/ ClearDirs => Same)
  BY <1>10 DEF DeleteRun, Clear, ClearDirs, Request
<1>12. OperatorCommit \/ OperatorLocked \/ (\E c \in Caps : SetCaps(c)) => Same
  BY DEF OperatorCommit, OperatorLocked, SetCaps, tail, files
<1>13. {} \in SUBSET Referenced /\ \A n \in Referenced : {n} \in SUBSET Referenced
  OBVIOUS
<1> HIDE DEF Same
<1>14. Goal
  <2>1. Same => Goal
    OBVIOUS
  <2> HIDE DEF Goal
  <2> QED
    BY <1>1, <1>2, <1>3, <1>4, <1>5, <1>6, <1>7, <1>9, <1>11, <1>12, <1>13, <2>1 DEF FilesNext
<1> QED
  BY <1>14 DEF Same

LEMMA ImportsKeep ==
  ASSUME FilesTyped, ByPhase, ImportsOwn, FilesNext
  PROVE  ImportsOwn'
<1> SUFFICES ASSUME NEW r \in TaskRuns, pc'[r] = "imported"
             PROVE  ToSet(new'[r]) \subseteq Referenced /\ \A n \in Names : outputs'[r][n] \in {0, r}
  BY DEF ImportsOwn
<1>1. ASSUME NEW S \in SUBSET Referenced, Import(r, S)
      PROVE  ToSet(new'[r]) \subseteq Referenced /\ \A n \in Names : outputs'[r][n] \in {0, r}
  <2>1. /\ new'[r] = InOrder(S)
        /\ outputs'[r] = [n \in Names |-> IF n \in S THEN r ELSE outputs[r][n]]
    BY <1>1 DEF Import, FilesTyped, TailOK, DirsOK
  <2>2. outputs[r] = Nothing
    BY <1>1 DEF Import, ByPhase, Early
  <2>3. \A n \in Names : outputs[r][n] = 0
    BY <2>2 DEF Nothing
  <2>4. S \in SUBSET Names
    BY NamesAre
  <2>5. ToSet(new'[r]) = S
    BY <2>1, <2>4, InOrderIs
  <2> QED BY <2>1, <2>3, <2>5
<1>2. CASE pc[r] = "imported" /\ new'[r] = new[r] /\ \A n \in Names : outputs'[r][n] \in {0, outputs[r][n]}
  BY <1>2 DEF ImportsOwn
<1> QED
  BY <1>1, <1>2, TailThen

\* What it captures is what it wrote.
LEMMA OwnKeeps ==
  ASSUME FilesTyped, ScratchIsOwn, ImportsOwn, CapturesItsOwn, FilesNext
  PROVE  CapturesItsOwn'
<1> SUFFICES ASSUME NEW r \in TaskRuns, r \notin story'.mixed, pc'[r] \in {"captured", "recorded"}
             PROVE  /\ Largest(story'.wrote[r]) \subseteq ToSet(new'[r])
                    /\ ToSet(new'[r]) \subseteq Largest(story'.wrote[r]) \cup Referenced
                    /\ \A n \in Names : outputs'[r][n] \in {0, r}
  BY DEF CapturesItsOwn
<1>1. story'.wrote[r] = story.wrote[r] /\ r \notin story.mixed
  <2>1. ASSUME NEW q \in TaskRuns, Begin(q) PROVE story'.wrote[r] = story.wrote[r] /\ r \notin story.mixed
    <3>1. PICK m : /\ pc' = [pc EXCEPT ![q] = "working"]
                   /\ story' = [story EXCEPT !.wrote[q] = {}, !.mixed = (@ \ {q}) \cup m]
      BY <2>1 DEF Begin
    <3>2. q # r
      BY <3>1 DEF FilesTyped, TailOK
    <3>3. story'.mixed = (story.mixed \ {q}) \cup m /\ story'.wrote = [story.wrote EXCEPT ![q] = {}]
      BY <3>1 DEF FilesTyped, StoryOK
    <3> QED BY <3>2, <3>3 DEF FilesTyped, StoryOK
  <2>2. ASSUME NEW q \in TaskRuns, NEW n \in Names, Work(q, n)
        PROVE  story'.wrote[r] = story.wrote[r] /\ r \notin story.mixed
    <3>1. pc' = pc /\ pc[q] = "working" /\ story' = [story EXCEPT !.wrote[q] = @ \cup {n}]
      BY <2>2 DEF Work, tail
    <3>2. q # r
      BY <3>1
    <3>3. story'.mixed = story.mixed /\ story'.wrote = [story.wrote EXCEPT ![q] = @ \cup {n}]
      BY <3>1 DEF FilesTyped, StoryOK
    <3> QED BY <3>2, <3>3 DEF FilesTyped, StoryOK
  <2> QED BY <2>1, <2>2, ScratchThen
<1>2. CASE Capture(r)
  <2>1. pc[r] = "imported" /\ pc[r] \in Using
    BY <1>2 DEF Capture, Using
  <2>2. \A n \in Names : scratch[n] = IF n \in story.wrote[r] THEN r ELSE 0
    BY <1>1, <2>1 DEF ScratchIsOwn
  <2>3. r # 0 /\ story.wrote[r] \subseteq Names
    BY RunsAre DEF FilesTyped, StoryOK
  <2>4. {n \in Names : scratch[n] # 0} = story.wrote[r]
    BY <2>2, <2>3
  <2>5. PICK S \in SUBSET Names : S = Largest(story.wrote[r]) /\ S \subseteq story.wrote[r]
    <3>1. Largest(story.wrote[r]) \subseteq story.wrote[r]
      BY LargestIs
    <3> QED BY <2>3, <3>1
  <2>6. /\ new'[r] = InOrder(S) \o Without(new[r], S)
        /\ outputs'[r] = [n \in Names |-> IF n \in S THEN scratch[n] ELSE outputs[r][n]]
    <3>1. /\ new' = [new EXCEPT ![r] = InOrder(S) \o Without(@, S)]
          /\ outputs' = [outputs EXCEPT ![r] = [n \in Names |-> IF n \in S THEN scratch[n] ELSE @[n]]]
      BY <1>2, <2>4, <2>5 DEF Capture
    <3> QED BY <3>1 DEF FilesTyped, TailOK, DirsOK
  <2>7. ToSet(new'[r]) = S \cup ToSet(new[r])
    BY <2>6, CapturedIs
  <2>8. ToSet(new[r]) \subseteq Referenced /\ \A n \in Names : outputs[r][n] \in {0, r}
    BY <2>1 DEF ImportsOwn
  <2> QED BY <1>1, <2>2, <2>5, <2>6, <2>7, <2>8
<1>3. CASE pc[r] \in {"captured", "recorded"} /\ new'[r] = new[r]
  <2>1. \A n \in Names : outputs'[r][n] \in {0, outputs[r][n]}
    BY <1>3, FilesThen
  <2>2. \A n \in Names : outputs[r][n] \in {0, r}
    BY <1>1, <1>3 DEF CapturesItsOwn
  <2> QED BY <1>1, <1>3, <2>1, <2>2 DEF CapturesItsOwn
<1> QED
  BY <1>2, <1>3, TailThen

\* A run that has pruned keeps what it holds while others step.
LEMMA PrunedThen ==
  ASSUME FilesTyped, FilesNext, NEW r \in TaskRuns, pc'[r] = "pruned"
  PROVE  \/ Retain(r)
         \/ /\ pc[r] = "pruned" /\ gone'[r] = gone[r] /\ new'[r] = new[r] /\ cap'[r] = cap[r]
            /\ \/ assets' = assets /\ (lock' = r => lock = r)
               \/ \E q \in TaskRuns \ {r} : Commit(q)
               \/ OperatorCommit
<1>a. r # 0 /\ r # -1 /\ 0 \notin TaskRuns /\ -1 \notin TaskRuns
  BY RunsAre
<1> USE DEF FilesTyped, TailOK
<1> DEFINE Holds == pc[r] = "pruned" /\ gone'[r] = gone[r] /\ new'[r] = new[r] /\ cap'[r] = cap[r]
           Same == Holds /\ assets' = assets /\ (lock' = r => lock = r)
<1>1. ASSUME NEW q \in TaskRuns, Load(q) \/ Begin(q) PROVE Same
  <2>1. q # r /\ lock' = lock /\ assets' = assets
    BY <1>1 DEF Load, Begin, store
  <2> QED BY <1>1, <2>1 DEF Load, Begin
<1>2. ASSUME NEW q \in TaskRuns, NEW how \in {"parked", "failed"}, Leave(q, how) PROVE Same
  BY <1>2 DEF Leave, store
<1>3. ASSUME NEW q \in TaskRuns, NEW n \in Names, Work(q, n) PROVE Same
  BY <1>3 DEF Work, tail, store
<1>4. ASSUME NEW q \in TaskRuns, NEW S, Import(q, S) PROVE Same
  <2>1. PICK c : new' = [new EXCEPT ![q] = c]
    BY <1>4 DEF Import
  <2> QED BY <1>4, <2>1 DEF Import, store
<1>5. ASSUME NEW q \in TaskRuns, Capture(q) PROVE Same
  <2>1. PICK c : /\ new' = [new EXCEPT ![q] = c] /\ pc' = [pc EXCEPT ![q] = "captured"]
                 /\ UNCHANGED <<cap, gone, store>>
    BY <1>5 DEF Capture
  <2> QED BY <2>1 DEF store
<1>6. ASSUME NEW q \in TaskRuns, Record(q) PROVE Same
  BY <1>6, <1>a DEF Record
<1>7. ASSUME NEW q \in TaskRuns \ {r}, Retain(q) PROVE Same
  <2>1. PICK c : /\ gone' = [gone EXCEPT ![q] = c] /\ pc' = [pc EXCEPT ![q] = "pruned"]
                 /\ UNCHANGED <<cap, new, store>>
    BY <1>7 DEF Retain
  <2> QED BY <2>1 DEF store
<1>8. ASSUME NEW q \in TaskRuns, Commit(q) PROVE q # r /\ Holds
  <2>1. q # r
    BY <1>8 DEF Commit
  <2> QED BY <1>8, <2>1 DEF Commit
<1>9. ASSUME NEW S, NEW how \in {"failed", "cancelled"}, Cut(S, how) PROVE Holds /\ assets' = assets
  <2>1. r \notin S
    BY <1>9 DEF Cut
  <2> QED BY <1>9, <2>1 DEF Cut
<1>10. ASSUME NEW q \in TaskRuns, Locked(q) \/ Cancel(q) PROVE Same
  <2>1. lock' = r => lock = r
    BY <1>10, <1>a DEF Locked, Cancel
  <2> QED BY <1>9, <1>10, <2>1 DEF Locked, Cancel
<1>11. Crash => Same
  BY <1>9, <1>a DEF Crash
<1>12. ASSUME UNCHANGED tail, UNCHANGED assets, lock' = r => lock = r PROVE Same
  BY <1>12 DEF tail
<1>13. \A q \in TaskRuns : DeleteRun(q) => Same
  BY <1>12 DEF DeleteRun, Request
<1>14. Clear => Same
  BY <1>12, <1>a DEF Clear, Request
<1>15. ClearDirs \/ OperatorLocked \/ (\E c \in Caps : SetCaps(c)) => Same
  BY <1>12 DEF ClearDirs, OperatorLocked, SetCaps, store
<1>16. OperatorCommit => Holds
  BY DEF OperatorCommit, tail
<1> HIDE DEF Same
<1>17. Retain(r) \/ Same \/ (\E q \in TaskRuns \ {r} : Commit(q) /\ Holds) \/ (OperatorCommit /\ Holds)
  <2> HIDE DEF Holds
  <2> QED
    BY <1>1, <1>2, <1>3, <1>4, <1>5, <1>6, <1>7, <1>8, <1>10, <1>11, <1>13, <1>14, <1>15, <1>16 DEF FilesNext
<1> QED
  BY <1>17 DEF Same

\* What is oldest among the rows stays so when some are dropped.
LEMMA OldestStays ==
  ASSUME NEW T, NEW s \in Seq(T), NEW all \in Seq(T), NEW S, NEW U,
         Len(s) <= Len(all), \A i \in 1..Len(s) : all[i] = s[i],
         \A i \in 1..Len(all) : i > Len(s) => all[i] \notin S,
         \A i, j \in 1..Len(s) : i < j /\ s[j] \in S => s[i] \in S
  PROVE  \A i, j \in 1..Len(Only(all, U)) : i < j /\ Only(all, U)[j] \in S => Only(all, U)[i] \in S
<1>1. PICK o : o = Only(all, U)
  OBVIOUS
<1>2. PICK e : Places(e, o, all, U)
  BY <1>1, OnlyPlaces
<1>3. o \in Seq(T) /\ Len(o) \in Nat /\ Len(s) \in Nat /\ Len(all) \in Nat
  BY <1>1, OnlyPlaces, LenProperties
<1>4. ASSUME NEW i \in 1..Len(o), NEW j \in 1..Len(o), i < j, o[j] \in S PROVE o[i] \in S
  <2>1. /\ e[i] \in 1..Len(all) /\ e[j] \in 1..Len(all) /\ e[i] < e[j]
        /\ o[i] = all[e[i]] /\ o[j] = all[e[j]]
    BY <1>2, <1>4 DEF Places
  <2>2. e[j] \in 1..Len(s)
    BY <1>3, <1>4, <2>1
  <2>3. e[i] \in 1..Len(s)
    BY <1>3, <2>1, <2>2
  <2>4. s[e[j]] \in S
    BY <1>4, <2>1, <2>2
  <2>5. s[e[i]] \in S
    BY <2>1, <2>2, <2>3, <2>4
  <2> QED BY <2>1, <2>3, <2>5
<1> QED
  BY <1>1, <1>4

\* What a pass will drop stays the oldest of what is there, also when others commit.
LEMMA OldestKeeps ==
  ASSUME FilesTyped, ByPhase, RowsFinal, OldestGone, FilesNext
  PROVE  OldestGone'
<1> SUFFICES ASSUME NEW r \in TaskRuns, pc'[r] = "pruned"
             PROVE  LET all == assets' \o RowsOf(r)' IN
                    /\ \A i, j \in 1..Len(all) : i < j /\ all[j] \in gone'[r] => all[i] \in gone'[r]
                    /\ lock' = r => gone'[r] = Pruned(all, cap'[r])
  BY DEF OldestGone
<1> DEFINE all == assets \o RowsOf(r)
<1>1. new'[r] = new[r] => RowsOf(r)' = RowsOf(r)
  BY DEF RowsOf
<1>2. CASE Retain(r)
  <2>1. /\ pc[r] = "recorded" /\ new' = new /\ assets' = assets /\ lock' = lock /\ cap' = cap
        /\ gone'[r] = Pruned(Visible(r), cap[r])
    BY <1>2 DEF Retain, store, FilesTyped, TailOK
  <2>2. /\ all \in Seq(Rows) /\ IsInjective(all)
        /\ new[r] = <<>> => all = assets
    BY <2>1, AllRows
  <2>3. Visible(r) = all
    BY <2>1, <2>2 DEF Visible, FilesTyped, LockOK
  <2>4. cap[r] \in [count : Nat \cup {Unlimited}, bytes : Nat \cup {Unlimited}]
    BY FilesAssumption DEF FilesTyped, TailOK
  <2>5. assets' \o RowsOf(r)' = all
    BY <1>1, <2>1
  <2> HIDE DEF all
  <2>6. PICK k \in 0..Len(all) : Pruned(all, cap[r]) = ToSet(SubSeq(all, 1, k))
    BY <2>2, <2>4, PrunedIs
  <2>7. \A i \in 1..Len(all) : all[i] \in gone'[r] <=> i <= k
    BY <2>1, <2>2, <2>3, <2>6, FirstPart
  <2>8. \A i, j \in 1..Len(all) : i < j /\ all[j] \in gone'[r] => all[i] \in gone'[r]
    <3>1. k \in Nat /\ Len(all) \in Nat
      BY <2>2, <2>6, LenProperties
    <3> QED BY <2>7, <3>1
  <2> QED BY <2>1, <2>3, <2>5, <2>8
<1>3. CASE /\ pc[r] = "pruned" /\ gone'[r] = gone[r] /\ new'[r] = new[r] /\ cap'[r] = cap[r]
           /\ assets' = assets /\ (lock' = r => lock = r)
  BY <1>1, <1>3 DEF OldestGone
<1>4. ASSUME pc[r] = "pruned", gone'[r] = gone[r], new'[r] = new[r], lock # r, lock' # r,
             NEW s \in Seq(Rows), NEW U, assets' = Only(s, U),
             Len(assets) <= Len(s), \A i \in 1..Len(assets) : s[i] = assets[i],
             \A i \in 1..Len(s) : i > Len(assets) => s[i] \notin gone[r]
      PROVE  LET after == assets' \o RowsOf(r)' IN
             /\ \A i, j \in 1..Len(after) : i < j /\ after[j] \in gone'[r] => after[i] \in gone'[r]
             /\ lock' = r => gone'[r] = Pruned(after, cap'[r])
  <2>1. new[r] = <<>>
    BY <1>4 DEF FilesTyped, LockOK
  <2>2. assets \in Seq(Rows) /\ all = assets /\ RowsOf(r) = <<>>
    <3>1. assets \in Seq(Rows)
      BY DEF FilesTyped, StoreOK
    <3>2. RowsOf(r) = <<>>
      BY <2>1, RowsOfIs DEF FilesTyped, TailOK
    <3> QED BY <3>1, <3>2, ConcatEmptySeq
  <2>3. \A i, j \in 1..Len(assets) : i < j /\ assets[j] \in gone[r] => assets[i] \in gone[r]
    BY <1>4, <2>2 DEF OldestGone
  <2>4. assets' \in Seq(Rows)
    BY <1>4, OnlyIs
  <2>5. assets' \o RowsOf(r)' = assets'
    BY <1>1, <1>4, <2>2, <2>4, ConcatEmptySeq
  <2>6. \A i, j \in 1..Len(Only(s, U)) : i < j /\ Only(s, U)[j] \in gone[r] => Only(s, U)[i] \in gone[r]
    BY <1>4, <2>2, <2>3, OldestStays
  <2> QED BY <1>4, <2>5, <2>6
<1>5. ASSUME NEW q \in TaskRuns \ {r}, Commit(q),
             pc[r] = "pruned", gone'[r] = gone[r], new'[r] = new[r], cap'[r] = cap[r]
      PROVE  LET after == assets' \o RowsOf(r)' IN
             /\ \A i, j \in 1..Len(after) : i < j /\ after[j] \in gone'[r] => after[i] \in gone'[r]
             /\ lock' = r => gone'[r] = Pruned(after, cap'[r])
  <2>1. /\ pc[q] = "pruned" /\ lock # r /\ lock' # r
        /\ assets' = Without(assets \o RowsOf(q), gone[q])
    BY <1>5, RunsAre DEF Commit
  <2>2. PICK s \in Seq(Rows) : s = assets \o RowsOf(q)
    BY <2>1, AllRows
  <2>3. /\ assets \in Seq(Rows) /\ RowsOf(q) \in Seq(Rows)
        /\ \A row : row \in ToSet(RowsOf(q)) <=> \E n \in ToSet(new[q]) : row = <<q, n>>
    BY RowsOfIs DEF FilesTyped, TailOK, StoreOK
  <2>4. /\ Len(s) = Len(assets) + Len(RowsOf(q))
        /\ \A i \in 1..(Len(assets) + Len(RowsOf(q))) :
             s[i] = IF i <= Len(assets) THEN assets[i] ELSE RowsOf(q)[i - Len(assets)]
    BY <2>2, <2>3, ConcatProperties
  <2>5. PICK m \in Nat, n \in Nat : m = Len(assets) /\ n = Len(RowsOf(q))
    BY <2>3, LenProperties
  <2>6. Len(assets) <= Len(s) /\ \A i \in 1..Len(assets) : s[i] = assets[i]
    BY <2>4, <2>5
  <2>7. ASSUME NEW i \in 1..Len(s), i > Len(assets) PROVE s[i] \notin gone[r]
    <3>1. i - m \in 1..n /\ s[i] = RowsOf(q)[i - m]
      BY <2>4, <2>5, <2>7
    <3>2. s[i] \in ToSet(RowsOf(q))
      BY <2>3, <2>5, <3>1, Members
    <3>3. s[i][1] = q
      BY <2>3, <3>2
    <3> QED BY <1>5, <2>1, <3>3 DEF RowsFinal
  <2>8. assets' = Only(s, ToSet(s) \ gone[q])
    BY <2>1, <2>2 DEF Without
  <2> QED BY <1>4, <1>5, <2>1, <2>6, <2>7, <2>8
<1>6. ASSUME OperatorCommit,
             pc[r] = "pruned", gone'[r] = gone[r], new'[r] = new[r], cap'[r] = cap[r]
      PROVE  LET after == assets' \o RowsOf(r)' IN
             /\ \A i, j \in 1..Len(after) : i < j /\ after[j] \in gone'[r] => after[i] \in gone'[r]
             /\ lock' = r => gone'[r] = Pruned(after, cap'[r])
  <2>1. lock # r /\ lock' # r /\ assets' = Only(assets, ToSet(assets) \ op.rows)
    BY <1>6, RunsAre DEF OperatorCommit, Without
  <2>2. PICK s \in Seq(Rows) : s = assets /\ Len(s) \in Nat
    BY LenProperties DEF FilesTyped, StoreOK
  <2>3. /\ Len(assets) <= Len(s) /\ \A i \in 1..Len(assets) : s[i] = assets[i]
        /\ \A i \in 1..Len(s) : i > Len(assets) => s[i] \notin gone[r]
    BY <2>2
  <2> QED BY <1>4, <1>6, <2>1, <2>2, <2>3
<1> QED
  BY <1>2, <1>3, <1>5, <1>6, PrunedThen

-----------------------------------------------------------------------------
\* The invariant of the rows, the files and the scratch.
FilesInv ==
  /\ FilesTyped /\ TailInv /\ RowsMatchFiles
  /\ ScratchIsOwn /\ ImportsOwn /\ CapturesItsOwn /\ OldestGone

\* The invariant holds at the start and every step keeps it.
LEMMA FilesInitially == FilesInit => FilesInv
<1> SUFFICES ASSUME FilesInit PROVE FilesInv
  OBVIOUS
<1> USE DEF FilesInit
<1>1. <<>> \in Seq(Names) /\ <<>> \in Seq(Rows) /\ IsInjective(<<>>) /\ ToSet(<<>>) = {}
  BY EmptySeq DEF IsInjective, ToSet
<1>2. TailOK
  BY <1>1 DEF TailOK, Pcs
<1>3. DirsOK
  BY DEF DirsOK, Nothing
<1>4. StoreOK
  BY <1>1 DEF StoreOK, Idle
<1>5. LockOK
  BY RunsAre DEF LockOK
<1>6. StoryOK
  BY DEF StoryOK
<1>7. TailInv
  BY <1>1 DEF TailInv, ByPhase, RowsFinal, NewHasFiles, LeavingHaveNone, Early, InTail, Idle
<1>8. RowsMatchFiles
  BY <1>1 DEF RowsMatchFiles
<1>9. ScratchIsOwn /\ ImportsOwn /\ CapturesItsOwn /\ OldestGone
  BY DEF ScratchIsOwn, ImportsOwn, CapturesItsOwn, OldestGone, Using
<1> QED
  BY <1>2, <1>3, <1>4, <1>5, <1>6, <1>7, <1>8, <1>9 DEF FilesInv, FilesTyped

LEMMA FilesStep == FilesInv /\ [FilesNext]_filesVars => FilesInv'
<1>1. ASSUME FilesInv, FilesNext PROVE FilesInv'
  <2>1. FilesTyped /\ ByPhase /\ RowsFinal /\ NewHasFiles /\ LeavingHaveNone
    BY <1>1 DEF FilesInv, TailInv
  <2>2. FilesTyped'
    BY <1>1, <2>1, TailKeeps, DirsKeep, StoreKeeps, LockKeeps, StoryKeeps DEF FilesTyped
  <2>3. TailInv'
    BY <1>1, <2>1, PhaseKeeps, FinalKeeps, NewKeeps, LeavingKeeps DEF FilesInv, TailInv
  <2>4. RowsMatchFiles'
    BY <1>1, <2>1, MatchKeeps DEF FilesInv
  <2>5. ScratchIsOwn' /\ ImportsOwn' /\ CapturesItsOwn' /\ OldestGone'
    BY <1>1, <2>1, ScratchKeeps, ImportsKeep, OwnKeeps, OldestKeeps DEF FilesInv
  <2> QED BY <2>2, <2>3, <2>4, <2>5 DEF FilesInv
<1>2. ASSUME FilesInv, UNCHANGED filesVars PROVE FilesInv'
  <2> USE <1>2 DEF filesVars, tail, files, store, desk
  <2>1. FilesTyped'
    BY DEF FilesInv, FilesTyped, TailOK, DirsOK, StoreOK, LockOK, StoryOK
  <2>2. TailInv'
    BY DEF FilesInv, TailInv, ByPhase, RowsFinal, NewHasFiles, LeavingHaveNone
  <2>3. RowsMatchFiles'
    BY DEF FilesInv, RowsMatchFiles
  <2>4. ScratchIsOwn' /\ ImportsOwn' /\ CapturesItsOwn'
    BY DEF FilesInv, ScratchIsOwn, ImportsOwn, CapturesItsOwn
  <2>5. OldestGone'
    BY DEF FilesInv, OldestGone, RowsOf
  <2> QED BY <2>1, <2>2, <2>3, <2>4, <2>5 DEF FilesInv
<1> QED
  BY <1>1, <1>2

\* The invariant of TaskFiles.
LEMMA FilesAlways == FilesSpec => []FilesInv
BY FilesInitially, FilesStep, PTL DEF FilesSpec

\* The types: of every row a name and a run, of every file its author, and no asset or
\* captured name listed twice.
THEOREM FilesAreTyped == FilesSpec => []FilesTypeOK
<1>1. FilesInv => FilesTypeOK
  BY DEF FilesInv, FilesTyped, TailOK, DirsOK, StoreOK, LockOK, FilesTypeOK, Rows
<1> QED
  BY <1>1, FilesAlways, PTL

\* A row of a run that has succeeded has its file and a file has its row, unless the row is being
\* dropped by a pass or a request, or its commit was lost: record_assets, promote,
\* enforce_retention and the deletes, with the awaits, cuts and crashes between them.
THEOREM RowsAlwaysMatchFiles == FilesSpec => []RowsMatchFiles
<1>1. FilesInv => RowsMatchFiles
  BY DEF FilesInv
<1> QED
  BY <1>1, FilesAlways, PTL

\* A run whose scratch no other run has touched captures files it wrote itself and no
\* leftovers: prepare_current and capture_assets.
THEOREM RunsCaptureTheirOwn == FilesSpec => []CapturesItsOwn
<1>1. FilesInv => CapturesItsOwn
  BY DEF FilesInv
<1> QED
  BY <1>1, FilesAlways, PTL

\* A commit drops the oldest rows, and under the lock as few as the caps allow.
LEMMA CommitIsExact ==
  ASSUME FilesInv, NEW r \in TaskRuns, Commit(r)
  PROVE  LET all == assets \o RowsOf(r)
             k == Len(all) - Len(assets')
         IN  /\ \A i, j \in 1..Len(all) : i < j /\ all[j] \in gone[r] => all[i] \in gone[r]
             /\ lock = r => /\ Fits(assets', cap[r])
                            /\ k > 0 => ~ Fits(SubSeq(all, k, Len(all)), cap[r])
<1>1. PICK all \in Seq(Rows) : all = assets \o RowsOf(r) /\ IsInjective(all)
  BY AllRows DEF FilesInv, TailInv, Commit
<1>2. /\ \A i, j \in 1..Len(all) : i < j /\ all[j] \in gone[r] => all[i] \in gone[r]
      /\ lock = r => gone[r] = Pruned(all, cap[r])
  BY <1>1 DEF FilesInv, OldestGone, Commit
<1>3. ASSUME lock = r
      PROVE  /\ Fits(assets', cap[r])
             /\ Len(all) - Len(assets') > 0
                  => ~ Fits(SubSeq(all, Len(all) - Len(assets'), Len(all)), cap[r])
  <2>1. cap[r] \in [count : Nat \cup {Unlimited}, bytes : Nat \cup {Unlimited}]
    BY FilesAssumption DEF FilesInv, FilesTyped, TailOK
  <2>2. PICK k \in 0..Len(all) : /\ gone[r] = ToSet(SubSeq(all, 1, k))
                                 /\ Fits(SubSeq(all, k + 1, Len(all)), cap[r])
                                 /\ \A j \in 0..(k - 1) : ~ Fits(SubSeq(all, j + 1, Len(all)), cap[r])
    <3>1. \E k \in 0..Len(all) : /\ Pruned(all, cap[r]) = ToSet(SubSeq(all, 1, k))
                                 /\ Fits(SubSeq(all, k + 1, Len(all)), cap[r])
                                 /\ \A j \in 0..(k - 1) : ~ Fits(SubSeq(all, j + 1, Len(all)), cap[r])
      BY <2>1, PrunedIs
    <3> QED BY <1>2, <1>3, <3>1
  <2>3. assets' = SubSeq(all, k + 1, Len(all))
    BY <1>1, <2>2, RestIs DEF Commit
  <2>4. PICK m \in Nat : m = Len(all) /\ k \in Nat /\ k <= m
    <3>1. Len(all) \in Nat
      BY <1>1, LenProperties
    <3> QED BY <2>2, <3>1
  <2>5. Len(assets') = m - k
    <3>1. k + 1 \in Nat \ {0} /\ m <= Len(all)
      BY <2>4
    <3>2. Len(SubSeq(all, k + 1, m)) = IF k + 1 <= m THEN m - (k + 1) + 1 ELSE 0
      BY <1>1, <2>4, <3>1, MembersOfPart
    <3>3. (IF k + 1 <= m THEN m - (k + 1) + 1 ELSE 0) = m - k
      BY <2>4
    <3> QED BY <2>3, <2>4, <3>2, <3>3
  <2>6. Len(all) - Len(assets') = k
    BY <2>4, <2>5
  <2>7. k > 0 => ~ Fits(SubSeq(all, k, Len(all)), cap[r])
    <3>1. k > 0 => k - 1 \in 0..(k - 1) /\ (k - 1) + 1 = k
      BY <2>4
    <3> QED BY <2>2, <3>1
  <2> QED BY <2>2, <2>3, <2>6, <2>7
<1> QED
  BY <1>1, <1>2, <1>3

\* The commit of a retention pass drops the oldest assets and, where the run holds the write
\* lock, exactly as many as the caps demand: enforce_retention against the rows it could see.
THEOREM RetentionIsAlwaysExact == FilesSpec => RetentionIsExact
<1> DEFINE Exact == \A r \in TaskRuns : Commit(r) =>
             LET all == assets \o RowsOf(r)
                 k == Len(all) - Len(assets')
             IN  /\ \A i, j \in 1..Len(all) : i < j /\ all[j] \in gone[r] => all[i] \in gone[r]
                 /\ lock = r => /\ Fits(assets', cap[r])
                                /\ k > 0 => ~ Fits(SubSeq(all, k, Len(all)), cap[r])
<1>1. FilesInv /\ [FilesNext]_filesVars => [Exact]_filesVars
  BY CommitIsExact
<1>2. RetentionIsExact <=> [][Exact]_filesVars
  BY PTL DEF RetentionIsExact
<1> QED
  BY <1>1, <1>2, FilesAlways, PTL DEF FilesSpec
=============================================================================
