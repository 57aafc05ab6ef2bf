-------------------------- MODULE SessionTurnsProofs --------------------------
(***************************************************************************)
(* The versions and the spending of module SessionTurns, for every number  *)
(* of turns and faults and every budget: a turn that nothing else          *)
(* overlapped has its edits in a version, and the version on its row is    *)
(* its own; turns that follow each other keep to the budget but for two    *)
(* rounds each.                                                            *)
(*                                                                         *)
(* A turn that is still alone has the workspace to itself from `git add`   *)
(* to `git rev-parse`, so what it reads as HEAD is what it committed.  That *)
(* there is a number for every version is a matter of counting: a turn     *)
(* commits once.  What a turn may spend is what the rows below its own     *)
(* were billed, and a turn that is alone is numbered after every other.    *)
(***************************************************************************)
EXTENDS SessionTurns, FiniteSetTheorems, TLAPS

Asleep == {"none", "over"}

Types ==
  /\ status \in [Turns -> {"absent", "running"} \cup Settled]
  /\ lane \in [Turns -> {"none", "agent", "terminal"}]
  /\ version \in [Turns -> Nat] /\ sha \in [Turns -> Nat]
  /\ pc \in [Turns -> TurnPcs] /\ why \in [Turns -> Reasons]
  /\ head \in Versions
  /\ maker \in [Versions -> Turns \cup {0}]
  /\ alone \in [Turns -> BOOLEAN]

\* Where a coroutine has staged its edits, and where it has committed them.
Committed(t) == \/ pc[t] \in {"head", "preserve", "number"}
                \/ pc[t] = "insert" /\ lane[t] = "terminal"
                \/ pc[t] = "write" /\ why[t] # "error"
Staged(t) == pc[t] \in {"diff", "commit"} \/ Committed(t)

\* Where a coroutine commits no more.
Past(t) == \/ pc[t] \in {"head", "preserve", "number", "write", "over"}
           \/ pc[t] = "insert" /\ lane[t] = "terminal"

\* A turn that is alone while it lives.
Lonely(t) ==
  /\ pc[t] \notin Asleep => \A u \in Turns \ {t} : pc[u] \in Asleep
  /\ Staged(t) => t \notin tree
  /\ Committed(t) => t \notin index
  /\ pc[t] = "commit" => index # {}
  /\ status[t] \in {"succeeded", "cancelled"} => t \notin tree \cup index
  /\ version[t] # 0 => maker[version[t]] = t
  /\ sha[t] # 0 => maker[sha[t]] = t
  /\ pc[t] = "head" => maker[head] = t

TurnInv(t) ==
  /\ status[t] \in Settled => pc[t] = "over"
  /\ pc[t] = "none" => why[t] = "none" /\ status[t] = "absent"
  /\ why[t] = "capture" \/ pc[t] = "number" => lane[t] = "terminal"
  /\ sha[t] <= head /\ version[t] <= head
  /\ alone[t] => Lonely(t)

\* Every version after the first was made by a turn of its own, which makes no other.
Made ==
  /\ \A v \in 2..head : maker[v] \in Turns /\ Past(maker[v])
  /\ \A v, w \in 2..head : maker[v] = maker[w] => v = w

Inv == Types /\ Made /\ \A t \in Turns : TurnInv(t)

-----------------------------------------------------------------------------

\* There is a number for the next version: a turn that has not committed made none of
\* those there are.
LEMMA RoomForOneMore ==
  ASSUME Inv, NEW t \in Turns, ~Past(t)
  PROVE  head + 1 \in Versions
<1>1. MaxTurns \in Nat /\ head \in Nat /\ head <= MaxTurns + 1 /\ MaxTurns >= 1 /\ head >= 1
  BY ConstantsAssumption DEF Inv, Types, Versions, Turns
<1> SUFFICES ASSUME head = MaxTurns + 1 PROVE FALSE
  BY <1>1 DEF Versions
<1> DEFINE S == 2..head
           T == Turns \ {t}
           f == [v \in S |-> maker[v]]
<1>2. f \in [S -> T]
  BY DEF Inv, Made
<1>3. IsFiniteSet(S) /\ Cardinality(S) = MaxTurns
  BY <1>1, FS_Interval
<1>4. IsFiniteSet(Turns) /\ Cardinality(Turns) = MaxTurns
  BY <1>1, FS_Interval DEF Turns
<1>5. IsFiniteSet(T) /\ Cardinality(T) = MaxTurns - 1
  BY <1>4, FS_RemoveElement
<1>6. Cardinality(T) < Cardinality(S)
  BY <1>1, <1>3, <1>5
<1> HIDE DEF S, T, f
<1>7. \E v, w \in S : v # w /\ f[v] = f[w]
  BY <1>2, <1>3, <1>5, <1>6, FS_PigeonHole
<1> QED
  BY <1>7 DEF Inv, Made, f, S

\* What a step of one turn leaves of another: if that was alone and still is, it is not
\* under way, and its edits are where they were.
LEMMA OthersKeep ==
  ASSUME Inv, NEW t \in Turns, NEW u \in Turns, u # t,
         pc[t] # "over",
         pc'[u] = pc[u], status'[u] = status[u], lane'[u] = lane[u], why'[u] = why[u],
         sha'[u] = sha[u], version'[u] = version[u],
         alone'[u] => alone[u],
         pc[t] = "none" /\ alone'[u] => pc[u] \in Asleep,
         tree' \cup index' \subseteq tree \cup index \cup {t},
         head' \in Nat, head <= head',
         \A v \in 1..head : maker'[v] = maker[v]
  PROVE  TurnInv(u)'
<1>1. TurnInv(u) /\ Types
  BY DEF Inv
<1>2. /\ sha[u] \in Nat /\ version[u] \in Nat /\ head \in Nat /\ head' \in Nat
      /\ sha[u] <= head /\ version[u] <= head
  BY <1>1 DEF Types, TurnInv, Versions
<1>3. sha'[u] <= head' /\ version'[u] <= head'
  BY <1>2
<1>4. ASSUME alone'[u] PROVE Lonely(u)'
  <2>1. Lonely(u)
    BY <1>1, <1>4 DEF TurnInv
  <2>2. /\ version[u] # 0 => maker'[version[u]] = u
        /\ sha[u] # 0 => maker'[sha[u]] = u
    BY <1>2, <2>1 DEF Lonely
  <2>3. status[u] \in {"succeeded", "cancelled"} => u \notin tree' \cup index'
    BY <2>1 DEF Lonely
  <2>4. CASE pc[u] \in Asleep
    BY <2>2, <2>3, <2>4 DEF Lonely, Staged, Committed, Asleep
  <2>5. CASE pc[u] \notin Asleep
    <3>1. pc[t] = "none"
      BY <2>1, <2>5 DEF Lonely, Asleep
    <3> QED
      BY <1>4, <2>5, <3>1
  <2> QED
    BY <2>4, <2>5
<1> QED
  BY <1>1, <1>3, <1>4 DEF TurnInv

\* A step of one turn that makes no version.
LEMMA StepInv ==
  ASSUME Inv, NEW t \in Turns, pc[t] # "over",
         \A u \in Turns \ {t} :
           /\ pc'[u] = pc[u] /\ status'[u] = status[u] /\ lane'[u] = lane[u] /\ why'[u] = why[u]
           /\ sha'[u] = sha[u] /\ version'[u] = version[u]
           /\ alone'[u] => alone[u]
           /\ pc[t] = "none" /\ alone'[u] => pc[u] \in Asleep,
         tree' \cup index' \subseteq tree \cup index \cup {t},
         head' = head, maker' = maker,
         Types', TurnInv(t)', Past(t) => Past(t)'
  PROVE  Inv'
<1>1. head \in Nat
  BY DEF Inv, Types, Versions
<1>2. \A u \in Turns : TurnInv(u)'
  <2> SUFFICES ASSUME NEW u \in Turns, u # t PROVE TurnInv(u)'
    OBVIOUS
  <2> QED
    BY <1>1, OthersKeep
<1>3. \A u \in Turns : Past(u) => Past(u)'
  <2> SUFFICES ASSUME NEW u \in Turns, u # t, Past(u) PROVE Past(u)'
    OBVIOUS
  <2> QED
    BY DEF Past
<1>4. Made'
  BY <1>3 DEF Inv, Made
<1> QED
  BY <1>2, <1>4 DEF Inv

\* The commit of a turn is the newest version, and is of what was staged.
LEMMA CommitInv == ASSUME Inv, NEW t \in Turns, CommitStaged(t) PROVE Inv'
<1>1. /\ pc[t] = "commit" /\ pc' = [pc EXCEPT ![t] = "head"]
      /\ UNCHANGED <<status, lane, version, why, sha, tree, alone>>
  BY DEF CommitStaged, Goto, row, history
<1>2. Types /\ TurnInv(t)
  BY DEF Inv
<1>3. /\ pc'[t] = "head" /\ pc' \in [Turns -> TurnPcs]
      /\ \A u \in Turns \ {t} : pc'[u] = pc[u]
  BY <1>1, <1>2 DEF Types, TurnPcs, LivePcs, GitPcs
<1>4. CASE /\ index # {} /\ head' = head + 1 /\ maker' = [maker EXCEPT ![head + 1] = t] /\ index' = {}
  <2>1. ~Past(t)
    BY <1>1 DEF Past
  <2>2. head + 1 \in Versions /\ head \in Nat /\ head >= 1
    BY <1>2, <2>1, RoomForOneMore DEF Types, Versions
  <2>3. /\ maker' \in [Versions -> Turns \cup {0}] /\ maker'[head + 1] = t
        /\ \A v \in 1..head : maker'[v] = maker[v]
    BY <1>2, <1>4, <2>2 DEF Types, Versions
  <2>4. Types'
    BY <1>1, <1>2, <1>3, <1>4, <2>2, <2>3 DEF Types
  <2>5. \A u \in Turns : u # t => TurnInv(u)'
    <3> SUFFICES ASSUME NEW u \in Turns, u # t PROVE TurnInv(u)'
      OBVIOUS
    <3>1. head' \in Nat /\ head <= head'
      BY <1>4, <2>2
    <3>2. tree' \cup index' \subseteq tree \cup index \cup {t}
      BY <1>1, <1>4
    <3> QED
      BY <1>1, <1>3, <2>3, <3>1, <3>2, OthersKeep
  <2>6. TurnInv(t)'
    <3>1. sha[t] \in Nat /\ version[t] \in Nat /\ sha[t] <= head /\ version[t] <= head
      BY <1>2 DEF Types, TurnInv
    <3>2. sha[t] <= head' /\ version[t] <= head'
      BY <1>4, <2>2, <3>1
    <3>3. ASSUME alone[t] PROVE Lonely(t)'
      <4>1. Lonely(t)
        BY <1>2, <3>3 DEF TurnInv
      <4>2. /\ version[t] # 0 => maker'[version[t]] = t
            /\ sha[t] # 0 => maker'[sha[t]] = t
        BY <2>3, <3>1, <4>1 DEF Lonely
      <4>3. t \notin tree /\ \A u \in Turns \ {t} : pc[u] \in Asleep
        BY <1>1, <4>1 DEF Lonely, Staged, Asleep
      <4> QED
        BY <1>1, <1>3, <1>4, <2>3, <4>2, <4>3 DEF Lonely, Asleep
    <3> QED
      BY <1>1, <1>2, <1>3, <3>2, <3>3 DEF TurnInv, Settled
  <2>7. Made'
    <3>1. \A v \in 2..head' : v = head + 1 \/ v \in 2..head
      BY <1>4, <2>2
    <3>2. Past(t)' /\ \A u \in Turns : Past(u) => Past(u)'
      BY <1>1, <1>3 DEF Past
    <3>3. \A v \in 2..head : maker'[v] = maker[v] /\ maker[v] \in Turns /\ Past(maker[v]) /\ maker[v] # t
      BY <2>1, <2>2, <2>3 DEF Inv, Made
    <3>4. ASSUME NEW v \in 2..head' PROVE maker'[v] \in Turns /\ Past(maker[v])'
      <4>1. CASE v = head + 1
        BY <2>3, <3>2, <4>1 DEF Past
      <4>2. CASE v \in 2..head
        BY <3>2, <3>3, <4>2 DEF Past
      <4> QED
        BY <3>1, <4>1, <4>2
    <3>5. \A v, w \in 2..head' : maker'[v] = maker'[w] => v = w
      BY <2>3, <3>1, <3>3 DEF Inv, Made
    <3> QED
      BY <3>4, <3>5 DEF Made
  <2> QED
    BY <2>4, <2>5, <2>6, <2>7 DEF Inv
<1>5. CASE (index = {} \/ Contended(t)) /\ UNCHANGED <<head, maker, index>>
  <2>1. ~alone[t]
    <3> SUFFICES ASSUME alone[t] PROVE FALSE
      OBVIOUS
    <3>1. Lonely(t)
      BY <1>2 DEF TurnInv
    <3>2. index # {} /\ \A u \in Turns \ {t} : pc[u] \notin GitPcs
      BY <1>1, <3>1 DEF Lonely, Asleep, GitPcs
    <3> QED
      BY <1>5, <3>2 DEF Contended
  <2>2. TurnInv(t)'
    BY <1>1, <1>2, <1>3, <1>5, <2>1 DEF TurnInv, Settled
  <2>3. Types'
    BY <1>1, <1>2, <1>3, <1>5 DEF Types
  <2> QED
    BY <1>1, <1>3, <1>5, <2>2, <2>3, StepInv DEF Past
<1> QED
  BY <1>4, <1>5 DEF CommitStaged

\* A turn begins alone if nothing else is under way, and ends the solitude of what is.
LEMMA JoinsIs ==
  ASSUME Inv, NEW t \in Turns, Joins(t)
  PROVE  /\ alone' \in [Turns -> BOOLEAN]
         /\ \A u \in Turns : alone'[u] => alone[u]
         /\ alone'[t] => \A u \in Turns \ {t} : pc[u] \in Asleep
         /\ \A u \in Turns \ {t} : alone'[u] => pc[u] \in Asleep
<1> DEFINE others == {u \in Turns \ {t} : pc[u] \notin {"none", "over"}}
<1>1. alone' = [u \in Turns |-> IF others # {} /\ u \in others \cup {t} THEN FALSE ELSE alone[u]]
  BY DEF Joins
<1>2. alone \in [Turns -> BOOLEAN]
  BY DEF Inv, Types
<1>3. \A u \in Turns \ {t} : pc[u] \notin Asleep <=> u \in others
  BY DEF Asleep
<1> HIDE DEF others
<1>4. /\ alone' \in [Turns -> BOOLEAN]
      /\ \A u \in Turns : alone'[u] => alone[u] /\ (others = {} \/ u \notin others \cup {t})
  BY <1>1, <1>2
<1> QED
  BY <1>3, <1>4

LEMMA CreateInv == ASSUME Inv, NEW t \in Turns, Create(t) PROVE Inv'
<1>1. /\ pc[t] = "none" /\ pc' = [pc EXCEPT ![t] = "insert"] /\ lane' = [lane EXCEPT ![t] = "agent"]
      /\ UNCHANGED <<status, version, why, sha, tree, index, head, maker>>
      /\ Joins(t)
  BY DEF Create, Unused, Goto, workspace
<1>2. Types /\ TurnInv(t)
  BY DEF Inv
<1>3. /\ alone' \in [Turns -> BOOLEAN]
      /\ \A u \in Turns : alone'[u] => alone[u]
      /\ alone'[t] => \A u \in Turns \ {t} : pc[u] \in Asleep
      /\ \A u \in Turns \ {t} : alone'[u] => pc[u] \in Asleep
  BY <1>1, JoinsIs
<1>4. /\ pc'[t] = "insert" /\ lane'[t] = "agent"
      /\ \A u \in Turns \ {t} : pc'[u] = pc[u] /\ lane'[u] = lane[u]
  BY <1>1, <1>2 DEF Types
<1>5. Types'
  BY <1>1, <1>2, <1>3 DEF Types, TurnPcs
<1>6. why[t] = "none"
  BY <1>1, <1>2 DEF TurnInv
<1>7. alone'[t] => Lonely(t)'
  BY <1>1, <1>2, <1>3, <1>4 DEF TurnInv, Lonely, Staged, Committed, Asleep, Settled
<1>8. TurnInv(t)'
  BY <1>1, <1>2, <1>4, <1>6, <1>7 DEF TurnInv
<1> QED
  BY <1>1, <1>3, <1>4, <1>5, <1>8, StepInv DEF Past

LEMMA CaptureInv == ASSUME Inv, NEW t \in Turns, CaptureStarts(t) PROVE Inv'
<1>1. /\ pc[t] = "none" /\ pc' = [pc EXCEPT ![t] = "stage"] /\ lane' = [lane EXCEPT ![t] = "terminal"]
      /\ why' = [why EXCEPT ![t] = "capture"] /\ tree' \in {tree, tree \cup {t}}
      /\ UNCHANGED <<status, version, sha, index, head, maker>>
      /\ Joins(t)
  BY DEF CaptureStarts, Unused, Commit, Goto
<1>2. Types /\ TurnInv(t)
  BY DEF Inv
<1>3. /\ alone' \in [Turns -> BOOLEAN]
      /\ \A u \in Turns : alone'[u] => alone[u]
      /\ alone'[t] => \A u \in Turns \ {t} : pc[u] \in Asleep
      /\ \A u \in Turns \ {t} : alone'[u] => pc[u] \in Asleep
  BY <1>1, JoinsIs
<1>4. /\ pc'[t] = "stage" /\ lane'[t] = "terminal"
      /\ \A u \in Turns \ {t} : pc'[u] = pc[u] /\ lane'[u] = lane[u] /\ why'[u] = why[u]
  BY <1>1, <1>2 DEF Types
<1>5. Types'
  BY <1>1, <1>2, <1>3 DEF Types, TurnPcs, LivePcs, GitPcs, Reasons
<1>6. status[t] \notin Settled
  BY <1>1, <1>2 DEF TurnInv
<1>7. alone'[t] => Lonely(t)'
  BY <1>1, <1>2, <1>3, <1>4, <1>6 DEF TurnInv, Lonely, Staged, Committed, Asleep, Settled
<1>8. TurnInv(t)'
  BY <1>1, <1>2, <1>4, <1>6, <1>7 DEF TurnInv
<1> QED
  BY <1>1, <1>3, <1>4, <1>5, <1>8, StepInv DEF Past

\* A coroutine that goes on by itself, anywhere but at its commit.
LEMMA GoesOnInv ==
  ASSUME Inv, NEW t \in Turns, pc[t] \notin Asleep, pc[t] # "commit",
         NEW next \in TurnPcs, pc' = [pc EXCEPT ![t] = next],
         \A u \in Turns \ {t} :
           /\ status'[u] = status[u] /\ why'[u] = why[u]
           /\ sha'[u] = sha[u] /\ version'[u] = version[u],
         UNCHANGED <<lane, head, maker, alone>>,
         tree' \cup index' \subseteq tree \cup index \cup {t},
         Types', TurnInv(t)', Past(t) => Past(t)'
  PROVE  Inv'
<1>1. \A u \in Turns \ {t} : pc'[u] = pc[u]
  BY DEF Inv, Types
<1> QED
  BY <1>1, StepInv DEF Asleep

\* The four git commands but the commit, each alone with the workspace if its turn is alone.
LEMMA GitInv ==
  ASSUME Inv, NEW t \in Turns, Stage(t) \/ CheckStaged(t) \/ ReadHead(t)
  PROVE  Inv'
<1> USE DEF Staged, Committed, Asleep, Settled
<1>1. Types /\ TurnInv(t) /\ AfterGit(t) \in {"write", "number", "preserve"}
      /\ (AfterGit(t) = "number" => lane[t] = "terminal")
      /\ (AfterGit(t) = "write" => why[t] = "result")
  BY DEF Inv, AfterGit, TurnInv
<1>2. CASE Stage(t)
  <2>1. /\ pc[t] = "stage" /\ pc' = [pc EXCEPT ![t] = "diff"]
        /\ \/ index' = index \cup tree /\ tree' = {}
           \/ Contended(t) /\ UNCHANGED <<index, tree>>
        /\ UNCHANGED <<status, lane, version, why, sha, head, maker, alone>>
    BY <1>2 DEF Stage, Goto, row, history
  <2>2. Types' /\ pc'[t] = "diff" /\ \A u \in Turns \ {t} : pc'[u] = pc[u]
    BY <1>1, <2>1 DEF Types, TurnPcs, LivePcs, GitPcs
  <2>3. ASSUME alone[t] PROVE Lonely(t)'
    <3>1. Lonely(t)
      BY <1>1, <2>3 DEF TurnInv
    <3>2. ~Contended(t)
      BY <2>1, <3>1 DEF Lonely, Contended, GitPcs
    <3> QED
      BY <1>1, <2>1, <2>2, <3>1, <3>2 DEF Lonely, TurnInv
  <2>4. TurnInv(t)'
    BY <1>1, <2>1, <2>2, <2>3 DEF TurnInv
  <2> QED
    BY <2>1, <2>2, <2>4, GoesOnInv DEF Past, TurnPcs, LivePcs, GitPcs
<1>3. CASE CheckStaged(t)
  <2>1. /\ pc[t] = "diff" /\ UNCHANGED <<status, lane, version, tree, index, head, maker, alone>>
        /\ \/ /\ pc' = [pc EXCEPT ![t] = "over"] /\ why' = [why EXCEPT ![t] = "none"]
              /\ sha' = [sha EXCEPT ![t] = 0]
           \/ /\ pc' = [pc EXCEPT ![t] = IF index # {} THEN "commit" ELSE AfterGit(t)]
              /\ UNCHANGED <<why, sha>>
    BY <1>3 DEF CheckStaged, End, Goto, row, workspace, history
  <2>2. status[t] \notin Settled
    BY <1>1, <2>1 DEF TurnInv
  <2>3. CASE /\ pc' = [pc EXCEPT ![t] = "over"] /\ why' = [why EXCEPT ![t] = "none"]
             /\ sha' = [sha EXCEPT ![t] = 0]
    <3>1. Types' /\ pc'[t] = "over" /\ why'[t] = "none" /\ sha'[t] = 0
      BY <1>1, <2>1, <2>3 DEF Types, TurnPcs, Reasons
    <3>2. head \in Nat
      BY <1>1 DEF Types, Versions
    <3>3. alone[t] => Lonely(t)'
      BY <1>1, <2>1, <2>2, <3>1 DEF TurnInv, Lonely
    <3>4. TurnInv(t)'
      BY <1>1, <2>1, <3>1, <3>2, <3>3 DEF TurnInv
    <3>5. \A u \in Turns \ {t} : why'[u] = why[u] /\ sha'[u] = sha[u]
      BY <1>1, <2>3 DEF Types
    <3> QED
      BY <2>1, <2>3, <3>1, <3>4, <3>5, GoesOnInv DEF Past, TurnPcs
  <2>4. CASE /\ pc' = [pc EXCEPT ![t] = IF index # {} THEN "commit" ELSE AfterGit(t)]
             /\ UNCHANGED <<why, sha>>
    <3> DEFINE next == IF index # {} THEN "commit" ELSE AfterGit(t)
    <3>1. /\ next \in {"commit", "write", "number", "preserve"}
          /\ next = "commit" <=> index # {}
          /\ next = "number" => lane[t] = "terminal"
          /\ next = "write" => why[t] = "result"
      BY <1>1
    <3>2. pc' = [pc EXCEPT ![t] = next]
      BY <2>4
    <3> HIDE DEF next
    <3>3. Types' /\ pc'[t] = next /\ \A u \in Turns \ {t} : pc'[u] = pc[u]
      BY <1>1, <2>1, <2>4, <3>1, <3>2 DEF Types, TurnPcs, LivePcs, GitPcs
    <3>4. alone[t] => Lonely(t)'
      BY <1>1, <2>1, <2>2, <2>4, <3>1, <3>3 DEF TurnInv, Lonely
    <3>5. TurnInv(t)'
      BY <1>1, <2>1, <2>2, <2>4, <3>1, <3>3, <3>4 DEF TurnInv
    <3>6. next \in TurnPcs
      BY <3>1 DEF TurnPcs, LivePcs, GitPcs
    <3> QED
      BY <2>1, <2>4, <3>2, <3>3, <3>5, <3>6, GoesOnInv DEF Past
  <2> QED
    BY <2>1, <2>3, <2>4
<1>4. CASE ReadHead(t)
  <2>1. /\ pc[t] = "head" /\ pc' = [pc EXCEPT ![t] = AfterGit(t)] /\ sha' = [sha EXCEPT ![t] = head]
        /\ UNCHANGED <<status, lane, version, why, tree, index, head, maker, alone>>
    BY <1>4 DEF ReadHead, Goto, row, workspace, history
  <2>2. Types' /\ pc'[t] = AfterGit(t) /\ sha'[t] = head /\ head \in Nat
        /\ \A u \in Turns \ {t} : pc'[u] = pc[u] /\ sha'[u] = sha[u]
    BY <1>1, <2>1 DEF Types, TurnPcs, LivePcs, GitPcs, Versions
  <2>3. status[t] \notin Settled
    BY <1>1, <2>1 DEF TurnInv
  <2>4. alone[t] => Lonely(t)'
    BY <1>1, <2>1, <2>2, <2>3 DEF TurnInv, Lonely
  <2>5. TurnInv(t)'
    BY <1>1, <2>1, <2>2, <2>3, <2>4 DEF TurnInv
  <2> QED
    BY <1>1, <2>1, <2>2, <2>5, GoesOnInv DEF Past, TurnPcs, LivePcs, GitPcs
<1> QED
  BY <1>2, <1>3, <1>4

\* Before the workspace is staged nothing is promised of it.
LEMMA StreamInv ==
  ASSUME Inv, NEW t \in Turns,
         pc[t] \in {"insert", "created", "prelude", "streaming", "stage"},
         pc[t] = "insert" => lane[t] # "terminal",
         NEW next \in {"created", "prelude", "streaming", "stage", "write"},
         pc' = [pc EXCEPT ![t] = next],
         NEW reason \in Reasons \ {"capture"},
         why' = [why EXCEPT ![t] = reason] \/ (why' = why /\ next # "write"),
         next = "write" => reason = "error",
         status' = status \/ status' = [status EXCEPT ![t] = "running"],
         tree' \in {tree, tree \cup {t}},
         UNCHANGED <<lane, version, sha, index, head, maker, alone>>
  PROVE  Inv'
<1> USE DEF Staged, Committed, Asleep, Settled
<1>1. Types /\ TurnInv(t) /\ status[t] \notin Settled
  BY DEF Inv, TurnInv
<1>2. /\ Types' /\ pc'[t] = next /\ next \in TurnPcs /\ status'[t] \in {status[t], "running"}
      /\ why'[t] = "capture" => why[t] = "capture"
      /\ next = "write" => why'[t] = "error"
      /\ \A u \in Turns \ {t} : pc'[u] = pc[u] /\ why'[u] = why[u] /\ status'[u] = status[u]
  BY <1>1 DEF Types, TurnPcs, LivePcs, GitPcs
<1>3. alone[t] => Lonely(t)'
  BY <1>1, <1>2 DEF TurnInv, Lonely
<1>4. TurnInv(t)'
  BY <1>1, <1>2, <1>3 DEF TurnInv
<1>5. ~Past(t)
  BY DEF Past
<1> QED
  BY <1>2, <1>4, <1>5, GoesOnInv

\* A coroutine that is gone leaves its row as it is, or says how it ended: well or cancelled
\* only after its edits were committed, with the version it read.
LEMMA EndInv ==
  ASSUME Inv, NEW t \in Turns, pc[t] \notin Asleep, pc[t] # "commit" \/ status' = status, End(t),
         NEW last \in Settled,
         status' = status \/ status' = [status EXCEPT ![t] = last],
         status' # status /\ last # "failed" => Committed(t),
         version' = version \/ version' = [version EXCEPT ![t] = sha[t]],
         UNCHANGED <<lane, tree, index, head, maker, alone>>
  PROVE  Inv'
<1> USE DEF Staged, Committed, Asleep, Settled
<1>1. Types /\ TurnInv(t) /\ status[t] \notin Settled /\ head \in Nat
  BY DEF Inv, TurnInv, Types, Versions
<1>2. /\ pc' = [pc EXCEPT ![t] = "over"] /\ why' = [why EXCEPT ![t] = "none"]
      /\ sha' = [sha EXCEPT ![t] = 0]
  BY DEF End, Goto
<1>3. /\ Types' /\ pc'[t] = "over" /\ why'[t] = "none" /\ sha'[t] = 0
      /\ status'[t] = status[t] \/ (status'[t] = last /\ status' # status)
      /\ version'[t] \in {version[t], sha[t]}
      /\ \A u \in Turns \ {t} : /\ pc'[u] = pc[u] /\ why'[u] = why[u] /\ sha'[u] = sha[u]
                               /\ status'[u] = status[u] /\ version'[u] = version[u]
  <2>1. pc' \in [Turns -> TurnPcs] /\ why' \in [Turns -> Reasons] /\ sha' \in [Turns -> Nat]
    BY <1>1, <1>2 DEF Types, TurnPcs, Reasons
  <2>2. status' \in [Turns -> {"absent", "running"} \cup Settled] /\ version' \in [Turns -> Nat]
    BY <1>1 DEF Types
  <2>3. Types'
    BY <1>1, <2>1, <2>2 DEF Types
  <2> QED
    BY <1>1, <1>2, <2>3 DEF Types
<1>4. alone[t] => Lonely(t)'
  <2> SUFFICES ASSUME alone[t] PROVE Lonely(t)'
    OBVIOUS
  <2>1. Lonely(t)
    BY <1>1 DEF TurnInv
  <2>2. version'[t] # 0 => maker[version'[t]] = t
    BY <1>3, <2>1 DEF Lonely
  <2>3. status'[t] \in {"succeeded", "cancelled"} => t \notin tree \cup index
    BY <1>1, <1>3, <2>1 DEF Lonely
  <2> QED
    BY <1>3, <2>2, <2>3 DEF Lonely
<1>5. sha'[t] <= head /\ version'[t] <= head
  BY <1>1, <1>3 DEF TurnInv
<1>6. TurnInv(t)'
  BY <1>1, <1>3, <1>4, <1>5 DEF TurnInv
<1>7. tree' \cup index' \subseteq tree \cup index \cup {t} /\ (Past(t) => Past(t)') /\ pc[t] # "over"
  BY <1>3 DEF Past
<1> QED
  BY <1>3, <1>6, <1>7, StepInv

\* The two steps in between: the version of an interrupted turn, the number of a capture.
LEMMA BetweenInv ==
  ASSUME Inv, NEW t \in Turns, Preserve(t) \/ NumberCapture(t)
  PROVE  Inv'
<1> USE DEF Staged, Committed, Asleep, Settled
<1>1. Types /\ TurnInv(t)
  BY DEF Inv
<1>2. /\ UNCHANGED <<status, lane, why, sha, tree, index, head, maker, alone>>
      /\ \/ pc[t] = "preserve" /\ pc' = [pc EXCEPT ![t] = "write"] /\ version' = [version EXCEPT ![t] = sha[t]]
         \/ pc[t] = "number" /\ pc' = [pc EXCEPT ![t] = "insert"] /\ version' = version
  BY DEF Preserve, RecordVersion, NumberCapture, Goto, workspace, history
<1>3. Types'
  BY <1>1, <1>2 DEF Types, TurnPcs, LivePcs, GitPcs
<1>4. /\ pc'[t] = IF pc[t] = "preserve" THEN "write" ELSE "insert"
      /\ version'[t] \in {version[t], sha[t]}
      /\ \A u \in Turns \ {t} : pc'[u] = pc[u] /\ version'[u] = version[u]
  BY <1>1, <1>2 DEF Types
<1>5. status[t] \notin Settled /\ (pc[t] = "number" => lane[t] = "terminal")
  BY <1>1, <1>2 DEF TurnInv
<1>6. alone[t] => Lonely(t)'
  BY <1>1, <1>2, <1>4, <1>5 DEF TurnInv, Lonely
<1>7. TurnInv(t)'
  BY <1>1, <1>2, <1>4, <1>5, <1>6 DEF TurnInv
<1>8. Past(t)'
  BY <1>2, <1>4, <1>5 DEF Past
<1> QED
  BY <1>2, <1>3, <1>4, <1>7, <1>8, StepInv

\* A restart ends every coroutine, and no row well.
LEMMA RestartInv == ASSUME Inv, Restart PROVE Inv'
<1> USE DEF Staged, Committed, Asleep, Settled
<1>1. Types /\ Made /\ \A t \in Turns : TurnInv(t)
  BY DEF Inv
<1>2. /\ UNCHANGED <<lane, version, tree, index, head, maker, alone>>
      /\ \A t \in Turns : /\ status'[t] = IF status[t] = "running" THEN "failed" ELSE status[t]
                          /\ pc'[t] = IF pc[t] = "none" THEN "none" ELSE "over"
                          /\ why'[t] = "none" /\ sha'[t] = 0
  BY DEF Restart, Orphaned, workspace
<1>3. Types'
  <2>1. /\ status' \in [Turns -> {"absent", "running"} \cup Settled]
        /\ pc' \in [Turns -> TurnPcs] /\ why' \in [Turns -> Reasons] /\ sha' \in [Turns -> Nat]
    BY <1>1 DEF Restart, Orphaned, Types, TurnPcs, Reasons
  <2> QED
    BY <1>1, <1>2, <2>1 DEF Types
<1>4. ASSUME NEW t \in Turns PROVE TurnInv(t)'
  <2>1. TurnInv(t) /\ head \in Nat /\ head >= 1
    BY <1>1 DEF Types, Versions
  <2>2. alone[t] => Lonely(t)'
    BY <1>2, <2>1 DEF TurnInv, Lonely
  <2>3. status[t] = "running" => pc[t] # "none"
    BY <1>1 DEF TurnInv
  <2> QED
    BY <1>2, <2>1, <2>2, <2>3 DEF TurnInv
<1>5. Made'
  BY <1>1, <1>2 DEF Made, Past
<1> QED
  BY <1>3, <1>4, <1>5 DEF Inv

LEMMA InvInit == Init => Inv
<1> SUFFICES ASSUME Init PROVE Inv
  OBVIOUS
<1>1. MaxTurns \in Nat /\ head = 1 /\ 1 \in Versions
  BY ConstantsAssumption DEF Init, Versions
<1>2. Types
  BY <1>1 DEF Init, Types, TurnPcs, Reasons
<1>3. Made
  BY <1>1 DEF Made
<1>4. \A t \in Turns : TurnInv(t)
  BY <1>1 DEF Init, TurnInv, Lonely, Staged, Committed, Asleep, Settled
<1> QED
  BY <1>2, <1>3, <1>4 DEF Inv

\* A cancel finds the stream, or ends the coroutine where it stands.
LEMMA CancelInv == ASSUME Inv, NEW t \in Turns, Cancel(t) PROVE Inv'
<1>1. /\ pc[t] \in LivePcs /\ UNCHANGED <<status, lane, version, tree, index, head, maker, alone>>
      /\ \/ pc[t] = "streaming" /\ Commit(t, "cancelled") /\ sha' = sha
         \/ pc[t] # "streaming" /\ End(t)
  BY DEF Cancel, Interrupt, row, workspace
<1>2. CASE pc[t] = "streaming" /\ Commit(t, "cancelled") /\ sha' = sha
  <2>1. pc' = [pc EXCEPT ![t] = "stage"] /\ why' = [why EXCEPT ![t] = "cancelled"]
    BY <1>2 DEF Commit, Goto
  <2> QED
    BY <1>1, <1>2, <2>1, StreamInv DEF Reasons
<1>3. CASE pc[t] # "streaming" /\ End(t)
  <2>1. pc[t] \notin Asleep
    BY <1>1 DEF LivePcs, GitPcs, Asleep
  <2>2. "failed" \in Settled
    BY DEF Settled
  <2> QED
    BY <1>1, <1>3, <2>1, <2>2, EndInv
<1> QED
  BY <1>1, <1>2, <1>3

\* What a coroutine does up to its last write, git aside.
LEMMA StreamSteps ==
  ASSUME Inv, NEW t \in Turns,
         Insert(t) \/ Dispatch(t) \/ Prelude(t) \/ Round(t) \/ StreamResult(t) \/ StreamErrors(t) \/ Timeout(t)
  PROVE  Inv'
<1> USE DEF Goto, Commit
<1>0. \A r \in {"none", "result", "error", "timeout"} : r \in Reasons \ {"capture"}
  BY DEF Reasons
<1>1. CASE Insert(t)
  <2>1. /\ pc[t] = "insert" /\ lane[t] # "terminal" /\ pc' = [pc EXCEPT ![t] = "created"]
        /\ status' = [status EXCEPT ![t] = "running"]
        /\ UNCHANGED <<lane, version, why, sha, tree, index, head, maker, alone>>
    BY <1>1 DEF Insert, workspace, history
  <2> QED
    BY <1>0, <2>1, StreamInv
<1>2. CASE Dispatch(t)
  <2>1. /\ pc[t] = "created" /\ pc' = [pc EXCEPT ![t] = "prelude"]
        /\ UNCHANGED <<status, lane, version, why, sha, tree, index, head, maker, alone>>
    BY <1>2 DEF Dispatch, row, workspace, history
  <2> QED
    BY <1>0, <2>1, StreamInv
<1>3. CASE Prelude(t)
  <2>1. /\ pc[t] = "prelude" /\ pc' = [pc EXCEPT ![t] = "streaming"]
        /\ UNCHANGED <<status, lane, version, why, sha, tree, index, head, maker, alone>>
    BY <1>3 DEF Prelude, row, workspace, history
  <2> QED
    BY <1>0, <2>1, StreamInv
<1>4. CASE Round(t)
  <2>1. /\ pc[t] = "streaming" /\ tree' \in {tree, tree \cup {t}}
        /\ UNCHANGED <<status, lane, version, pc, why, sha, index, head, maker, alone>>
    BY <1>4 DEF Round, row, history
  <2>2. pc' = [pc EXCEPT ![t] = "streaming"]
    BY <2>1 DEF Inv, Types
  <2> QED
    BY <1>0, <2>1, <2>2, StreamInv
<1>5. CASE StreamResult(t)
  <2>1. /\ pc[t] = "streaming" /\ pc' = [pc EXCEPT ![t] = "stage"] /\ why' = [why EXCEPT ![t] = "result"]
        /\ UNCHANGED <<status, lane, version, sha, tree, index, head, maker, alone>>
    BY <1>5 DEF StreamResult, row, workspace, history
  <2> QED
    BY <1>0, <2>1, StreamInv
<1>6. CASE StreamErrors(t)
  <2>1. /\ pc[t] = "streaming" /\ pc' = [pc EXCEPT ![t] = "write"] /\ why' = [why EXCEPT ![t] = "error"]
        /\ UNCHANGED <<status, lane, version, sha, tree, index, head, maker, alone>>
    BY <1>6 DEF StreamErrors, row, workspace, history
  <2> QED
    BY <1>0, <2>1, StreamInv
<1>7. CASE Timeout(t)
  <2>1. /\ pc[t] = "streaming" /\ pc' = [pc EXCEPT ![t] = "stage"] /\ why' = [why EXCEPT ![t] = "timeout"]
        /\ UNCHANGED <<status, lane, version, sha, tree, index, head, maker, alone>>
    BY <1>7 DEF Timeout, Clocked, row, workspace, history
  <2> QED
    BY <1>0, <2>1, StreamInv
<1> QED
  BY <1>1, <1>2, <1>3, <1>4, <1>5, <1>6, <1>7

\* The ways a coroutine ends, a cancel aside.
LEMMA EndSteps ==
  ASSUME Inv, NEW t \in Turns,
         ProviderGone(t) \/ WriteStatus(t) \/ InsertCapture(t) \/ Raises(t)
  PROVE  Inv'
<1>1. {"succeeded", "failed", "cancelled"} = Settled /\ Verdict(t) \in Settled
  BY DEF Settled, Verdict
<1>2. CASE ProviderGone(t)
  <2>1. /\ pc[t] = "prelude" /\ End(t) /\ status' = [status EXCEPT ![t] = "failed"]
        /\ UNCHANGED <<lane, version, tree, index, head, maker, alone>>
    BY <1>2 DEF ProviderGone, workspace, history
  <2> QED
    BY <1>1, <2>1, EndInv DEF Asleep
<1>3. CASE WriteStatus(t)
  <2>1. /\ pc[t] = "write" /\ End(t) /\ status' = [status EXCEPT ![t] = Verdict(t)]
        /\ version' = [version EXCEPT ![t] = sha[t]]
        /\ UNCHANGED <<lane, tree, index, head, maker, alone>>
    BY <1>3 DEF WriteStatus, RecordVersion, workspace, history
  <2>2. Verdict(t) # "failed" => Committed(t)
    BY <2>1 DEF Verdict, Committed
  <2>3. pc[t] \notin Asleep /\ pc[t] # "commit"
    BY <2>1 DEF Asleep
  <2> QED
    BY <1>1, <2>1, <2>2, <2>3, EndInv
<1>4. CASE InsertCapture(t)
  <2>1. /\ pc[t] = "insert" /\ lane[t] = "terminal" /\ End(t)
        /\ status' = [status EXCEPT ![t] = "succeeded"] /\ version' = [version EXCEPT ![t] = sha[t]]
        /\ UNCHANGED <<lane, tree, index, head, maker, alone>>
    BY <1>4 DEF InsertCapture, RecordVersion, workspace, history
  <2>2. Committed(t) /\ pc[t] \notin Asleep /\ pc[t] # "commit"
    BY <2>1 DEF Committed, Asleep
  <2> QED
    BY <1>1, <2>1, <2>2, EndInv
<1>5. CASE Raises(t)
  <2>1. /\ pc[t] \in {"prelude", "preserve", "write"} /\ End(t)
        /\ UNCHANGED <<status, lane, version, tree, index, head, maker, alone>>
    BY <1>5 DEF Raises, row, workspace
  <2> QED
    BY <1>1, <2>1, EndInv DEF Asleep
<1> QED
  BY <1>2, <1>3, <1>4, <1>5

LEMMA InvNext == Inv /\ [Next]_vars => Inv'
<1> SUFFICES ASSUME Inv, [Next]_vars PROVE Inv'
  OBVIOUS
<1>1. ASSUME NEW t \in Turns, Goes(t) PROVE Inv'
  BY <1>1, StreamSteps, EndSteps, GitInv, CommitInv, BetweenInv DEF Goes, GitStep
<1>2. ASSUME NEW t \in Turns, Create(t) \/ CaptureStarts(t) PROVE Inv'
  BY <1>2, CreateInv, CaptureInv
<1>3. ASSUME NEW t \in Turns, Round(t) \/ StreamResult(t) \/ StreamErrors(t) PROVE Inv'
  BY <1>3, StreamSteps
<1>4. ASSUME NEW t \in Turns, Cancel(t) PROVE Inv'
  BY <1>4, CancelInv
<1>5. ASSUME NEW t \in Turns, Raises(t) PROVE Inv'
  BY <1>5, EndSteps
<1>6. CASE Restart
  BY <1>6, RestartInv
<1>7. CASE UNCHANGED vars
  BY <1>7 DEF vars, row, coroutine, workspace, history, Inv, Types, Made, Past,
              TurnInv, Lonely, Staged, Committed
<1> QED
  BY <1>1, <1>2, <1>3, <1>4, <1>5, <1>6, <1>7 DEF Next

\* A turn that nothing else of its session overlapped, if it succeeded or was cancelled, left
\* no edit outside the versions, and the version on its row is one it made itself: however
\* many turns came before, whatever they did, and wherever a restart or a cancel fell.
THEOREM VersionsAreTheirOwn == Spec => []VersionsTellTurns
<1>1. Inv => VersionsTellTurns
  <2> SUFFICES ASSUME Inv, NEW t \in Turns, alone[t]
               PROVE  /\ status[t] \in {"succeeded", "cancelled"} => t \notin tree \cup index
                      /\ version[t] # 0 => maker[version[t]] = t
    BY DEF VersionsTellTurns
  <2>1. Lonely(t)
    BY DEF Inv, TurnInv
  <2> QED
    BY <2>1 DEF Lonely
<1> QED
  BY <1>1, InvInit, InvNext, PTL DEF Spec
-----------------------------------------------------------------------------
(* The budget.                                                              *)

SumOver(f, S) == MapThenSumSet(LAMBDA t : f[t], S)

PaceTypes ==
  /\ seq \in [Turns -> Nat] /\ cost \in [Turns -> Nat]
  /\ budget \in [Turns -> 0..Cap] /\ spent \in [Turns -> Nat]

\* The turns that SpendIsPaced is about follow each other and succeed.
Paced == \A t \in Turns : alone[t] /\ (spent[t] > 0 => pc[t] # "over" \/ status[t] = "succeeded")
Spenders == {t \in Turns : spent[t] > 0}
Bound(S) == Cap + Overshoot * Cardinality(S)

\* A turn spends from its prelude on, a capture never, and what succeeded was billed.
Billing ==
  \A t \in Turns :
    /\ pc[t] \in {"none", "number", "insert", "created", "prelude"} \/ lane[t] = "terminal" => spent[t] = 0
    /\ pc[t] \in {"created", "prelude", "streaming"} \/ (pc[t] = "insert" /\ lane[t] # "terminal")
         => lane[t] = "agent"
    /\ pc[t] # "over" => cost[t] = 0
    /\ status[t] = "succeeded" => cost[t] = spent[t]

\* A turn that is alone is numbered after every other row.
Last ==
  \A t \in Turns :
    alone[t] /\ pc[t] \in {"insert", "created", "prelude"} /\ lane[t] = "agent" =>
      \A u \in Turns \ {t} : status[u] # "absent" => seq[u] < seq[t]

\* What a turn that streams may still spend is what the others have left.
Streaming(t) ==
  LET others == SumOver(spent, Turns \ {t})
  IN  /\ others <= Bound(Spenders \ {t})
      /\ budget[t] = IF others >= Cap THEN 0 ELSE Cap - others

PaceInv ==
  /\ PaceTypes /\ Billing /\ Last
  /\ Paced => /\ SumOver(spent, Turns) <= Bound(Spenders)
              /\ \A t \in Turns : pc[t] = "streaming" => Streaming(t) /\ spent[t] <= budget[t] + Overshoot
-----------------------------------------------------------------------------
(* Sums.  What MapThenSumSet computes is shown by an induction, for which a *)
(* set of naturals has a least member.                                      *)

LEMMA LeastOf ==
  ASSUME NEW S \in SUBSET Nat, S # {}
  PROVE  \E x \in S : \A y \in S : x <= y
<1>1. PICK x \in S : \A y \in S : ~ (<<y, x>> \in OpToRel(<, Nat))
  BY NatLessThanWellFounded, WFMin
<1>2. \A y \in S : ~ (y < x)
  BY <1>1 DEF OpToRel
<1> QED BY <1>2

LEMMA TurnsFinite ==
  /\ IsFiniteSet(Turns) /\ Cardinality(Turns) \in Nat
  /\ \A U \in SUBSET Turns : IsFiniteSet(U) /\ Cardinality(U) \in Nat
<1>1. 1 \in Int /\ MaxTurns \in Int
  BY ConstantsAssumption
<1>2. IsFiniteSet(Turns)
  BY <1>1, FS_Interval DEF Turns
<1> QED
  BY <1>2, FS_Subset, FS_CardinalityType

\* The sums of f over the subsets of D.
IsTable(h, f, D) ==
  /\ h \in [SUBSET D -> Nat] /\ h[{}] = 0
  /\ \A s \in SUBSET D : \A x \in s : h[s] = f[x] + h[s \ {x}]

\* Adding one turn to those that have a table.
LEMMA TableGrows ==
  ASSUME NEW D, NEW e, e \notin D, NEW f \in [D \cup {e} -> Nat], NEW h, IsTable(h, f, D)
  PROVE  \E k : IsTable(k, f, D \cup {e})
<1> DEFINE E == D \cup {e}
           k == [s \in SUBSET E |-> IF e \in s THEN f[e] + h[s \ {e}] ELSE h[s]]
<1>1. \A s \in SUBSET E : s \ {e} \in SUBSET D /\ (e \notin s => s \in SUBSET D)
  OBVIOUS
<1>2. h \in [SUBSET D -> Nat] /\ h[{}] = 0
  BY DEF IsTable
<1>3. f[e] \in Nat /\ \A s \in SUBSET D : h[s] \in Nat
  BY <1>2
<1>4. k \in [SUBSET E -> Nat]
  BY <1>1, <1>3
<1>5. k[{}] = 0
  BY <1>2
<1>6. ASSUME NEW s \in SUBSET E, NEW x \in s
      PROVE  k[s] = f[x] + k[s \ {x}]
  <2>1. s \ {x} \in SUBSET E /\ f[x] \in Nat
    OBVIOUS
  <2>2. CASE x = e
    BY <2>1, <2>2
  <2>3. CASE x # e /\ e \in s
    <3>1. s \ {e} \in SUBSET D /\ x \in s \ {e}
      BY <1>1, <2>3
    <3>2. h[s \ {e}] = f[x] + h[(s \ {e}) \ {x}]
      BY <3>1 DEF IsTable
    <3>3. (s \ {e}) \ {x} = (s \ {x}) \ {e} /\ e \in s \ {x}
      BY <2>3
    <3>4. k[s] = f[e] + h[s \ {e}] /\ k[s \ {x}] = f[e] + h[(s \ {x}) \ {e}]
      BY <2>1, <2>3, <3>3
    <3>5. h[(s \ {x}) \ {e}] \in Nat
      BY <1>1, <1>3, <2>1
    <3>6. h[(s \ {e}) \ {x}] = h[(s \ {x}) \ {e}]
      BY <3>3
    <3>7. k[s] = f[e] + (f[x] + h[(s \ {x}) \ {e}])
      BY <3>2, <3>4, <3>6
    <3> HIDE DEF k
    <3> QED
      BY <1>3, <2>1, <3>4, <3>5, <3>7
  <2>4. CASE e \notin s
    <3>1. k[s] = h[s] /\ k[s \ {x}] = h[s \ {x}] /\ s \in SUBSET D
      BY <1>1, <2>1, <2>4
    <3> QED
      BY <3>1 DEF IsTable
  <2> QED
    BY <2>2, <2>3, <2>4
<1> HIDE DEF k
<1> QED
  BY <1>4, <1>5, <1>6 DEF IsTable

LEMMA TableExists ==
  ASSUME NEW f \in [Turns -> Nat]
  PROVE  \E h : IsTable(h, f, Turns)
<1>1. MaxTurns \in Nat /\ Turns = 1..MaxTurns
  BY ConstantsAssumption DEF Turns
<1> DEFINE Bad == {n \in 0..MaxTurns : ~ \E h : IsTable(h, f, 1..n)}
<1>2. CASE Bad = {}
  BY <1>1, <1>2
<1>3. CASE Bad # {}
  <2>1. Bad \in SUBSET Nat
    BY <1>1
  <2> HIDE DEF Bad
  <2>2. PICK n \in Bad : \A m \in Bad : n <= m
    BY <1>3, <2>1, LeastOf
  <2>3. n \in 0..MaxTurns /\ ~ \E h : IsTable(h, f, 1..n)
    BY <2>2 DEF Bad
  <2>4. CASE n = 0
    <3> DEFINE k == [s \in SUBSET {} |-> 0]
    <3>1. 1..n = {} /\ k \in [SUBSET {} -> Nat] /\ k[{}] = 0
      BY <2>4
    <3>2. IsTable(k, f, {})
      BY <3>1 DEF IsTable
    <3> QED
      BY <2>3, <3>1, <3>2
  <2>5. CASE n # 0
    <3>1. n - 1 \in 0..MaxTurns /\ ~ (n <= n - 1)
      BY <1>1, <2>3, <2>5
    <3>2. PICK h : IsTable(h, f, 1..n - 1)
      BY <2>2, <3>1 DEF Bad
    <3>3. /\ n \notin 1..n - 1 /\ 1..n = (1..n - 1) \cup {n}
          /\ (1..n - 1) \cup {n} \subseteq Turns
      BY <1>1, <2>3, <2>5
    <3> DEFINE g == [x \in (1..n - 1) \cup {n} |-> f[x]]
    <3>4. g \in [(1..n - 1) \cup {n} -> Nat]
      BY <3>3
    <3>5. IsTable(h, g, 1..n - 1)
      BY <3>2 DEF IsTable
    <3>6. \E k : IsTable(k, g, (1..n - 1) \cup {n})
      <4> HIDE DEF g
      <4> QED BY <3>3, <3>4, <3>5, TableGrows
    <3>7. PICK k : IsTable(k, g, 1..n)
      BY <3>3, <3>6
    <3>8. IsTable(k, f, 1..n)
      BY <3>3, <3>7 DEF IsTable
    <3> QED
      BY <2>3, <3>8
  <2> QED
    BY <2>4, <2>5
<1> QED
  BY <1>2, <1>3

\* What the library's operator computes is in the table.
LEMMA SumInTable ==
  ASSUME NEW f \in [Turns -> Nat], NEW h, IsTable(h, f, Turns), NEW S \in SUBSET Turns
  PROVE  SumOver(f, S) = h[S]
<1> DEFINE Some(s) == CHOOSE x \in s : TRUE
           G(i) == [s \in SUBSET S |-> IF s = {} THEN 0 ELSE f[Some(s)] + i[s \ {Some(s)}]]
           it == CHOOSE i : i = G(i)
           k == [s \in SUBSET S |-> h[s]]
<1>1. \A s : s # {} => Some(s) \in s
  OBVIOUS
<1>2. k = G(k)
  <2> HIDE DEF Some
  <2>1. ASSUME NEW s \in SUBSET S
        PROVE  k[s] = IF s = {} THEN 0 ELSE f[Some(s)] + k[s \ {Some(s)}]
    <3>1. s \in SUBSET Turns /\ s \ {Some(s)} \in SUBSET S
      OBVIOUS
    <3> QED
      BY <1>1, <3>1 DEF IsTable
  <2> QED
    BY <2>1
<1>3. it = G(it)
  <2> HIDE DEF G, k
  <2> QED BY <1>2
<1>4. SumOver(f, S) = it[S]
  BY DEF SumOver, MapThenSumSet, MapThenFoldSet
<1> HIDE DEF it
<1>5. ASSUME NEW s \in SUBSET S
      PROVE  it[s] = IF s = {} THEN 0 ELSE f[Some(s)] + it[s \ {Some(s)}]
  BY <1>3
<1> HIDE DEF G, Some, k
<1> DEFINE Wrong == {n \in Nat : \E s \in SUBSET S : it[s] # h[s] /\ n = Cardinality(s)}
<1>6. CASE Wrong = {}
  <2>1. Cardinality(S) \in Nat
    BY TurnsFinite
  <2> QED
    BY <1>4, <1>6, <2>1
<1>7. CASE Wrong # {}
  <2>1. Wrong \in SUBSET Nat
    OBVIOUS
  <2> HIDE DEF Wrong
  <2>2. PICK n \in Wrong : \A m \in Wrong : n <= m
    BY <1>7, <2>1, LeastOf
  <2>3. PICK s \in SUBSET S : it[s] # h[s] /\ n = Cardinality(s)
    BY <2>2 DEF Wrong
  <2>4. s # {} /\ Some(s) \in s
    BY <1>1, <1>5, <2>3 DEF IsTable
  <2> DEFINE u == s \ {Some(s)}
  <2>5. it[s] = f[Some(s)] + it[u] /\ h[s] = f[Some(s)] + h[u]
    BY <1>5, <2>4 DEF IsTable
  <2>6. u \in SUBSET S /\ it[u] # h[u]
    BY <2>3, <2>5
  <2>7. s \in SUBSET Turns /\ IsFiniteSet(s)
    <3>1. s \in SUBSET Turns
      OBVIOUS
    <3> QED BY <3>1, TurnsFinite
  <2>8. Cardinality(u) \in Nat /\ Cardinality(s) \in Nat /\ Cardinality(u) = Cardinality(s) - 1
    <3>1. IsFiniteSet(u)
      BY <2>7, FS_Subset
    <3> QED
      BY <2>4, <2>7, <3>1, FS_RemoveElement, FS_CardinalityType
  <2>9. Cardinality(u) \in Wrong
    BY <2>6, <2>8 DEF Wrong
  <2> QED
    BY <2>2, <2>3, <2>8, <2>9
<1> QED
  BY <1>6, <1>7

\* The three facts about sums that the proofs use.
LEMMA SumIs ==
  ASSUME NEW f \in [Turns -> Nat]
  PROVE  /\ \A S \in SUBSET Turns : SumOver(f, S) \in Nat
         /\ SumOver(f, {}) = 0
         /\ \A S \in SUBSET Turns : \A x \in S : SumOver(f, S) = f[x] + SumOver(f, S \ {x})
<1>1. PICK h : IsTable(h, f, Turns)
  BY TableExists
<1>2. \A S \in SUBSET Turns : SumOver(f, S) = h[S]
  BY <1>1, SumInTable
<1>3. {} \in SUBSET Turns /\ \A S \in SUBSET Turns : \A x \in S : S \ {x} \in SUBSET Turns
  OBVIOUS
<1> QED
  BY <1>1, <1>2, <1>3 DEF IsTable

\* Two sums agree that add up the same, turn by turn.
LEMMA SumsAgree ==
  ASSUME NEW f \in [Turns -> Nat], NEW g \in [Turns -> Nat],
         NEW S \in SUBSET Turns, NEW T \in SUBSET Turns,
         \A x \in Turns : (IF x \in S THEN f[x] ELSE 0) = (IF x \in T THEN g[x] ELSE 0)
  PROVE  SumOver(f, S) = SumOver(g, T)
<1> DEFINE Wrong == {n \in Nat : \E U \in SUBSET Turns :
                       SumOver(f, S \cap U) # SumOver(g, T \cap U) /\ n = Cardinality(U)}
<1>1. IsFiniteSet(Turns) /\ \A U \in SUBSET Turns : IsFiniteSet(U) /\ Cardinality(U) \in Nat
  BY TurnsFinite
<1>2. CASE Wrong = {}
  <2>1. S \cap Turns = S /\ T \cap Turns = T
    OBVIOUS
  <2> QED
    BY <1>1, <1>2, <2>1
<1>3. CASE Wrong # {}
  <2>1. Wrong \in SUBSET Nat
    OBVIOUS
  <2> HIDE DEF Wrong
  <2>2. PICK n \in Wrong : \A m \in Wrong : n <= m
    BY <1>3, <2>1, LeastOf
  <2>3. PICK U \in SUBSET Turns : SumOver(f, S \cap U) # SumOver(g, T \cap U) /\ n = Cardinality(U)
    BY <2>2 DEF Wrong
  <2>4. U # {}
    <3> SUFFICES ASSUME U = {} PROVE FALSE
      OBVIOUS
    <3>1. S \cap U = {} /\ T \cap U = {}
      OBVIOUS
    <3> QED
      BY <2>3, <3>1, SumIs
  <2>5. PICK x \in U : TRUE
    BY <2>4
  <2> DEFINE V == U \ {x}
  <2>6. V \in SUBSET Turns /\ Cardinality(V) = n - 1 /\ n \in Nat
    BY <1>1, <2>3, <2>5, FS_RemoveElement
  <2>7. Cardinality(V) \notin Wrong /\ Cardinality(V) \in Nat
    BY <1>1, <2>2, <2>6
  <2>8. SumOver(f, S \cap V) = SumOver(g, T \cap V)
    BY <2>6, <2>7 DEF Wrong
  <2>9. /\ SumOver(f, S \cap U) = (IF x \in S THEN f[x] ELSE 0) + SumOver(f, S \cap V)
        /\ SumOver(f, S \cap V) \in Nat
    <3>1. S \cap V \in SUBSET Turns /\ S \cap U \in SUBSET Turns
      OBVIOUS
    <3>2. SumOver(f, S \cap V) \in Nat
      BY <3>1, SumIs
    <3>3. CASE x \in S
      <4>1. x \in S \cap U /\ (S \cap U) \ {x} = S \cap V
        BY <2>5, <3>3
      <4>2. SumOver(f, S \cap U) = f[x] + SumOver(f, (S \cap U) \ {x})
        BY <3>1, <4>1, SumIs
      <4> QED
        BY <3>2, <3>3, <4>1, <4>2
    <3>4. CASE x \notin S
      <4>1. S \cap U = S \cap V
        BY <3>4
      <4>2. SumOver(f, S \cap U) = SumOver(f, S \cap V)
        BY <4>1
      <4> HIDE DEF V
      <4> QED
        BY <3>2, <3>4, <4>2
    <3> QED
      BY <3>3, <3>4
  <2>10. /\ SumOver(g, T \cap U) = (IF x \in T THEN g[x] ELSE 0) + SumOver(g, T \cap V)
         /\ SumOver(g, T \cap V) \in Nat
    <3>1. T \cap V \in SUBSET Turns /\ T \cap U \in SUBSET Turns
      OBVIOUS
    <3>2. SumOver(g, T \cap V) \in Nat
      BY <3>1, SumIs
    <3>3. CASE x \in T
      <4>1. x \in T \cap U /\ (T \cap U) \ {x} = T \cap V
        BY <2>5, <3>3
      <4>2. SumOver(g, T \cap U) = g[x] + SumOver(g, (T \cap U) \ {x})
        BY <3>1, <4>1, SumIs
      <4> QED
        BY <3>2, <3>3, <4>1, <4>2
    <3>4. CASE x \notin T
      <4>1. T \cap U = T \cap V
        BY <3>4
      <4>2. SumOver(g, T \cap U) = SumOver(g, T \cap V)
        BY <4>1
      <4> HIDE DEF V
      <4> QED
        BY <3>2, <3>4, <4>2
    <3> QED
      BY <3>3, <3>4
  <2>11. x \in Turns
    BY <2>5
  <2> HIDE DEF V
  <2> QED
    BY <2>3, <2>8, <2>9, <2>10, <2>11
<1> QED
  BY <1>2, <1>3
-----------------------------------------------------------------------------
(* Numbers of rows.                                                         *)

\* The greatest number on the rows is what Max says.
LEMMA MaxOf ==
  ASSUME NEW n \in Nat, NEW S \in SUBSET (0..n), S # {}
  PROVE  Max(S) \in S /\ \A y \in S : y <= Max(S)
<1> DEFINE T == {k \in Nat : \E y \in S : k = n - y}
<1>1. PICK y \in S : TRUE
  OBVIOUS
<1>2. n - y \in T
  BY <1>1
<1>3. T \in SUBSET Nat /\ T # {}
  BY <1>2
<1>4. PICK k \in T : \A l \in T : k <= l
  BY <1>3, LeastOf
<1>5. PICK x \in S : k = n - x
  BY <1>4
<1>6. \A z \in S : z <= x
  <2> TAKE z \in S
  <2>1. n - z \in T
    OBVIOUS
  <2> QED
    BY <1>4, <1>5, <2>1
<1>7. \E z \in S : \A w \in S : z >= w
  BY <1>6
<1> HIDE DEF T
<1> QED
  BY <1>7 DEF Max

\* The next number is above those of all rows.
LEMMA NextSeqIs ==
  ASSUME PaceTypes
  PROVE  NextSeq \in Nat /\ \A t \in Turns : status[t] # "absent" => seq[t] < NextSeq
<1> DEFINE rows == {t \in Turns : status[t] # "absent"}
           seqs == {seq[t] : t \in rows}
           n == SumOver(seq, Turns)
<1>1. seq \in [Turns -> Nat]
  BY DEF PaceTypes
<1>2. n \in Nat /\ \A t \in Turns : seq[t] <= n
  <2>1. Turns \in SUBSET Turns /\ n \in Nat
    BY <1>1, SumIs
  <2>2. ASSUME NEW t \in Turns PROVE seq[t] <= n
    <3>1. n = seq[t] + SumOver(seq, Turns \ {t}) /\ SumOver(seq, Turns \ {t}) \in Nat
      BY <1>1, <2>1, SumIs
    <3>2. seq[t] \in Nat
      BY <1>1
    <3> QED
      BY <2>1, <3>1, <3>2
  <2> QED
    BY <2>1, <2>2
<1>3. CASE rows = {}
  BY <1>3 DEF NextSeq
<1>4. CASE rows # {}
  <2>1. seqs \in SUBSET (0..n) /\ seqs # {}
    BY <1>1, <1>2, <1>4
  <2>2. NextSeq = Max(seqs) + 1
    BY <1>4 DEF NextSeq
  <2> HIDE DEF n
  <2>3. Max(seqs) \in seqs /\ \A y \in seqs : y <= Max(seqs)
    <3> HIDE DEF seqs
    <3> QED BY <1>2, <2>1, MaxOf
  <2>4. Max(seqs) \in Nat
    BY <1>2, <2>1, <2>3
  <2>5. ASSUME NEW t \in Turns, status[t] # "absent" PROVE seq[t] < NextSeq
    <3>1. seq[t] \in seqs /\ seq[t] \in Nat
      BY <1>1, <2>5
    <3> HIDE DEF seqs
    <3> QED
      BY <2>2, <2>3, <2>4, <3>1
  <2> QED
    BY <2>2, <2>4, <2>5
<1> QED
  BY <1>3, <1>4

-----------------------------------------------------------------------------
(* What the turns spend.                                                    *)

\* The rest of a pair that is alone and lives is asleep.
LEMMA OthersAsleep ==
  ASSUME Inv, NEW t \in Turns, alone[t], pc[t] \notin Asleep
  PROVE  \A u \in Turns \ {t} : pc[u] \in Asleep
BY DEF Inv, TurnInv, Lonely

\* What a turn and the others spent makes up the whole, and so does the count of spenders.
LEMMA Splits ==
  ASSUME NEW f \in [Turns -> Nat], NEW t \in Turns
  PROVE  /\ SumOver(f, Turns) \in Nat /\ SumOver(f, Turns \ {t}) \in Nat
         /\ SumOver(f, Turns) = f[t] + SumOver(f, Turns \ {t})
<1>1. Turns \in SUBSET Turns /\ Turns \ {t} \in SUBSET Turns
  OBVIOUS
<1> QED
  BY <1>1, SumIs

LEMMA BoundIs ==
  ASSUME NEW S \in SUBSET Turns, NEW t \in Turns
  PROVE  /\ Bound(S) \in Nat /\ Bound(S) >= Cap
         /\ Bound(S \cup {t}) = Bound(S \ {t}) + Overshoot
<1>1. S \cup {t} \in SUBSET Turns /\ S \ {t} \in SUBSET Turns
  OBVIOUS
<1>2. /\ Cardinality(S) \in Nat /\ Cardinality(S \ {t}) \in Nat
      /\ IsFiniteSet(S \ {t}) /\ IsFiniteSet(S)
  BY <1>1, TurnsFinite
<1>3. Cardinality((S \ {t}) \cup {t}) = Cardinality(S \ {t}) + 1
  <2>1. t \notin S \ {t}
    OBVIOUS
  <2> QED
    BY <1>2, <2>1, FS_AddElement
<1>4. (S \ {t}) \cup {t} = S \cup {t}
  OBVIOUS
<1>5. Cardinality(S \cup {t}) = Cardinality(S \ {t}) + 1
  BY <1>3, <1>4
<1> QED
  BY <1>2, <1>5, ConstantsAssumption DEF Bound, Overshoot

\* A step in which nothing is spent, and that begins no stream.
LEMMA QuietStep ==
  ASSUME Inv, PaceInv, NEW t \in Turns, pc[t] # "over",
         \A u \in Turns \ {t} :
           /\ pc'[u] = pc[u] /\ status'[u] = status[u] /\ lane'[u] = lane[u]
           /\ seq'[u] = seq[u] /\ cost'[u] = cost[u] /\ budget'[u] = budget[u]
           /\ alone'[u] => alone[u]
           /\ pc[t] = "none" /\ alone'[u] => pc[u] \in Asleep,
         alone'[t] => alone[t],
         spent' = spent, PaceTypes',
         /\ pc'[t] \in {"none", "number", "insert", "created", "prelude"} \/ lane'[t] = "terminal" => spent[t] = 0
         /\ pc'[t] \in {"created", "prelude", "streaming"} \/ (pc'[t] = "insert" /\ lane'[t] # "terminal")
              => lane'[t] = "agent"
         /\ pc'[t] # "over" => cost'[t] = 0
         /\ status'[t] = "succeeded" => cost'[t] = spent[t],
         alone'[t] /\ pc'[t] \in {"insert", "created", "prelude"} /\ lane'[t] = "agent" =>
           \A u \in Turns \ {t} : status[u] # "absent" => seq[u] < seq'[t],
         pc'[t] = "streaming" => pc[t] = "streaming" /\ budget'[t] = budget[t]
  PROVE  PaceInv'
<1>1. Billing'
  <2> SUFFICES ASSUME NEW u \in Turns
               PROVE  /\ pc'[u] \in {"none", "number", "insert", "created", "prelude"} \/ lane'[u] = "terminal" => spent'[u] = 0
                      /\ pc'[u] \in {"created", "prelude", "streaming"} \/ (pc'[u] = "insert" /\ lane'[u] # "terminal")
                           => lane'[u] = "agent"
                      /\ pc'[u] # "over" => cost'[u] = 0
                      /\ status'[u] = "succeeded" => cost'[u] = spent'[u]
    BY DEF Billing
  <2>1. CASE u = t
    BY <2>1
  <2>2. CASE u # t
    BY <2>2 DEF PaceInv, Billing
  <2> QED
    BY <2>1, <2>2
<1>2. Last'
  <2> SUFFICES ASSUME NEW u \in Turns, alone'[u], pc'[u] \in {"insert", "created", "prelude"},
                      lane'[u] = "agent", NEW v \in Turns \ {u}, status'[v] # "absent"
               PROVE  seq'[v] < seq'[u]
    BY DEF Last
  <2>1. CASE u = t
    BY <2>1
  <2>2. CASE u # t
    <3>1. pc[u] \notin Asleep /\ alone[u]
      BY <2>2 DEF Asleep
    <3>2. pc[t] \in Asleep
      BY <2>2, <3>1, OthersAsleep
    <3> QED
      BY <2>2, <3>1, <3>2 DEF Asleep
  <2> QED
    BY <2>1, <2>2
<1>3. Paced' => Paced
  <2> SUFFICES ASSUME Paced', NEW u \in Turns
               PROVE  alone[u] /\ (spent[u] > 0 => pc[u] # "over" \/ status[u] = "succeeded")
    BY DEF Paced
  <2>1. alone'[u] /\ (spent[u] > 0 => pc'[u] # "over" \/ status'[u] = "succeeded")
    BY DEF Paced
  <2> QED
    BY <2>1
<1>4. ASSUME NEW u \in Turns, Paced, pc'[u] = "streaming"
      PROVE  Streaming(u)' /\ spent'[u] <= budget'[u] + Overshoot
  <2>1. pc[u] = "streaming" /\ budget'[u] = budget[u]
    BY <1>4
  <2>2. Streaming(u) /\ spent[u] <= budget[u] + Overshoot
    BY <1>4, <2>1 DEF PaceInv
  <2> QED
    BY <2>1, <2>2 DEF Streaming, Bound, Spenders
<1>5. Paced => SumOver(spent', Turns) <= Bound(Spenders')
  BY DEF PaceInv, Bound, Spenders
<1> QED
  BY <1>1, <1>2, <1>3, <1>4, <1>5 DEF PaceInv

\* A request or a capture comes in.
LEMMA PaceBegins ==
  ASSUME Inv, PaceInv, NEW t \in Turns, Create(t) \/ CaptureStarts(t)
  PROVE  PaceInv'
<1>1. Types /\ TurnInv(t) /\ PaceTypes /\ Billing
  BY DEF Inv, PaceInv
<1>2. /\ pc[t] = "none" /\ Joins(t)
      /\ UNCHANGED <<status, cost, budget, spent>>
      /\ \/ /\ pc' = [pc EXCEPT ![t] = "insert"] /\ lane' = [lane EXCEPT ![t] = "agent"]
            /\ seq' = [seq EXCEPT ![t] = NextSeq]
         \/ /\ pc' = [pc EXCEPT ![t] = "stage"] /\ lane' = [lane EXCEPT ![t] = "terminal"]
            /\ seq' = seq
  BY DEF Create, CaptureStarts, Unused, Goto, Commit
<1>3. /\ \A u \in Turns : alone'[u] => alone[u]
      /\ \A u \in Turns \ {t} : alone'[u] => pc[u] \in Asleep
  BY <1>2, JoinsIs
<1>4. NextSeq \in Nat /\ \A u \in Turns : status[u] # "absent" => seq[u] < NextSeq
  BY <1>1, NextSeqIs
<1>5. PaceTypes'
  BY <1>1, <1>2, <1>4 DEF PaceTypes
<1>6. /\ pc'[t] \in {"insert", "stage"} /\ (pc'[t] = "insert" => lane'[t] = "agent" /\ seq'[t] = NextSeq)
      /\ \A u \in Turns \ {t} : pc'[u] = pc[u] /\ lane'[u] = lane[u] /\ seq'[u] = seq[u]
  BY <1>1, <1>2 DEF Types, PaceTypes
<1>7. status[t] = "absent" /\ cost[t] = 0 /\ spent[t] = 0
  BY <1>1, <1>2 DEF TurnInv, Billing
<1> QED
  BY <1>2, <1>3, <1>4, <1>5, <1>6, <1>7, QuietStep

\* A turn goes on where nothing is spent: its row gets no number and no cost.
LEMMA PaceGoesOn ==
  ASSUME Inv, PaceInv, NEW t \in Turns, pc[t] \notin Asleep,
         NEW next \in TurnPcs, pc' = [pc EXCEPT ![t] = next],
         next \in {"created", "prelude"} => /\ pc[t] \in {"insert", "created"}
                                            /\ lane[t] = "agent",
         next \notin {"none", "number", "insert", "streaming"} \/ (lane[t] = "terminal" /\ next # "streaming"),
         status' = status \/ status' = [status EXCEPT ![t] = "running"],
         UNCHANGED <<lane, cost, spent, budget, alone>>,
         seq' = seq \/ (lane[t] = "terminal" /\ seq' = [seq EXCEPT ![t] = NextSeq])
  PROVE  PaceInv'
<1>1. Types /\ TurnInv(t) /\ PaceTypes /\ Billing
  BY DEF Inv, PaceInv
<1>2. PaceTypes'
  BY <1>1, NextSeqIs DEF PaceTypes
<1>3. /\ pc'[t] = next
      /\ \A u \in Turns \ {t} : pc'[u] = pc[u] /\ status'[u] = status[u] /\ seq'[u] = seq[u]
  BY <1>1 DEF Types, PaceTypes
<1>4. status'[t] # "succeeded"
  BY <1>1 DEF Types, TurnInv, Settled, Asleep
<1>5. lane[t] = "terminal" => spent[t] = 0 /\ next \notin {"created", "prelude"}
  BY <1>1 DEF Billing
<1>6. cost[t] = 0 /\ (next \in {"created", "prelude"} => spent[t] = 0)
  BY <1>1 DEF Billing, Asleep
<1>7. alone'[t] /\ next \in {"insert", "created", "prelude"} /\ lane'[t] = "agent" =>
        \A u \in Turns \ {t} : status[u] # "absent" => seq[u] < seq'[t]
  <2> SUFFICES ASSUME alone'[t], next \in {"insert", "created", "prelude"}, lane'[t] = "agent"
               PROVE  \A u \in Turns \ {t} : status[u] # "absent" => seq[u] < seq'[t]
    OBVIOUS
  <2>1. pc[t] \in {"insert", "created"} /\ alone[t] /\ lane[t] = "agent" /\ seq' = seq
    OBVIOUS
  <2> QED
    BY <2>1 DEF PaceInv, Last
<1>8. pc[t] # "over" /\ pc[t] # "none" /\ next # "streaming"
  BY DEF Asleep
<1>9. /\ next \in {"none", "number", "insert", "created", "prelude"} \/ lane[t] = "terminal" => spent[t] = 0
      /\ next \in {"created", "prelude", "streaming"} \/ (next = "insert" /\ lane[t] # "terminal")
           => lane[t] = "agent"
  BY <1>5, <1>6
<1> QED
  BY <1>2, <1>3, <1>4, <1>6, <1>7, <1>8, <1>9, QuietStep

\* A turn ends: one that succeeds is billed for what it spent.
LEMMA PaceEnds ==
  ASSUME Inv, PaceInv, NEW t \in Turns, pc[t] \notin Asleep, End(t),
         NEW last \in Settled,
         \/ status' = status /\ cost' = cost
         \/ /\ status' = [status EXCEPT ![t] = last]
            /\ cost' = [cost EXCEPT ![t] = IF last = "succeeded" THEN spent[t] ELSE 0],
         UNCHANGED <<lane, seq, spent, alone>>
  PROVE  PaceInv'
<1>1. Types /\ TurnInv(t) /\ PaceTypes /\ Billing
  BY DEF Inv, PaceInv
<1>2. pc' = [pc EXCEPT ![t] = "over"] /\ budget' = [budget EXCEPT ![t] = 0]
  BY DEF End, Goto
<1>3. PaceTypes'
  <2>1. Cap \in Nat /\ 0 \in 0..Cap
    BY ConstantsAssumption
  <2>2. spent[t] \in Nat
    BY <1>1 DEF PaceTypes
  <2>3. cost' \in [Turns -> Nat] /\ budget' \in [Turns -> 0..Cap]
    BY <1>1, <1>2, <2>1, <2>2 DEF PaceTypes
  <2> QED
    BY <1>1, <2>3 DEF PaceTypes
<1>4. /\ pc'[t] = "over"
      /\ \A u \in Turns \ {t} : /\ pc'[u] = pc[u] /\ status'[u] = status[u]
                               /\ cost'[u] = cost[u] /\ budget'[u] = budget[u]
  BY <1>1, <1>2 DEF Types, PaceTypes
<1>5. status[t] \notin Settled
  BY <1>1 DEF TurnInv, Asleep
<1>6. status'[t] = "succeeded" => cost'[t] = spent[t]
  BY <1>1, <1>5 DEF Types, PaceTypes, Settled
<1>7. lane[t] = "terminal" => spent[t] = 0
  BY <1>1 DEF Billing
<1>8. pc[t] # "over" /\ pc[t] # "none"
  BY DEF Asleep
<1> QED
  BY <1>3, <1>4, <1>6, <1>7, <1>8, QuietStep

\* The budget of a turn is the session's less what the others were billed, that is, spent.
LEMMA PacePrelude ==
  ASSUME Inv, PaceInv, NEW t \in Turns, Prelude(t)
  PROVE  PaceInv'
<1>1. Types /\ TurnInv(t) /\ PaceTypes /\ Billing /\ Last
  BY DEF Inv, PaceInv
<1>2. /\ pc[t] = "prelude" /\ budget' = [budget EXCEPT ![t] = Remaining(t)]
      /\ pc' = [pc EXCEPT ![t] = "streaming"]
      /\ UNCHANGED <<status, lane, seq, cost, spent, alone>>
  BY DEF Prelude, Goto, row, history
<1>3. /\ pc'[t] = "streaming" /\ \A u \in Turns \ {t} : pc'[u] = pc[u] /\ budget'[u] = budget[u]
  BY <1>1, <1>2 DEF Types, PaceTypes
<1>4. spent[t] = 0 /\ cost[t] = 0 /\ lane[t] = "agent" /\ status[t] # "succeeded"
  BY <1>1, <1>2 DEF Billing, TurnInv, Settled
<1> DEFINE before == {u \in Turns : status[u] = "succeeded" /\ seq[u] < seq[t]}
<1>5. cost \in [Turns -> Nat] /\ spent \in [Turns -> Nat] /\ seq \in [Turns -> Nat]
  BY <1>1 DEF PaceTypes
<1>6. Billed(t) = SumOver(cost, before) /\ Billed(t) \in Nat
  <2>1. Billed(t) = SumOver(cost, before)
    BY DEF Billed, SumOver
  <2>2. before \in SUBSET Turns
    OBVIOUS
  <2> QED
    BY <1>5, <2>1, <2>2, SumIs
<1>7. Remaining(t) \in 0..Cap /\ Cap \in Nat
  BY <1>6, ConstantsAssumption DEF Remaining
<1>8. PaceTypes'
  BY <1>1, <1>2, <1>7 DEF PaceTypes
<1>9. Billing'
  BY <1>1, <1>2, <1>3, <1>4 DEF Billing
<1>10. Last'
  BY <1>1, <1>2, <1>3 DEF Last
<1>11. Paced' => Paced
  BY <1>2, <1>3 DEF Paced
<1>12. ASSUME Paced PROVE Billed(t) = SumOver(spent, Turns \ {t})
  <2>1. \A u \in Turns \ {t} : pc[u] \in Asleep
    BY <1>2, <1>12, OthersAsleep DEF Paced, Asleep
  <2>2. ASSUME NEW u \in Turns
        PROVE  (IF u \in before THEN cost[u] ELSE 0) = (IF u \in Turns \ {t} THEN spent[u] ELSE 0)
    <3>1. CASE u = t
      <4>1. u \notin before
        BY <1>5, <3>1
      <4> QED BY <3>1, <4>1
    <3>2. CASE u # t /\ spent[u] > 0
      <4>1. pc[u] = "over" /\ status[u] = "succeeded"
        BY <1>1, <1>12, <2>1, <3>2 DEF Asleep, Billing, Paced
      <4>2. seq[u] < seq[t] /\ cost[u] = spent[u]
        BY <1>1, <1>2, <1>4, <1>12, <3>2, <4>1 DEF Billing, Last, Paced
      <4> QED BY <3>2, <4>1, <4>2
    <3>3. CASE u # t /\ ~(spent[u] > 0)
      <4>1. spent[u] = 0
        BY <1>5, <3>3
      <4>2. u \in before => cost[u] = 0
        BY <1>1, <4>1 DEF Billing
      <4> QED BY <3>3, <4>1, <4>2
    <3> QED BY <3>1, <3>2, <3>3
  <2>3. before \in SUBSET Turns /\ Turns \ {t} \in SUBSET Turns
    OBVIOUS
  <2> HIDE DEF before
  <2>4. SumOver(cost, before) = SumOver(spent, Turns \ {t})
    BY <1>5, <2>2, <2>3, SumsAgree
  <2> QED
    BY <1>6, <2>4
<1>13. ASSUME Paced PROVE Streaming(t)' /\ spent'[t] <= budget'[t] + Overshoot
  <2>1. SumOver(spent, Turns) = spent[t] + SumOver(spent, Turns \ {t}) /\ SumOver(spent, Turns \ {t}) \in Nat
    BY <1>5, Splits
  <2>2. SumOver(spent, Turns \ {t}) <= Bound(Spenders)
    BY <1>4, <1>13, <2>1 DEF PaceInv
  <2>3. Spenders \ {t} = Spenders
    BY <1>4 DEF Spenders
  <2>4. budget'[t] = IF SumOver(spent, Turns \ {t}) >= Cap THEN 0 ELSE Cap - SumOver(spent, Turns \ {t})
    BY <1>1, <1>2, <1>12, <1>13 DEF Remaining, PaceTypes
  <2>5. /\ SumOver(spent', Turns \ {t}) <= Bound(Spenders' \ {t})
        /\ budget'[t] = IF SumOver(spent', Turns \ {t}) >= Cap THEN 0 ELSE Cap - SumOver(spent', Turns \ {t})
    BY <1>2, <2>2, <2>3, <2>4 DEF Bound, Spenders
  <2>6. spent'[t] <= budget'[t] + Overshoot
    BY <1>2, <1>4, <1>7, <1>8 DEF PaceTypes, Overshoot
  <2> QED
    BY <2>5, <2>6 DEF Streaming, Bound
<1>14. ASSUME Paced, NEW u \in Turns, u # t PROVE pc'[u] # "streaming"
  <2>1. pc[u] \in Asleep
    BY <1>2, <1>14, OthersAsleep DEF Paced, Asleep
  <2> QED
    BY <1>3, <1>14, <2>1 DEF Asleep
<1>15. Paced => SumOver(spent', Turns) <= Bound(Spenders')
  BY <1>2 DEF PaceInv, Bound, Spenders
<1> QED
  BY <1>8, <1>9, <1>10, <1>11, <1>13, <1>14, <1>15 DEF PaceInv

\* A round spends of what the others have left, or is part of the overshoot.
LEMMA PaceRound ==
  ASSUME Inv, PaceInv, NEW t \in Turns, Round(t)
  PROVE  PaceInv'
<1>1. Types /\ TurnInv(t) /\ PaceTypes /\ Billing /\ Last
  BY DEF Inv, PaceInv
<1>2. /\ pc[t] = "streaming" /\ spent' = [spent EXCEPT ![t] = @ + 1]
      /\ spent[t] <= budget[t] + 1
      /\ UNCHANGED <<status, lane, seq, cost, pc, budget, alone>>
  BY DEF Round, MayGoOn, row, history
<1>3. /\ spent \in [Turns -> Nat] /\ spent' \in [Turns -> Nat]
      /\ spent'[t] = spent[t] + 1 /\ \A u \in Turns \ {t} : spent'[u] = spent[u]
      /\ spent[t] \in Nat /\ budget[t] \in 0..Cap /\ Cap \in Nat
  BY <1>1, <1>2, ConstantsAssumption DEF PaceTypes
<1>4. PaceTypes'
  BY <1>1, <1>2, <1>3 DEF PaceTypes
<1>5. Billing'
  <2>1. lane[t] = "agent" /\ status[t] # "succeeded"
    BY <1>1, <1>2 DEF Billing, TurnInv, Settled
  <2> QED
    BY <1>1, <1>2, <1>3, <2>1 DEF Billing
<1>6. Last'
  BY <1>1, <1>2 DEF Last
<1>7. Paced' => Paced
  <2> SUFFICES ASSUME Paced', NEW u \in Turns
               PROVE  alone[u] /\ (spent[u] > 0 => pc[u] # "over" \/ status[u] = "succeeded")
    BY DEF Paced
  <2>1. spent[u] > 0 => spent'[u] > 0
    BY <1>3
  <2> QED
    BY <1>2, <2>1 DEF Paced
<1> SUFFICES ASSUME Paced
             PROVE  /\ SumOver(spent', Turns) <= Bound(Spenders')
                    /\ \A u \in Turns : pc'[u] = "streaming" =>
                         Streaming(u)' /\ spent'[u] <= budget'[u] + Overshoot
  BY <1>4, <1>5, <1>6, <1>7 DEF PaceInv
<1>8. Streaming(t) /\ alone[t]
  BY <1>2 DEF PaceInv, Paced
<1>9. SumOver(spent', Turns \ {t}) = SumOver(spent, Turns \ {t})
  <2>1. Turns \ {t} \in SUBSET Turns
    OBVIOUS
  <2>2. \A u \in Turns : (IF u \in Turns \ {t} THEN spent'[u] ELSE 0) = (IF u \in Turns \ {t} THEN spent[u] ELSE 0)
    BY <1>3
  <2> QED
    BY <1>3, <2>1, <2>2, SumsAgree
<1>10. Spenders' \ {t} = Spenders \ {t} /\ Spenders' = Spenders \cup {t} /\ Spenders \in SUBSET Turns
  <2>1. spent'[t] > 0
    BY <1>3
  <2> QED
    BY <1>3, <2>1 DEF Spenders
<1> DEFINE rest == SumOver(spent, Turns \ {t})
<1>11. rest \in Nat /\ SumOver(spent', Turns) = spent'[t] + rest
  BY <1>3, <1>9, Splits
<1>12. rest <= Bound(Spenders \ {t}) /\ budget[t] = IF rest >= Cap THEN 0 ELSE Cap - rest
  BY <1>8 DEF Streaming
<1>13. /\ Bound(Spenders') = Bound(Spenders \ {t}) + Overshoot
       /\ Bound(Spenders \ {t}) \in Nat /\ Bound(Spenders \ {t}) >= Cap
  <2>1. Spenders \ {t} \in SUBSET Turns
    BY <1>10
  <2> QED
    BY <1>10, <2>1, BoundIs
<1>14. SumOver(spent', Turns) <= Bound(Spenders')
  <2> HIDE DEF rest
  <2>1. spent'[t] <= budget[t] + Overshoot
    BY <1>2, <1>3 DEF Overshoot
  <2>2. CASE rest >= Cap
    BY <1>3, <1>11, <1>12, <1>13, <2>1, <2>2 DEF Overshoot
  <2>3. CASE ~(rest >= Cap)
    BY <1>3, <1>11, <1>12, <1>13, <2>1, <2>3 DEF Overshoot
  <2> QED
    BY <2>2, <2>3
<1>15. ASSUME NEW u \in Turns, pc'[u] = "streaming"
       PROVE  Streaming(u)' /\ spent'[u] <= budget'[u] + Overshoot
  <2>1. u = t
    BY <1>2, <1>8, <1>15, OthersAsleep DEF Asleep
  <2>2. SumOver(spent', Turns \ {t}) <= Bound(Spenders' \ {t})
    BY <1>9, <1>10, <1>12
  <2>3. budget'[t] = IF SumOver(spent', Turns \ {t}) >= Cap THEN 0 ELSE Cap - SumOver(spent', Turns \ {t})
    BY <1>2, <1>9, <1>12
  <2>4. Streaming(t)'
    BY <2>2, <2>3 DEF Streaming, Bound
  <2>5. spent'[t] <= budget'[t] + Overshoot
    BY <1>2, <1>3 DEF Overshoot
  <2> QED
    BY <2>1, <2>4, <2>5
<1> QED
  BY <1>14, <1>15

\* A restart ends every turn; those that were under way have not succeeded.
LEMMA PaceRestart == ASSUME Inv, PaceInv, Restart PROVE PaceInv'
<1>1. Types /\ PaceTypes /\ Billing /\ \A t \in Turns : TurnInv(t)
  BY DEF Inv, PaceInv
<1>2. /\ UNCHANGED <<lane, seq, cost, spent, alone>>
      /\ budget' = [t \in Turns |-> 0]
      /\ \A t \in Turns : /\ status'[t] = IF status[t] = "running" THEN "failed" ELSE status[t]
                          /\ pc'[t] = IF pc[t] = "none" THEN "none" ELSE "over"
  BY DEF Restart, Orphaned
<1>3. PaceTypes'
  <2>1. 0 \in 0..Cap
    BY ConstantsAssumption
  <2> QED
    BY <1>1, <1>2, <2>1 DEF PaceTypes
<1>4. Billing'
  <2> SUFFICES ASSUME NEW t \in Turns
               PROVE  /\ pc'[t] \in {"none", "number", "insert", "created", "prelude"} \/ lane'[t] = "terminal" => spent'[t] = 0
                      /\ pc'[t] \in {"created", "prelude", "streaming"} \/ (pc'[t] = "insert" /\ lane'[t] # "terminal")
                           => lane'[t] = "agent"
                      /\ pc'[t] # "over" => cost'[t] = 0
                      /\ status'[t] = "succeeded" => cost'[t] = spent'[t]
    BY DEF Billing
  <2> QED
    BY <1>1, <1>2 DEF Billing
<1>5. Last'
  BY <1>2 DEF Last
<1>6. Paced' => Paced
  <2> SUFFICES ASSUME Paced', NEW t \in Turns
               PROVE  alone[t] /\ (spent[t] > 0 => pc[t] # "over" \/ status[t] = "succeeded")
    BY DEF Paced
  <2>1. alone[t] /\ (spent[t] > 0 => pc'[t] # "over" \/ status'[t] = "succeeded")
    BY <1>2 DEF Paced
  <2> QED
    BY <1>2, <2>1
<1>7. \A t \in Turns : pc'[t] # "streaming"
  BY <1>2
<1>8. Paced => SumOver(spent', Turns) <= Bound(Spenders')
  BY <1>2 DEF PaceInv, Bound, Spenders
<1> QED
  BY <1>3, <1>4, <1>5, <1>6, <1>7, <1>8 DEF PaceInv

LEMMA PaceInit == Init => PaceInv
<1> SUFFICES ASSUME Init PROVE PaceInv
  OBVIOUS
<1>1. Cap \in Nat /\ 0 \in 0..Cap
  BY ConstantsAssumption
<1>2. PaceTypes /\ Billing /\ Last
  BY <1>1 DEF Init, PaceTypes, Billing, Last
<1>3. SumOver(spent, Turns) <= Bound(Spenders)
  <2>1. spent \in [Turns -> Nat] /\ \A t \in Turns : spent[t] = 0
    BY DEF Init
  <2>2. {} \in SUBSET Turns /\ Turns \in SUBSET Turns
    OBVIOUS
  <2>3. \A t \in Turns : (IF t \in Turns THEN spent[t] ELSE 0) = (IF t \in {} THEN spent[t] ELSE 0)
    BY <2>1
  <2>4. SumOver(spent, Turns) = SumOver(spent, {})
    BY <2>1, <2>2, <2>3, SumsAgree
  <2>5. SumOver(spent, Turns) = 0
    BY <2>1, <2>4, SumIs
  <2>6. Spenders \in SUBSET Turns
    BY DEF Spenders
  <2>7. Cardinality(Spenders) \in Nat
    BY <2>6, TurnsFinite
  <2> QED
    BY <1>1, <2>5, <2>7 DEF Bound, Overshoot
<1>4. \A t \in Turns : pc[t] # "streaming"
  BY DEF Init
<1> QED
  BY <1>2, <1>3, <1>4 DEF PaceInv

\* The steps of the commands and of the stream that spend nothing.
LEMMA PaceQuiet ==
  ASSUME Inv, PaceInv, NEW t \in Turns,
         \/ Insert(t) \/ Dispatch(t) \/ StreamResult(t) \/ StreamErrors(t) \/ Timeout(t)
         \/ Stage(t) \/ CommitStaged(t) \/ ReadHead(t) \/ Preserve(t) \/ NumberCapture(t)
  PROVE  PaceInv'
<1> USE DEF Goto, Commit, Asleep
<1>1. Types /\ TurnInv(t) /\ Billing
  BY DEF Inv, PaceInv
<1>2. CASE Insert(t)
  <2>1. /\ pc[t] = "insert" /\ lane[t] # "terminal" /\ pc' = [pc EXCEPT ![t] = "created"]
        /\ status' = [status EXCEPT ![t] = "running"]
        /\ UNCHANGED <<lane, seq, cost, budget, spent, alone>>
    BY <1>2 DEF Insert, history
  <2>2. lane[t] = "agent"
    BY <1>1, <2>1 DEF Billing
  <2> QED
    BY <2>1, <2>2, PaceGoesOn DEF TurnPcs
<1>3. CASE Dispatch(t)
  <2>1. /\ pc[t] = "created" /\ pc' = [pc EXCEPT ![t] = "prelude"]
        /\ UNCHANGED <<status, lane, seq, cost, budget, spent, alone>>
    BY <1>3 DEF Dispatch, row, history
  <2>2. lane[t] = "agent"
    BY <1>1, <2>1 DEF Billing
  <2> QED
    BY <2>1, <2>2, PaceGoesOn DEF TurnPcs, LivePcs
<1>4. CASE StreamResult(t) \/ StreamErrors(t) \/ Timeout(t)
  <2>1. /\ pc[t] = "streaming"
        /\ \E next \in {"stage", "write"} : pc' = [pc EXCEPT ![t] = next]
        /\ UNCHANGED <<status, lane, seq, cost, budget, spent, alone>>
    BY <1>4 DEF StreamResult, StreamErrors, Timeout, Clocked, row, history
  <2> QED
    BY <2>1, PaceGoesOn DEF TurnPcs, LivePcs, GitPcs
<1>5. CASE Stage(t) \/ CommitStaged(t)
  <2>1. /\ pc[t] \in {"stage", "commit"}
        /\ \E next \in {"diff", "head"} : pc' = [pc EXCEPT ![t] = next]
        /\ UNCHANGED <<status, lane, seq, cost, budget, spent, alone>>
    BY <1>5 DEF Stage, CommitStaged, row, history
  <2> QED
    BY <2>1, PaceGoesOn DEF TurnPcs, LivePcs, GitPcs
<1>6. CASE ReadHead(t)
  <2>1. /\ pc[t] = "head" /\ pc' = [pc EXCEPT ![t] = AfterGit(t)]
        /\ UNCHANGED <<status, lane, seq, cost, budget, spent, alone>>
    BY <1>6 DEF ReadHead, row, history
  <2>2. AfterGit(t) \in {"write", "preserve"} \/ (AfterGit(t) = "number" /\ lane[t] = "terminal")
    BY <1>1 DEF AfterGit, TurnInv
  <2>3. AfterGit(t) \in TurnPcs
    BY <2>2 DEF TurnPcs, LivePcs
  <2> QED
    BY <2>1, <2>2, <2>3, PaceGoesOn
<1>7. CASE Preserve(t)
  <2>1. /\ pc[t] = "preserve" /\ pc' = [pc EXCEPT ![t] = "write"]
        /\ UNCHANGED <<status, lane, seq, cost, budget, spent, alone>>
    BY <1>7 DEF Preserve, history
  <2> QED
    BY <2>1, PaceGoesOn DEF TurnPcs, LivePcs
<1>8. CASE NumberCapture(t)
  <2>1. /\ pc[t] = "number" /\ pc' = [pc EXCEPT ![t] = "insert"]
        /\ seq' = [seq EXCEPT ![t] = NextSeq]
        /\ UNCHANGED <<status, lane, cost, budget, spent, alone>>
    BY <1>8 DEF NumberCapture, history
  <2>2. lane[t] = "terminal"
    BY <1>1, <2>1 DEF TurnInv
  <2> QED
    BY <2>1, <2>2, PaceGoesOn DEF TurnPcs
<1> QED
  BY <1>2, <1>3, <1>4, <1>5, <1>6, <1>7, <1>8

\* The diff finds something, or ends a capture.
LEMMA PaceDiff ==
  ASSUME Inv, PaceInv, NEW t \in Turns, CheckStaged(t)
  PROVE  PaceInv'
<1> USE DEF Goto, Asleep
<1>1. TurnInv(t) /\ Settled = {"succeeded", "failed", "cancelled"}
  BY DEF Inv, Settled
<1>2. /\ pc[t] = "diff" /\ UNCHANGED <<status, lane, seq, cost, spent, alone>>
      /\ \/ End(t)
         \/ /\ pc' = [pc EXCEPT ![t] = IF index # {} THEN "commit" ELSE AfterGit(t)]
            /\ budget' = budget
  BY DEF CheckStaged, row, history
<1>3. CASE End(t)
  BY <1>1, <1>2, <1>3, PaceEnds
<1>4. CASE /\ pc' = [pc EXCEPT ![t] = IF index # {} THEN "commit" ELSE AfterGit(t)]
           /\ budget' = budget
  <2> DEFINE next == IF index # {} THEN "commit" ELSE AfterGit(t)
  <2>1. next \in {"commit", "write", "preserve"} \/ (next = "number" /\ lane[t] = "terminal")
    BY <1>1 DEF AfterGit, TurnInv
  <2>2. next \in TurnPcs
    BY <2>1 DEF TurnPcs, LivePcs, GitPcs
  <2>3. pc' = [pc EXCEPT ![t] = next]
    BY <1>4
  <2> HIDE DEF next
  <2> QED
    BY <1>2, <1>4, <2>1, <2>2, <2>3, PaceGoesOn
<1> QED
  BY <1>2, <1>3, <1>4

\* The ways out of a turn.
LEMMA PaceOut ==
  ASSUME Inv, PaceInv, NEW t \in Turns,
         ProviderGone(t) \/ WriteStatus(t) \/ InsertCapture(t) \/ Raises(t) \/ Cancel(t)
  PROVE  PaceInv'
<1> USE DEF Asleep
<1>1. /\ Types /\ TurnInv(t) /\ Billing /\ PaceTypes
      /\ Settled = {"succeeded", "failed", "cancelled"} /\ Verdict(t) \in Settled
  BY DEF Inv, PaceInv, Settled, Verdict
<1>2. CASE ProviderGone(t)
  <2>1. /\ pc[t] = "prelude" /\ End(t) /\ status' = [status EXCEPT ![t] = "failed"]
        /\ UNCHANGED <<lane, seq, cost, spent, alone>>
    BY <1>2 DEF ProviderGone, history
  <2>2. cost[t] = 0
    BY <1>1, <2>1 DEF Billing
  <2>3. cost' = [cost EXCEPT ![t] = 0]
    BY <1>1, <2>1, <2>2 DEF PaceTypes
  <2>4. cost' = [cost EXCEPT ![t] = IF "failed" = "succeeded" THEN spent[t] ELSE 0]
    BY <2>3
  <2> QED
    BY <1>1, <2>1, <2>4, PaceEnds
<1>3. CASE WriteStatus(t)
  <2>1. /\ pc[t] = "write" /\ End(t) /\ status' = [status EXCEPT ![t] = Verdict(t)]
        /\ cost' = [cost EXCEPT ![t] = IF why[t] = "result" THEN spent[t] ELSE @]
        /\ UNCHANGED <<lane, seq, spent, alone>>
    BY <1>3 DEF WriteStatus, history
  <2>2. cost[t] = 0
    BY <1>1, <2>1 DEF Billing
  <2>3. why[t] = "result" <=> Verdict(t) = "succeeded"
    BY DEF Verdict
  <2>4. cost' = [cost EXCEPT ![t] = IF Verdict(t) = "succeeded" THEN spent[t] ELSE 0]
    BY <2>1, <2>2, <2>3
  <2> QED
    BY <1>1, <2>1, <2>4, PaceEnds
<1>4. CASE InsertCapture(t)
  <2>1. /\ pc[t] = "insert" /\ lane[t] = "terminal" /\ End(t)
        /\ status' = [status EXCEPT ![t] = "succeeded"]
        /\ UNCHANGED <<lane, seq, cost, spent, alone>>
    BY <1>4 DEF InsertCapture, history
  <2>2. cost[t] = 0 /\ spent[t] = 0
    BY <1>1, <2>1 DEF Billing
  <2>3. cost' = [cost EXCEPT ![t] = 0]
    BY <1>1, <2>1, <2>2 DEF PaceTypes
  <2>4. cost' = [cost EXCEPT ![t] = IF "succeeded" = "succeeded" THEN spent[t] ELSE 0]
    BY <2>2, <2>3
  <2> QED
    BY <1>1, <2>1, <2>4, PaceEnds
<1>5. CASE Raises(t)
  <2>1. /\ pc[t] \in {"prelude", "preserve", "write"} /\ End(t)
        /\ UNCHANGED <<status, lane, seq, cost, spent, alone>>
    BY <1>5 DEF Raises, row
  <2> QED
    BY <1>1, <2>1, PaceEnds
<1>6. CASE Cancel(t)
  <2>1. /\ pc[t] \in LivePcs /\ UNCHANGED <<status, lane, seq, cost, spent, alone>>
        /\ \/ pc[t] = "streaming" /\ pc' = [pc EXCEPT ![t] = "stage"] /\ budget' = budget
           \/ End(t)
    BY <1>6 DEF Cancel, Interrupt, Commit, Goto, row
  <2>2. pc[t] \notin {"none", "over"}
    BY <2>1 DEF LivePcs, GitPcs
  <2>3. CASE pc[t] = "streaming" /\ pc' = [pc EXCEPT ![t] = "stage"] /\ budget' = budget
    BY <2>1, <2>2, <2>3, PaceGoesOn DEF TurnPcs, LivePcs, GitPcs
  <2>4. CASE End(t)
    BY <1>1, <2>1, <2>2, <2>4, PaceEnds
  <2> QED
    BY <2>1, <2>3, <2>4
<1> QED
  BY <1>2, <1>3, <1>4, <1>5, <1>6

LEMMA PaceNext == Inv /\ PaceInv /\ [Next]_vars => PaceInv'
<1> SUFFICES ASSUME Inv, PaceInv, [Next]_vars PROVE PaceInv'
  OBVIOUS
<1>1. ASSUME NEW t \in Turns, Goes(t) PROVE PaceInv'
  BY <1>1, PaceQuiet, PaceDiff, PaceOut, PacePrelude DEF Goes, GitStep
<1>2. ASSUME NEW t \in Turns, Create(t) \/ CaptureStarts(t) PROVE PaceInv'
  BY <1>2, PaceBegins
<1>3. ASSUME NEW t \in Turns, Round(t) \/ StreamResult(t) \/ StreamErrors(t) PROVE PaceInv'
  BY <1>3, PaceRound, PaceQuiet
<1>4. ASSUME NEW t \in Turns, Cancel(t) \/ Raises(t) PROVE PaceInv'
  BY <1>4, PaceOut
<1>5. CASE Restart
  BY <1>5, PaceRestart
<1>6. CASE UNCHANGED vars
  BY <1>6 DEF vars, row, coroutine, workspace, history, PaceInv, PaceTypes, Billing, Last,
              Paced, Streaming, Spenders, Bound
<1> QED
  BY <1>1, <1>2, <1>3, <1>4, <1>5, <1>6 DEF Next

\* Turns of a session that follow each other and succeed spend the session's budget and no
\* more than two rounds each, whatever the budget, however many they are and wherever
\* captures of the terminal come between them.
THEOREM SpendPaced == Spec => []SpendIsPaced
<1>1. PaceInv => SpendIsPaced
  <2>1. SpentByAll = SumOver(spent, Turns)
    BY DEF SpentByAll, SumOver
  <2> QED
    BY <2>1 DEF PaceInv, SpendIsPaced, Paced, Bound, Spenders
<1> QED
  BY <1>1, InvInit, InvNext, PaceInit, PaceNext, PTL DEF Spec
=============================================================================
