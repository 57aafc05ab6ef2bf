------------------------------ MODULE Checklist ------------------------------
(***************************************************************************)
(* The sub-task checklist of a work item (app/subtasks.py): a JSON column  *)
(* that is read, rebuilt and assigned as a whole.  A checklist is a        *)
(* function from the ids of its items; order, labels and stamps are left   *)
(* out.  A target is the artifact an item expects (NoTarget: an asserted   *)
(* item), and a tree is the set of targets that match a committed file.    *)
(***************************************************************************)
EXTENDS Integers, FiniteSets

CONSTANTS
  Ids,        \* ids of items, never reused
  Targets,    \* what a verifiable item expects
  NoTarget,   \* what an asserted item expects
  MaxItems    \* MAX_ITEMS

ASSUME ChecklistAssumption ==
  /\ MaxItems \in Nat
  /\ NoTarget \notin Targets
  /\ IsFiniteSet(Ids)

Statuses     == {"proposed", "confirmed", "dropped"}
Dispositions == {"accept", "discard", "reopen"}

Item == [target : Targets \cup {NoTarget}, status : Statuses,
         done : BOOLEAN, verified : BOOLEAN,
         marker : {"none", "pending", "accept", "reopen"}]

\* What an operator's list says of an item; only asserted items can be ticked off.
Wish == {w \in [target : Targets \cup {NoTarget}, status : Statuses, done : BOOLEAN] :
           w.done => w.target = NoTarget}

Lists(S)   == UNION {[I -> S] : I \in SUBSET Ids}
Checklists == Lists(Item)

MakeItem(target, status) ==
  [target |-> target, status |-> status, done |-> FALSE, verified |-> FALSE, marker |-> "none"]

Overflows(list) == Cardinality(DOMAIN list) >= MaxItems

\* Mutant: the list is replaced by what is proposed.
ReplacedByProposed(list, i, target) ==
  [j \in (DOMAIN list \cap {i}) \cup {i} |-> MakeItem(target, "proposed")]
AppendProposed(list, i, target) ==
  [j \in DOMAIN list \cup {i} |-> IF j = i THEN MakeItem(target, "proposed") ELSE list[j]]

\* What is known of an item is carried over if its target is unchanged.
\* Mutant: if there is an item of that id.
CarriedById(list, i, wish) ==
  IF i \in DOMAIN list THEN [list[i] EXCEPT !.target = wish.target]
                       ELSE MakeItem(wish.target, wish.status)
Carried(list, i, wish) ==
  IF i \in DOMAIN list /\ list[i].target = wish.target THEN list[i]
                                                       ELSE MakeItem(wish.target, wish.status)

\* set_items: the operator's list replaces the checklist.
SetItems(list, wishes) ==
  [i \in DOMAIN wishes |->
     [Carried(list, i, wishes[i]) EXCEPT
        !.status = wishes[i].status,
        !.done   = @ \/ (wishes[i].target = NoTarget /\ wishes[i].done)]]

Verifiable(item) == item.status = "confirmed" /\ item.target # NoTarget

\* A turn that succeeded, or a run, left this tree.
VerifyItem(item, tree) ==
  CASE Verifiable(item) /\ item.target \in tree /\ ~item.verified ->
         [item EXCEPT !.verified = TRUE, !.done = TRUE, !.marker = "none"]
    [] Verifiable(item) /\ item.target \notin tree /\ item.verified ->
         [item EXCEPT !.verified = FALSE, !.done = FALSE]
    [] OTHER -> item

Verify(list, tree) == [i \in DOMAIN list |-> VerifyItem(list[i], tree)]

\* A cancelled turn left this tree.
PreserveItem(item, tree) ==
  IF Verifiable(item) /\ ~item.verified /\ item.target \in tree
  THEN [item EXCEPT !.marker = "pending"] ELSE item

MarkPreserved(list, tree) == [i \in DOMAIN list |-> PreserveItem(list[i], tree)]

Dispose(list, i, disposition) ==
  [list EXCEPT ![i].done   = disposition = "accept",
               ![i].marker = IF disposition = "discard" THEN "none" ELSE disposition]

=============================================================================
