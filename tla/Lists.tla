------------------------------- MODULE Lists -------------------------------
(* The comprehension over a list, as the router and the task's files use it. *)
EXTENDS SequencesExt

\* [x for x in seq if x in S]: the members of seq that are in S, in its order.
Only(seq, S) == FoldLeft(LAMBDA kept, x : IF x \in S THEN Append(kept, x) ELSE kept, <<>>, seq)
=============================================================================
