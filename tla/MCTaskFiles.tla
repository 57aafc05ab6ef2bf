---------------------------- MODULE MCTaskFiles ----------------------------
(* Instances of TaskFiles for TLC.                                           *)
EXTENDS TaskFiles

\* The second file lies in assets/ and is twice as large as the first.
MCWeight == <<1, 2>>
MCCaps == {[count |-> 1, bytes |-> Unlimited], [count |-> 3, bytes |-> 3]}
=============================================================================
