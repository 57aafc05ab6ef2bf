----------------------------- MODULE MCDelivery -----------------------------
(* Instances of Delivery for TLC.  No definition tells one file from another. *)
EXTENDS Delivery
CONSTANTS f1, f2
FileSymmetry == Permutations(Files)
=============================================================================
