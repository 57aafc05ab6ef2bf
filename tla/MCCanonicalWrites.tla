-------------------------- MODULE MCCanonicalWrites --------------------------
(* Instances of CanonicalWrites for TLC.                                     *)
EXTENDS CanonicalWrites, TLC

\* The manifest reads b first.
ReadsB == <<"b">>
=============================================================================
