------------------------------ MODULE MCDeferral ------------------------------
(* Instances of Deferral for TLC.                                            *)
EXTENDS Deferral, TLC
=============================================================================
