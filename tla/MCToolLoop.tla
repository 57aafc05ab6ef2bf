------------------------------ MODULE MCToolLoop ------------------------------
(* Instances of ToolLoop for TLC.                                            *)
EXTENDS ToolLoop, TLC
=============================================================================
