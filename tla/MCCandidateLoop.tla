---------------------------- MODULE MCCandidateLoop ---------------------------
(* Instances of CandidateLoop for TLC: an API provider and a plan CLI.   *)
EXTENDS CandidateLoop, TLC

CONSTANTS p1, p2

ApiAndCli == p1 :> "openai_compat" @@ p2 :> "cli"
=============================================================================
