---------------------------- MODULE MCRunLifecycle ----------------------------
(* Instances of RunLifecycle for TLC.  Coroutines are interchangeable, and  *)
(* so are requests: sound, no definition tells one from another.           *)
EXTENDS RunLifecycle, TLC

WorkerSymmetry == Permutations(Drivers) \cup Permutations(Ops)
=============================================================================
