------------------------------- MODULE RunClaim -------------------------------
(***************************************************************************)
(* What the claim in app/orchestrator.py promises: a run is driven by at   *)
(* most one execute_run coroutine, a driver takes it only when nobody has  *)
(* it, and a crash takes it from everybody.                                *)
(***************************************************************************)
CONSTANTS Runs, Drivers

VARIABLE driving   \* the coroutines that are driving each run

Init == driving = [r \in Runs |-> {}]

Take(r, d) ==
  /\ driving[r] = {}
  /\ driving' = [driving EXCEPT ![r] = {d}]

Leave(r) ==
  /\ driving[r] # {}
  /\ driving' = [driving EXCEPT ![r] = {}]

LoseAll == driving' = [r \in Runs |-> {}]

Next ==
  \/ \E r \in Runs : Leave(r) \/ \E d \in Drivers : Take(r, d)
  \/ LoseAll

Spec == Init /\ [][Next]_driving
=============================================================================
