----------------------------- MODULE MCRouting -----------------------------
(* Instances of Routing for TLC: an API provider, a plan CLI, an own endpoint. *)
EXTENDS Routing
CONSTANTS api, cli, own
InOrder == <<api, cli, own>>
Prices == api :> 1 @@ cli :> 0 @@ own :> 0
Abilities == api :> {"code"} @@ cli :> {"code"} @@ own :> {}
Route(strategy, candidates, tags, overflow) ==
  [strategy |-> strategy, candidates |-> candidates, tags |-> tags, overflow |-> overflow,
   attempts |-> 2, failover |-> TRUE]
Policies ==
  "pick" :> Route("capability", <<cli, api>>, {"code"}, api) @@
  "spread" :> Route("round_robin", <<api, cli>>, {}, NoProvider) @@
  "cheap" :> Route("cost_optimized", <<api, own>>, {}, NoProvider) @@
  "first" :> [Route("fixed", <<cli, api>>, {}, NoProvider) EXCEPT !.failover = FALSE]
=============================================================================
