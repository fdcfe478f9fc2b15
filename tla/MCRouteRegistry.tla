--------------------------- MODULE MCRouteRegistry ---------------------------
(* A small instance of the route registry for TLC.                         *)
EXTENDS RouteRegistry, TLC

CONSTANTS c1, c2, c3, w1, w2

\* The third claim goes back to the first wallet.
WalletOf == c1 :> w1 @@ c2 :> w2 @@ c3 :> w1
TimeOf   == c1 :> 1 @@ c2 :> 2 @@ c3 :> 2

Replicas == Permutations(Handlers)
=============================================================================
