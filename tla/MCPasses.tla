------------------------------ MODULE MCPasses ------------------------------
(* A web front, a cart and a database behind it, and two flows on the web   *)
(* front, one of them with the name of the baseline and of the version of   *)
(* the web front.  Names run together: "cart" of "db-baseline", "cart-db"   *)
(* of "baseline", and a service users may add.  Another they may add has no *)
(* port; they may also remove the database, or the Deployment of the cart.  *)
EXTENDS Passes

MCServices == {"web", "cart", "cart-db", "cart-db-baseline", "log"}
MCEdges    == {<<"web", "cart">>, <<"cart", "cart-db">>, <<"web", "cart-db">>}
MCStateful == {"cart", "cart-db"}
MCHTTP     == {"web", "cart", "cart-db-baseline"}
MCPortless == {"log"}
MCLabel    == [i \in MCServices |-> IF i = "web" THEN "baseline" ELSE "v1"]
MCFlows    == {"baseline", "db-baseline"}
MCTarget   == [f \in MCFlows |-> "web"]
MCTargetTwo == [f \in MCFlows |-> IF f = "baseline" THEN "cart" ELSE "web"]
MCRoutes   == {"shop", "admin"}
MCHost     == [r \in MCRoutes |-> <<"www", r, "co", "uk">>]
MCBackends == [r \in MCRoutes |-> IF r = "shop" THEN <<"web", "cart", "web">>
                                               ELSE <<"cart-db", "cart-db-baseline">>]
MCPaths    == <<"web", "cart">>
MCJoined(i, v) == i \o "-" \o v
MCVolatile  == {"cart-db-baseline", "log", "cart-db"}
MCInstalled == {"web", "cart", "cart-db"}
MCWithdrawn == {"cart", "cart-db-baseline"}
=============================================================================
