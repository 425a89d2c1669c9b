--------------------------- MODULE MCBaseTopology ---------------------------
(* Three namespaces, each one of a few kinds: empty, with services that     *)
(* depend on each other, on a port or a name that is missing, on an object  *)
(* of the operator, on a service of another kind of namespace; with and     *)
(* without ingresses and gateways annotated for Kardinal.                   *)
EXTENDS BaseTopology

MCNamespaces == {"k", "m", "n"}
MCNames      == {"api", "db", "db-f"}
MCPorts      == {"grpc", "tcp"}
MCEntries    == {"edge"}

Entry1(marked) == {[name |-> "edge", marked |-> marked]}
Svc(name, managed, ports, needs) ==
  [name |-> name, managed |-> managed, ports |-> ports, needs |-> needs]
On(name, port) == [name |-> name, port |-> port, whole |-> TRUE]
Bare(name)     == [name |-> name, port |-> "tcp", whole |-> FALSE]

Db    == Svc("db", FALSE, {"tcp"}, {})
Front == Svc("db-f", TRUE, {"tcp"}, {})
Stacks ==
  { {}, {Front}, {Db},
    {Db, Front, Svc("api", FALSE, {"grpc"}, {On("db", "tcp")})},
    {Db, Svc("api", FALSE, {"grpc"}, {On("db", "grpc"), On("db", "tcp")})},
    {Db, Front, Svc("api", FALSE, {"grpc"}, {On("db-f", "tcp")})},
    {Svc("api", FALSE, {"grpc"}, {On("db", "tcp"), Bare("db")})} }

Kinds ==
  {[services |-> s, ingresses |-> i, gateways |-> g, routes |-> {}] :
     s \in Stacks, i \in {{}, Entry1(FALSE), Entry1(TRUE)}, g \in {{}, Entry1(TRUE)}}
MCClusters == [MCNamespaces -> Kinds]
=============================================================================
