----------------------------- MODULE MCOperator -----------------------------
(* A cluster with one service "a": its Service and Deployment belong to the *)
(* users, Flow f asks for a second version of it.  The pass wants the       *)
(* VirtualService "a" whenever the Service exists, and the Deployment "a-f" *)
(* as long as the Flow does.                                                *)
EXTENDS Operator

Key(kind, ns, name) == [kind |-> kind, ns |-> ns, name |-> name]

Svc   == Key("Service", "n", "a")
Dep   == Key("Deployment", "n", "a")
FDep  == Key("Deployment", "n", "a-f")
VS    == Key("VirtualService", "n", "a")
Flow  == Key("Flow", "n", "f")

MCNamespaces == {"n"}
MCSpecs      == {"one", "two"}
OneService   == {Svc, Dep, FDep, VS, Flow}
Installed    == [k \in Keys |-> IF k \in {Svc, Dep, Flow} THEN "one" ELSE NoSpec]

(* A flow's version of a service is rendered as a Service of the same name, *)
(* which the users' own Service shadows, and a Deployment with the flow's   *)
(* image; the route has a second destination while the flow exists.         *)
MCDesired(v) ==
  [k \in Keys |->
    CASE k = Svc /\ v[Svc] # Absent /\ v[Flow] # Absent -> v[Svc].spec
      [] k = FDep /\ v[Svc] # Absent /\ v[Flow] # Absent -> v[Flow].spec
      [] k = VS /\ v[Svc] # Absent -> IF v[Flow] = Absent THEN "one" ELSE "two"
      [] OTHER -> NoSpec]

MCRefers(k, s) == IF k = VS /\ s = "two" THEN {FDep} ELSE {}

(* A Flow that names a missing Service ends the pass; one whose Service has *)
(* no Deployment makes it panic; without any Service there is no topology.  *)
MCPlanResult(v) ==
  CASE v[Svc] = Absent -> "error"
    [] v[Flow] # Absent /\ v[Dep] = Absent -> "panic"
    [] OTHER -> "ok"

FlowUsers     == {Flow}
WorkloadUsers == {Dep, Flow}
RaceUsers     == {FDep, Flow}

(* Two namespaces with a service and a Flow each.                           *)
SvcM  == Key("Service", "m", "b")
FDepM == Key("Deployment", "m", "b-g")
FlowM == Key("Flow", "m", "g")

BothNamespaces == {"n", "m"}
TwoServices    == {Svc, FDep, VS, Flow, SvcM, FDepM, FlowM}
BothInstalled  == [k \in Keys |-> IF k \in {Svc, SvcM, Flow, FlowM} THEN "one" ELSE NoSpec]
BothFlows      == {Flow, FlowM}

BothDesired(v) ==
  [k \in Keys |->
    CASE k = Svc /\ v[Svc] # Absent /\ v[Flow] # Absent -> v[Svc].spec
      [] k = SvcM /\ v[SvcM] # Absent /\ v[FlowM] # Absent -> v[SvcM].spec
      [] k = FDep /\ v[Svc] # Absent /\ v[Flow] # Absent -> v[Flow].spec
      [] k = FDepM /\ v[SvcM] # Absent /\ v[FlowM] # Absent -> v[FlowM].spec
      [] k = VS /\ v[Svc] # Absent -> IF v[Flow] = Absent THEN "one" ELSE "two"
      [] OTHER -> NoSpec]

(* A Flow in one namespace that names a missing Service stops them both.    *)
BothPlanResult(v) ==
  IF \/ v[Flow] # Absent /\ v[Svc] = Absent
     \/ v[FlowM] # Absent /\ v[SvcM] = Absent
    THEN "error" ELSE "ok"
=============================================================================
