---------------------------- MODULE FlowIsolation ----------------------------
(***************************************************************************)
(* What deriving the topology of a Flow promises, without pointers, slices *)
(* or an order of visits: the target is isolated, then one by one services *)
(* that were found, each hiding its parents when it is not HTTP, until     *)
(* every service found is isolated or hidden.  FlowTopology implements it. *)
(***************************************************************************)
CONSTANTS
  Ids  \* the services

VARIABLES
  edges,    \* <<service, service it depends on>>
  tcp,      \* services that are not HTTP
  found,    \* stateful services a path leads to
  target,   \* the service the Flow names
  isolated, \* services of the flow's own
  hidden,   \* services that were replaced and are not the flow's own
  done

vars == <<edges, tcp, found, target, isolated, hidden, done>>

Init ==
  /\ edges \subseteq Ids \X Ids /\ tcp \subseteq Ids /\ found \subseteq Ids /\ target \in Ids
  /\ isolated = {} /\ hidden = {} /\ done = FALSE

Begin ==
  /\ isolated = {}
  /\ isolated' = {target}
  /\ UNCHANGED <<edges, tcp, found, target, hidden, done>>

Parents(i) == {p \in Ids : <<p, i>> \in edges}

Isolate ==
  /\ ~done /\ target \in isolated
  /\ \E i \in found \ (isolated \cup hidden) :
       /\ isolated' = isolated \cup {i}
       /\ hidden' = hidden \cup IF i \in tcp THEN Parents(i) \ isolated' ELSE {}
  /\ UNCHANGED <<edges, tcp, found, target, done>>

(* What is hidden is the baseline's again.                                 *)
End ==
  /\ ~done /\ done'
  /\ target \in isolated
  /\ found \subseteq isolated \cup hidden
  /\ hidden' = {}
  /\ UNCHANGED <<edges, tcp, found, target, isolated>>

Next == Begin \/ Isolate \/ End
Spec == Init /\ [][Next]_vars
=============================================================================
