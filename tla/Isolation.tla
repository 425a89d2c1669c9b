------------------------------ MODULE Isolation ------------------------------
(***************************************************************************)
(* Which services of the base topology a Flow gets a version of its own    *)
(* of.  Isolated is the outcome of ClusterTopology.UpdateWithFlow and of   *)
(* the loops that put the baseline back; FlowTopology models that code     *)
(* step by step and is checked against it.                                 *)
(***************************************************************************)
EXTENDS Naturals, Sequences

(* The services a path of dependencies E leads to from t, and t itself.    *)
Reach(E, t) ==
  LET ends   == {t} \cup {e[2] : e \in E}
      Closed == {C \in SUBSET ends : t \in C /\ \A e \in E : e[1] \in C => e[2] \in C}
  IN  {v \in ends : \A C \in Closed : v \in C}

(* Paths are searched in a graph of hashes, which leave the namespace out: *)
(* services equal in all else are one vertex, and vertex[s] is the one of  *)
(* them that was added first.  It is found whichever of them was meant.    *)
Found(S, E, stateful, vertex, t) ==
  LET reached == Reach({<<vertex[e[1]], vertex[e[2]]>> : e \in E}, vertex[t])
  IN  {vertex[s] : s \in {r \in S \cap stateful : vertex[r] \in reached}}

(* order: the services as the API server lists them.  Of those found all   *)
(* are isolated except the parents of an earlier one of the list that was  *)
(* isolated and is not HTTP: isolating that one replaced its parents       *)
(* before their turn came.                                                 *)
Isolates(order, E, http, found, t, R) ==
  R = {t} \cup
      {order[p] : p \in {q \in DOMAIN order :
         /\ order[q] \in found \ {t}
         /\ \A c \in 1 .. q - 1 :
              <<order[q], order[c]>> \in E /\ order[c] \notin http => order[c] \notin R \ {t}}}

Isolated(order, E, stateful, http, vertex, t) ==
  LET S     == {order[p] : p \in DOMAIN order}
      found == Found(S, E, stateful, vertex, t)
  IN  CHOOSE R \in SUBSET S : Isolates(order, E, http, found, t, R)
=============================================================================
