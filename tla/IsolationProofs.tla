--------------------------- MODULE IsolationProofs ---------------------------
(* The equation of Isolation has one solution, whatever the graph and the  *)
(* order of the list: so Isolated is defined by it.                         *)
EXTENDS Isolation, TLAPS, WellFoundedInduction

(* Course-of-values reasoning about places of the list.                     *)
LEMMA LeastElement ==
  ASSUME NEW T \in SUBSET Nat, T # {}
  PROVE  \E x \in T : \A y \in T : x <= y
<1> DEFINE R == {ss \in Nat \X Nat : ss[1] < ss[2]}
<1>1. IsWellFoundedOn(R, Nat)
  BY NatLessThanWellFounded DEF OpToRel
<1>2. PICK x \in T : \A y \in T : <<y, x>> \notin R
  <2> HIDE DEF R
  <2> QED BY <1>1, WFMin
<1>3. ASSUME NEW y \in T PROVE x <= y
  <2>1. <<y, x>> \notin R
    BY <1>2
  <2>2. ~(y < x)
    BY <2>1
  <2> QED BY <2>2
<1> QED BY <1>3

(* A list without repetitions, and what the equation says of a place of it. *)
Listing(order, S) ==
  /\ order \in Seq(S)
  /\ \A p, q \in DOMAIN order : order[p] = order[q] => p = q
Items(order) == {order[p] : p \in DOMAIN order}
Admits(order, E, http, found, t, R, p) ==
  /\ order[p] \in found \ {t}
  /\ \A c \in 1 .. p - 1 :
       <<order[p], order[c]>> \in E /\ order[c] \notin http => order[c] \notin R \ {t}

LEMMA EquationOfList ==
  ASSUME NEW order, NEW E, NEW http, NEW found, NEW t, NEW R
  PROVE  Isolates(order, E, http, found, t, R) <=>
           \A x : x \in R <=> x = t \/ \E p \in DOMAIN order :
                                x = order[p] /\ Admits(order, E, http, found, t, R, p)
<1> DEFINE F == {order[p] : p \in {q \in DOMAIN order :
         /\ order[q] \in found \ {t}
         /\ \A c \in 1 .. q - 1 :
              <<order[q], order[c]>> \in E /\ order[c] \notin http => order[c] \notin R \ {t}}}
<1>1. \A x : x \in F <=> \E p \in DOMAIN order :
                            x = order[p] /\ Admits(order, E, http, found, t, R, p)
  BY DEF Admits
<1>2. Isolates(order, E, http, found, t, R) <=> R = {t} \cup F
  BY DEF Isolates
<1> HIDE DEF F
<1> QED BY <1>1, <1>2

(* Two solutions could only differ at a first place, where the equation     *)
(* refers to the places before it.                                          *)
LEMMA SolutionUnique ==
  ASSUME NEW S, NEW order, Listing(order, S), NEW E, NEW http, NEW found, NEW t,
         NEW R1, Isolates(order, E, http, found, t, R1),
         NEW R2, Isolates(order, E, http, found, t, R2)
  PROVE  R1 = R2
<1> DEFINE D == {p \in DOMAIN order : ~(order[p] \in R1 <=> order[p] \in R2)}
<1>1. /\ \A x : x \in R1 <=> x = t \/ \E p \in DOMAIN order :
                              x = order[p] /\ Admits(order, E, http, found, t, R1, p)
      /\ \A x : x \in R2 <=> x = t \/ \E p \in DOMAIN order :
                              x = order[p] /\ Admits(order, E, http, found, t, R2, p)
  BY EquationOfList
<1>2. SUFFICES ASSUME D # {} PROVE FALSE
  BY <1>1
<1>3. DOMAIN order = 1 .. Len(order) /\ Len(order) \in Nat
  BY DEF Listing
<1>4. PICK p \in D : \A c \in D : p <= c
  <2>1. D \in SUBSET Nat
    BY <1>3
  <2> HIDE DEF D
  <2> QED BY <1>2, <2>1, LeastElement
<1>5. p \in DOMAIN order /\ p \in Nat
  BY <1>3
<1>6. \A c \in 1 .. p - 1 : order[c] \in R1 <=> order[c] \in R2
  <2> TAKE c \in 1 .. p - 1
  <2>1. c \in DOMAIN order /\ ~(p <= c)
    BY <1>3, <1>5
  <2> QED BY <2>1, <1>4
<1>7. Admits(order, E, http, found, t, R1, p) <=> Admits(order, E, http, found, t, R2, p)
  BY <1>6 DEF Admits
<1>8. \A q \in DOMAIN order : order[q] = order[p] => q = p
  BY <1>5 DEF Listing
<1>9. ~(order[p] \in R1 <=> order[p] \in R2)
  BY <1>4
<1> HIDE DEF D
<1> QED BY <1>1, <1>5, <1>7, <1>8, <1>9

(* A solution for the places up to one can be extended to the next.         *)
LEMMA SolutionExists ==
  ASSUME NEW S, NEW order, Listing(order, S), NEW E, NEW http, NEW found, NEW t
  PROVE  \E R \in SUBSET ({t} \cup {order[p] : p \in DOMAIN order}) :
           Isolates(order, E, http, found, t, R)
<1> DEFINE A(R, p) == Admits(order, E, http, found, t, R, p)
           UpTo(n) == \E R : \A x : x \in R <=> x = t \/ \E p \in 1 .. n : x = order[p] /\ A(R, p)
           T == {n \in 0 .. Len(order) : ~UpTo(n)}
<1>1. DOMAIN order = 1 .. Len(order) /\ Len(order) \in Nat
  BY DEF Listing
<1>2. T = {}
  <2>1. SUFFICES ASSUME T # {} PROVE FALSE
    OBVIOUS
  <2>2. PICK n \in T : \A m \in T : n <= m
    <3>1. T \in SUBSET Nat
      BY <1>1
    <3> HIDE DEF T
    <3> QED BY <2>1, <3>1, LeastElement
  <2>3. n \in 0 .. Len(order) /\ ~UpTo(n)
    BY <2>2
  <2>4. n # 0
    <3>1. \A x : x \in {t} <=> x = t \/ \E p \in 1 .. 0 : x = order[p] /\ A({t}, p)
      OBVIOUS
    <3>2. UpTo(0)
      BY <3>1
    <3> QED BY <3>2, <2>3
  <2>5. n - 1 \in 0 .. Len(order) /\ UpTo(n - 1)
    <3>1. n - 1 \in 0 .. Len(order) /\ ~(n <= n - 1)
      BY <1>1, <2>3, <2>4
    <3>2. n - 1 \notin T
      <4> HIDE DEF T
      <4> QED BY <3>1, <2>2
    <3> QED BY <3>1, <3>2
  <2>6. PICK R : \A x : x \in R <=> x = t \/ \E p \in 1 .. n - 1 : x = order[p] /\ A(R, p)
    BY <2>5
  <2> DEFINE X == R \cup {y \in {order[n]} : A(R, n)}
  <2>7. \A p \in 1 .. n : A(X, p) <=> A(R, p)
    <3> TAKE p \in 1 .. n
    <3>1. \A c \in 1 .. p - 1 : c \in DOMAIN order /\ n \in DOMAIN order /\ c # n
      BY <1>1, <2>3, <2>4
    <3>2. \A c \in 1 .. p - 1 : order[c] # order[n]
      BY <3>1 DEF Listing
    <3>3. \A c \in 1 .. p - 1 : order[c] \in X <=> order[c] \in R
      BY <3>2
    <3> HIDE DEF X
    <3> QED BY <3>3 DEF Admits
  <2>8. \A x : x \in X <=> x \in R \/ (x = order[n] /\ A(R, n))
    OBVIOUS
  <2>9. \A p : p \in 1 .. n <=> p \in 1 .. n - 1 \/ p = n
    BY <1>1, <2>3, <2>4
  <2> HIDE DEF X
  <2>10. \A x : x \in X <=> x = t \/ \E p \in 1 .. n : x = order[p] /\ A(X, p)
    <3> HIDE DEF A
    <3> QED BY <2>6, <2>7, <2>8, <2>9
  <2>11. UpTo(n)
    BY <2>10
  <2> QED BY <2>3, <2>11
<1>3. UpTo(Len(order))
  <2> HIDE DEF UpTo
  <2>1. Len(order) \in 0 .. Len(order) /\ Len(order) \notin T
    BY <1>1, <1>2
  <2> QED BY <2>1
<1>4. PICK R : \A x : x \in R <=> x = t \/ \E p \in 1 .. Len(order) : x = order[p] /\ A(R, p)
  BY <1>3
<1>5. Isolates(order, E, http, found, t, R)
  BY <1>1, <1>4, EquationOfList
<1>6. R \in SUBSET ({t} \cup {order[p] : p \in DOMAIN order})
  BY <1>1, <1>4
<1> QED BY <1>5, <1>6

(* So Isolated solves its equation: the target is isolated, and beyond it    *)
(* only services of the list that were found.                               *)
LEMMA IsolatedIsSolution ==
  ASSUME NEW S, NEW order, Listing(order, S), NEW E, NEW st, NEW http, NEW v,
         NEW t, t \in Items(order)
  PROVE  /\ Isolated(order, E, st, http, v, t) \subseteq Items(order)
         /\ Isolates(order, E, http, Found(Items(order), E, st, v, t), t,
                     Isolated(order, E, st, http, v, t))
         /\ t \in Isolated(order, E, st, http, v, t)
         /\ Isolated(order, E, st, http, v, t) \subseteq {t} \cup Found(Items(order), E, st, v, t)
<1> DEFINE listed == {order[p] : p \in DOMAIN order}
           found == Found(listed, E, st, v, t)
           I == CHOOSE R \in SUBSET listed : Isolates(order, E, http, found, t, R)
<1>0. listed = Items(order) /\ t \in listed
  BY DEF Items
<1>1. Isolated(order, E, st, http, v, t) = I
  BY DEF Isolated
<1>2. {t} \cup listed = listed
  BY <1>0
<1> HIDE DEF found
<1>3. \E R \in SUBSET listed : Isolates(order, E, http, found, t, R)
  BY <1>2, SolutionExists
<1> HIDE DEF listed
<1>4. I \in SUBSET listed /\ Isolates(order, E, http, found, t, I)
  BY <1>3
<1> HIDE DEF I
<1>5. t \in I /\ I \subseteq {t} \cup found
  BY <1>4, EquationOfList DEF Admits
<1> QED BY <1>0, <1>1, <1>4, <1>5 DEF found
=============================================================================
