----------------------------- MODULE Recursion -----------------------------
(***************************************************************************)
(* Tables filled in the order of their positions: what a recursive         *)
(* function over the nodes of a tree computes.  An entry is made from the  *)
(* entries before it.  A module states of its own step operator that it is *)
(* local and takes from here that the table exists, satisfies its          *)
(* equation and has the type of its entries.                               *)
(***************************************************************************)
EXTENDS Naturals, WellFoundedInduction, TLAPS

CONSTANT Step(_, _, _)     \* environment, table, position

Below(u, v, n) == \A m \in Nat : 1 <= m /\ m < n => u[m] = v[m]

Local(env, N) ==
  \A n \in 1 .. N : \A u, v : Below(u, v, n) => Step(env, u, n) = Step(env, v, n)

Table(env, N) == CHOOSE v : v = [n \in 1 .. N |-> Step(env, v, n)]

\* A set of natural numbers has a least element.
LEMMA Least ==
  ASSUME NEW T, T \subseteq Nat, T # {}
  PROVE  \E n \in T : \A m \in T : n <= m
  <1> DEFINE R == OpToRel(<, Nat)
  <1>1. R = {ss \in Nat \X Nat : ss[1] < ss[2]} BY DEF OpToRel
  <1>2. IsWellFoundedOn(R, Nat) BY NatLessThanWellFounded
  <1> HIDE DEF R
  <1>3. PICK n \in T : \A m \in T : ~(<<m, n>> \in R)
    BY <1>2, WFMin, Zenon
  <1>4. ASSUME NEW m \in T PROVE n <= m
    <2>1. m \in Nat /\ n \in Nat BY <1>3
    <2>2. <<m, n>> \notin R BY <1>3
    <2>3. ~(m < n) BY <1>1, <2>1, <2>2
    <2> QED BY <2>1, <2>3
  <1> QED BY <1>3, <1>4

\* Strong induction over positions, with the property as a set.
LEMMA Positions ==
  ASSUME NEW N \in Nat, NEW T,
         \A n \in 1 .. N : (\A m \in Nat : 1 <= m /\ m < n => m \in T) => n \in T
  PROVE  1 .. N \subseteq T
  <1> SUFFICES ASSUME (1 .. N) \ T # {} PROVE FALSE OBVIOUS
  <1> DEFINE X == (1 .. N) \ T
  <1>1. X \subseteq Nat /\ X # {} OBVIOUS
  <1> HIDE DEF X
  <1>2. PICK n \in X : \A m \in X : n <= m BY <1>1, Least
  <1>3. n \in 1 .. N /\ n \notin T BY <1>2 DEF X
  <1>4. ASSUME NEW m \in Nat, 1 <= m, m < n PROVE m \in T
    BY <1>2, <1>3, <1>4 DEF X
  <1> QED BY <1>3, <1>4

\* One more entry: a table for l positions gives one for l + 1.
LEMMA OneMore ==
  ASSUME NEW env, NEW N \in Nat, Local(env, N), NEW l \in Nat, NEW k, k = l + 1, k <= N,
         \E v : v = [n \in 1 .. l |-> Step(env, v, n)]
  PROVE  \E v : v = [n \in 1 .. k |-> Step(env, v, n)]
  <1>1. PICK v : v = [n \in 1 .. l |-> Step(env, v, n)] OBVIOUS
  <1> DEFINE w == [n \in 1 .. k |-> IF n = k THEN Step(env, v, k) ELSE v[n]]
  <1>2. ASSUME NEW n \in 1 .. k PROVE w[n] = Step(env, w, n)
    <2>1. n \in 1 .. N OBVIOUS
    <2>2. Below(w, v, n) BY DEF Below
    <2>3. Step(env, w, n) = Step(env, v, n)
      <3> HIDE DEF w
      <3> QED BY <2>1, <2>2 DEF Local
    <2>4. CASE n = k BY <2>3, <2>4
    <2>5. CASE n # k
      <3>1. n \in 1 .. l BY <2>5
      <3>2. v[n] = Step(env, v, n) BY <1>1, <3>1
      <3> QED BY <2>3, <2>5, <3>2
    <2> QED BY <2>4, <2>5
  <1>3. w = [n \in 1 .. k |-> w[n]] OBVIOUS
  <1> HIDE DEF w
  <1>4. w = [n \in 1 .. k |-> Step(env, w, n)] BY <1>2, <1>3
  <1> QED BY <1>4

\* The table of a local step satisfies its defining equation.
THEOREM TableEquation ==
  ASSUME NEW env, NEW N \in Nat, Local(env, N)
  PROVE  Table(env, N) = [n \in 1 .. N |-> Step(env, Table(env, N), n)]
  <1> DEFINE Good(k) == \E v : v = [n \in 1 .. k |-> Step(env, v, n)]
  <1> DEFINE T == {k \in 0 .. N : ~Good(k)}
  <1>1. ASSUME T # {} PROVE FALSE
    <2>1. PICK k \in T : \A m \in T : k <= m
      <3>1. T \subseteq Nat OBVIOUS
      <3> HIDE DEF T
      <3> QED BY <1>1, <3>1, Least
    <2>2. CASE k = 0
      <3> DEFINE v == [n \in 1 .. 0 |-> 0]
      <3>1. v = [n \in 1 .. 0 |-> Step(env, v, n)] OBVIOUS
      <3> QED BY <2>1, <2>2, <3>1
    <2>3. CASE k # 0
      <3>1. PICK l \in 0 .. N : k = l + 1 BY <2>1, <2>3
      <3>2. Good(l) BY <2>1, <3>1
      <3>3. l \in Nat /\ k <= N BY <2>1, <3>1
      <3> QED BY <2>1, <3>1, <3>2, <3>3, OneMore
    <2> QED BY <2>2, <2>3
  <1>2. Good(N) BY <1>1
  <1> QED BY <1>2 DEF Table

\* If a step makes an entry of V from entries of V, the table is one of V.
THEOREM TableType ==
  ASSUME NEW env, NEW N \in Nat, Local(env, N), NEW V, V # {},
         \A n \in 1 .. N : \A u \in [1 .. N -> V] : Step(env, u, n) \in V
  PROVE  Table(env, N) \in [1 .. N -> V]
  <1> DEFINE t == Table(env, N)
  <1>1. t = [n \in 1 .. N |-> Step(env, t, n)] BY TableEquation
  <1> HIDE DEF t
  <1> DEFINE T == {n \in 1 .. N : t[n] \in V}
  <1>2. ASSUME NEW n \in 1 .. N, \A m \in Nat : 1 <= m /\ m < n => m \in T
        PROVE  n \in T
    <2>1. PICK x : x \in V OBVIOUS
    <2> DEFINE u == [m \in 1 .. N |-> IF m < n THEN t[m] ELSE x]
    <2>2. u \in [1 .. N -> V] BY <1>2, <2>1
    <2>3. Below(t, u, n) BY DEF Below
    <2> HIDE DEF u
    <2>4. Step(env, t, n) = Step(env, u, n) BY <2>3 DEF Local
    <2>5. t[n] = Step(env, t, n) BY <1>1
    <2> QED BY <2>2, <2>4, <2>5
  <1> HIDE DEF T
  <1>3. 1 .. N \subseteq T BY <1>2, Positions
  <1>4. \A n \in 1 .. N : t[n] \in V BY <1>3 DEF T
  <1> QED BY <1>1, <1>4 DEF t
=============================================================================
