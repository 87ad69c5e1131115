---------------------------- MODULE PolicyProofs ----------------------------
(***************************************************************************)
(* Evaluation, partial evaluation and SQL lowering, for every lattice,     *)
(* policy, set of facts and row.                                           *)
(*                                                                         *)
(* What the code computes by recursion is a table over the nodes of a      *)
(* tree.  For each such table: one lemma unfolds a node by its kind        *)
(* (...Kinds), one says that a node's entry depends on the entries of its  *)
(* arms only (...Local), and one takes from Recursion that the table       *)
(* satisfies its equation (...Rec).  What relates two tables is then       *)
(* shown node by node, by induction over positions.                        *)
(***************************************************************************)
EXTENDS SqlLowering, TLAPS

-----------------------------------------------------------------------------
(***************************************************************************)
(* Tables over the nodes of a tree.  What a node's entry is made from are  *)
(* the entries of its arms, which come before it.                          *)
(***************************************************************************)
Same(u, v, n) == \A m : Before(m, n) => u[m] = v[m]

LEMMA SameArms ==
  ASSUME NEW u, NEW v, NEW n, Same(u, v, n), NEW arms, ArmsBefore(arms, n)
  PROVE  /\ At(u, arms) = At(v, arms)
         /\ \A i \in DOMAIN arms : u[arms[i]] = v[arms[i]]
  BY DEF Same, ArmsBefore, At

LEMMA AtType ==
  ASSUME NEW V, NEW N \in Nat, NEW u \in [1 .. N -> V], NEW n \in 1 .. N, NEW arms, ArmsBefore(arms, n)
  PROVE  /\ DOMAIN At(u, arms) = DOMAIN arms
         /\ \A i \in DOMAIN At(u, arms) : At(u, arms)[i] = u[arms[i]] /\ At(u, arms)[i] \in V
  BY DEF ArmsBefore, Before, At

\* No arms, no values.
LEMMA NoArms ==
  ASSUME NEW u, NEW n, NEW arms, ArmsBefore(arms, n)
  PROVE  /\ arms = <<>> <=> DOMAIN arms = {}
         /\ At(u, arms) = <<>> <=> DOMAIN arms = {}
  <1>1. arms \in Seq(Nat) BY DEF ArmsBefore
  <1>2. DOMAIN arms = 1 .. Len(arms) /\ Len(arms) \in Nat BY <1>1
  <1>3. arms = <<>> <=> DOMAIN arms = {} BY <1>1
  <1>4. DOMAIN At(u, arms) = DOMAIN arms BY DEF At
  <1>5. At(u, arms) \in Seq({u[arms[i]] : i \in DOMAIN arms})
    BY <1>2 DEF At
  <1>6. At(u, arms) = <<>> <=> DOMAIN At(u, arms) = {} BY <1>5
  <1> QED BY <1>3, <1>4, <1>6

LEMMA Trees ==
  ASSUME NEW c, IsCondition(c)
  PROVE  /\ Len(c) \in Nat /\ Len(c) \in 1 .. Len(c)
         /\ \A n \in 1 .. Len(c) : IsConditionNode(c[n], n)
         /\ \A n \in 1 .. Len(c) : \A m : Before(m, n) => m \in 1 .. Len(c)
  BY DEF IsCondition, Before

-----------------------------------------------------------------------------
(***************************************************************************)
(* eval_condition                                                          *)
(***************************************************************************)
ConditionEvals == [satisfied : BOOLEAN, decisive : SUBSET Facts, consulted : SUBSET Facts]

LEMMA EvalConditionKinds ==
  ASSUME NEW c, NEW at, NEW S
  PROVE  /\ c.kind = "always" => EvalConditionNode(c, at, S) = ConditionEval(TRUE, {}, {})
         /\ c.kind = "never" => EvalConditionNode(c, at, S) = ConditionEval(FALSE, {}, {})
         /\ c.kind = "has" =>
              EvalConditionNode(c, at, S) = ConditionEval(c.fact \in S, {c.fact}, {c.fact})
         /\ c.kind = "not" =>
              EvalConditionNode(c, at, S) =
                ConditionEval(~at[c.arm].satisfied, at[c.arm].decisive, at[c.arm].consulted)
         /\ c.kind = "all" => EvalConditionNode(c, at, S) = Visit(At(at, c.arms), FALSE)
         /\ c.kind = "any" => EvalConditionNode(c, at, S) = Visit(At(at, c.arms), TRUE)
  BY Zenon DEF EvalConditionNode

LEMMA ConditionKinds ==
  ASSUME NEW c, NEW n, IsConditionNode(c, n)
  PROVE  \/ c.kind = "always" \/ c.kind = "never"
         \/ c.kind = "has" /\ c.fact \in Facts
         \/ c.kind = "not" /\ Before(c.arm, n)
         \/ c.kind = "all" /\ ArmsBefore(c.arms, n)
         \/ c.kind = "any" /\ ArmsBefore(c.arms, n)
  BY DEF IsConditionNode

LEMMA EvalConditionLocal ==
  ASSUME NEW c, NEW n, IsConditionNode(c, n), NEW S, NEW u, NEW v, Same(u, v, n)
  PROVE  EvalConditionNode(c, u, S) = EvalConditionNode(c, v, S)
  <1>1. CASE c.kind \in {"always", "never", "has"}
    BY <1>1, EvalConditionKinds, Zenon
  <1>2. CASE c.kind = "not" /\ Before(c.arm, n)
    BY <1>2, EvalConditionKinds, Zenon DEF Same
  <1>3. CASE c.kind \in {"all", "any"} /\ ArmsBefore(c.arms, n)
    <2>1. At(u, c.arms) = At(v, c.arms) BY <1>3, SameArms
    <2> QED BY <1>3, <2>1, EvalConditionKinds, Zenon
  <1> QED BY <1>1, <1>2, <1>3, ConditionKinds

LEMMA VisitType ==
  ASSUME NEW arms, \A i \in DOMAIN arms : arms[i] \in ConditionEvals, NEW stop \in BOOLEAN
  PROVE  Visit(arms, stop) \in ConditionEvals
  <1> DEFINE hits == Hits(arms, stop)
             sat == arms # <<>> /\ (stop <=> hits # {})
             decisive == UNION {arms[i].decisive : i \in Deciding(arms, hits)}
             consulted == Consulted(arms, Visited(arms, hits))
  <1>1. sat \in BOOLEAN OBVIOUS
  <1>2. Deciding(arms, hits) \subseteq DOMAIN arms BY DEF Deciding, Visited
  <1>3. decisive \subseteq Facts BY <1>2 DEF ConditionEvals
  <1>4. consulted \subseteq Facts BY DEF Consulted, Visited, ConditionEvals
  <1>5. Visit(arms, stop) = ConditionEval(sat, decisive, consulted) BY Zenon DEF Visit
  <1> HIDE DEF sat, decisive, consulted
  <1> QED BY <1>1, <1>3, <1>4, <1>5 DEF ConditionEval, ConditionEvals

LEMMA EvalConditionNodeType ==
  ASSUME NEW c, NEW N \in Nat, NEW n \in 1 .. N, IsConditionNode(c, n), NEW S,
         NEW u \in [1 .. N -> ConditionEvals]
  PROVE  EvalConditionNode(c, u, S) \in ConditionEvals
  <1>1. CASE c.kind \in {"always", "never"}
    <2>1. \A b \in BOOLEAN : ConditionEval(b, {}, {}) \in ConditionEvals
      BY DEF ConditionEval, ConditionEvals
    <2> QED BY <1>1, <2>1, EvalConditionKinds, Zenon
  <1>2. CASE c.kind = "has" /\ c.fact \in Facts
    <2>1. ConditionEval(c.fact \in S, {c.fact}, {c.fact}) \in ConditionEvals
      BY <1>2 DEF ConditionEval, ConditionEvals
    <2> QED BY <1>2, <2>1, EvalConditionKinds, Zenon
  <1>3. CASE c.kind = "not" /\ Before(c.arm, n)
    <2>1. u[c.arm] \in ConditionEvals BY <1>3 DEF Before
    <2>2. ConditionEval(~u[c.arm].satisfied, u[c.arm].decisive, u[c.arm].consulted)
            \in ConditionEvals
      BY <2>1 DEF ConditionEval, ConditionEvals
    <2> QED BY <1>3, <2>2, EvalConditionKinds, Zenon
  <1>4. CASE c.kind \in {"all", "any"} /\ ArmsBefore(c.arms, n)
    <2>1. \A i \in DOMAIN At(u, c.arms) : At(u, c.arms)[i] \in ConditionEvals
      BY ONLY <1>4, AtType, N \in Nat, n \in 1 .. N, u \in [1 .. N -> ConditionEvals]
    <2>2. \A stop \in BOOLEAN : Visit(At(u, c.arms), stop) \in ConditionEvals
      BY <2>1, VisitType, Zenon
    <2> QED BY <1>4, <2>2, EvalConditionKinds, Zenon
  <1> QED BY <1>1, <1>2, <1>3, <1>4, ConditionKinds

EvalConditionStep(env, at, n) == EvalConditionNode(env[1][n], at, env[2])
EvalConditionRec == INSTANCE Recursion WITH Step <- EvalConditionStep

\* The equation and the type of eval_condition.
LEMMA ConditionTableRec ==
  ASSUME NEW c, IsCondition(c), NEW S
  PROVE  /\ ConditionTable(c, S) \in [1 .. Len(c) -> ConditionEvals]
         /\ \A n \in 1 .. Len(c) :
              ConditionTable(c, S)[n] = EvalConditionNode(c[n], ConditionTable(c, S), S)
  <1> DEFINE env == <<c, S>>
             N == Len(c)
             t == EvalConditionRec!Table(env, N)
  <1>1. ConditionTable(c, S) = t
    BY Zenon DEF ConditionTable, EvalConditionRec!Table, EvalConditionStep
  <1>2. \A n, u : EvalConditionStep(env, u, n) = EvalConditionNode(c[n], u, S)
    BY Zenon DEF EvalConditionStep
  <1> HIDE DEF env
  <1>3. EvalConditionRec!Local(env, N)
    BY <1>2, Trees, EvalConditionLocal DEF EvalConditionRec!Local, EvalConditionRec!Below, Same, Before
  <1>4. \A n \in 1 .. N : \A u \in [1 .. N -> ConditionEvals] : EvalConditionStep(env, u, n) \in ConditionEvals
    BY <1>2, Trees, EvalConditionNodeType
  <1>5. ConditionEvals # {}
    <2>1. ConditionEval(TRUE, {}, {}) \in ConditionEvals BY DEF ConditionEval, ConditionEvals
    <2> QED BY <2>1
  <1>6. N \in Nat BY Trees
  <1>7. t \in [1 .. N -> ConditionEvals]
    BY <1>3, <1>4, <1>5, <1>6, EvalConditionRec!TableType
  <1>8. t = [n \in 1 .. N |-> EvalConditionStep(env, t, n)]
    BY <1>3, <1>6, EvalConditionRec!TableEquation
  <1> HIDE DEF N, t
  <1>9. \A n \in 1 .. N : t[n] = EvalConditionNode(c[n], t, S)
    BY <1>2, <1>8
  <1> QED BY <1>1, <1>7, <1>9 DEF N

-----------------------------------------------------------------------------
(***************************************************************************)
(* collect_condition_facts and the meaning of a condition                  *)
(***************************************************************************)
LEMMA ConditionFactsKinds ==
  ASSUME NEW c, NEW at
  PROVE  /\ c.kind \in {"always", "never"} => ConditionFactsNode(c, at) = {}
         /\ c.kind = "has" => ConditionFactsNode(c, at) = {c.fact}
         /\ c.kind = "not" => ConditionFactsNode(c, at) = at[c.arm]
         /\ c.kind \in {"all", "any"} =>
              ConditionFactsNode(c, at) = UNION {at[c.arms[i]] : i \in DOMAIN c.arms}
  BY Zenon DEF ConditionFactsNode

LEMMA ConditionFactsLocal ==
  ASSUME NEW c, NEW n, IsConditionNode(c, n), NEW u, NEW v, Same(u, v, n)
  PROVE  ConditionFactsNode(c, u) = ConditionFactsNode(c, v)
  <1>1. CASE c.kind \in {"always", "never", "has"}
    BY <1>1, ConditionFactsKinds, Zenon
  <1>2. CASE c.kind = "not" /\ Before(c.arm, n)
    BY <1>2, ConditionFactsKinds, Zenon DEF Same
  <1>3. CASE c.kind \in {"all", "any"} /\ ArmsBefore(c.arms, n)
    <2>1. \A i \in DOMAIN c.arms : u[c.arms[i]] = v[c.arms[i]] BY <1>3, SameArms
    <2>2. UNION {u[c.arms[i]] : i \in DOMAIN c.arms} = UNION {v[c.arms[i]] : i \in DOMAIN c.arms}
      BY <2>1
    <2> QED BY <1>3, <2>2, ConditionFactsKinds, Zenon
  <1> QED BY <1>1, <1>2, <1>3, ConditionKinds

ConditionFactsStep(env, at, n) == ConditionFactsNode(env[n], at)
ConditionFactsRec == INSTANCE Recursion WITH Step <- ConditionFactsStep

LEMMA ConditionFactsTableRec ==
  ASSUME NEW c, IsCondition(c)
  PROVE  \A n \in 1 .. Len(c) :
           ConditionFactsTable(c)[n] = ConditionFactsNode(c[n], ConditionFactsTable(c))
  <1> DEFINE t == ConditionFactsRec!Table(c, Len(c))
  <1>1. ConditionFactsTable(c) = t
    BY Zenon DEF ConditionFactsTable, ConditionFactsRec!Table, ConditionFactsStep
  <1>2. ConditionFactsRec!Local(c, Len(c))
    BY Trees, ConditionFactsLocal
    DEF ConditionFactsStep, ConditionFactsRec!Local, ConditionFactsRec!Below, Same, Before
  <1>3. t = [n \in 1 .. Len(c) |-> ConditionFactsStep(c, t, n)]
    BY <1>2, Trees, ConditionFactsRec!TableEquation
  <1> HIDE DEF t
  <1> QED BY <1>1, <1>3 DEF ConditionFactsStep

LEMMA HoldsKinds ==
  ASSUME NEW c, NEW at, NEW S
  PROVE  /\ c.kind = "always" => HoldsNode(c, at, S) = TRUE
         /\ c.kind = "never" => HoldsNode(c, at, S) = FALSE
         /\ c.kind = "has" => HoldsNode(c, at, S) = (c.fact \in S)
         /\ c.kind = "not" => HoldsNode(c, at, S) = ~at[c.arm]
         /\ c.kind = "all" =>
              HoldsNode(c, at, S) = (c.arms # <<>> /\ \A i \in DOMAIN c.arms : at[c.arms[i]])
         /\ c.kind = "any" => HoldsNode(c, at, S) = (\E i \in DOMAIN c.arms : at[c.arms[i]])
  BY Zenon DEF HoldsNode

LEMMA HoldsLocal ==
  ASSUME NEW c, NEW n, IsConditionNode(c, n), NEW S, NEW u, NEW v, Same(u, v, n)
  PROVE  HoldsNode(c, u, S) = HoldsNode(c, v, S)
  <1>1. CASE c.kind = "always"
    <2>1. \A w : HoldsNode(c, w, S) = TRUE BY <1>1, HoldsKinds, Zenon
    <2> QED BY <2>1, Zenon
  <1>2. CASE c.kind = "never"
    <2>1. \A w : HoldsNode(c, w, S) = FALSE BY <1>2, HoldsKinds, Zenon
    <2> QED BY <2>1, Zenon
  <1>3. CASE c.kind = "has"
    <2>1. \A w : HoldsNode(c, w, S) = (c.fact \in S) BY <1>3, HoldsKinds, ZenonT(60)
    <2> QED BY <2>1, Zenon
  <1>4. CASE c.kind = "not" /\ Before(c.arm, n)
    <2>1. u[c.arm] = v[c.arm] BY <1>4 DEF Same
    <2>2. \A w : HoldsNode(c, w, S) = ~w[c.arm] BY <1>4, HoldsKinds, Zenon
    <2> QED BY <2>1, <2>2, Zenon
  <1>5. CASE c.kind \in {"all", "any"} /\ ArmsBefore(c.arms, n)
    <2>1. \A i \in DOMAIN c.arms : u[c.arms[i]] = v[c.arms[i]] BY <1>5, SameArms
    <2>2. CASE c.kind = "all"
      <3>1. \A w : HoldsNode(c, w, S) = (c.arms # <<>> /\ \A i \in DOMAIN c.arms : w[c.arms[i]])
        BY <2>2, HoldsKinds, Zenon
      <3> QED BY <2>1, <3>1, Zenon
    <2>3. CASE c.kind = "any"
      <3>1. \A w : HoldsNode(c, w, S) = (\E i \in DOMAIN c.arms : w[c.arms[i]])
        BY <2>3, HoldsKinds, Zenon
      <3> QED BY <2>1, <3>1, Zenon
    <2> QED BY <1>5, <2>2, <2>3
  <1> QED BY <1>1, <1>2, <1>3, <1>4, <1>5, ConditionKinds

HoldsStep(env, at, n) == HoldsNode(env[1][n], at, env[2])
HoldsRec == INSTANCE Recursion WITH Step <- HoldsStep

LEMMA HoldsTableRec ==
  ASSUME NEW c, IsCondition(c), NEW S
  PROVE  \A n \in 1 .. Len(c) : HoldsTable(c, S)[n] = HoldsNode(c[n], HoldsTable(c, S), S)
  <1> DEFINE env == <<c, S>>
             t == HoldsRec!Table(env, Len(c))
  <1>1. HoldsTable(c, S) = t
    BY Zenon DEF HoldsTable, HoldsRec!Table, HoldsStep
  <1>2. \A n, u : HoldsStep(env, u, n) = HoldsNode(c[n], u, S) BY Zenon DEF HoldsStep
  <1> HIDE DEF env
  <1>3. HoldsRec!Local(env, Len(c))
    BY <1>2, Trees, HoldsLocal DEF HoldsRec!Local, HoldsRec!Below, Same, Before
  <1>4. t = [n \in 1 .. Len(c) |-> HoldsStep(env, t, n)]
    BY <1>3, Trees, HoldsRec!TableEquation
  <1> HIDE DEF t
  <1> QED BY <1>1, <1>2, <1>4

\* An All is satisfied when it has arms and each of them is; an Any when one is.
LEMMA VisitSatisfied ==
  ASSUME NEW arms, arms = <<>> <=> DOMAIN arms = {}, \A i \in DOMAIN arms : arms[i] \in ConditionEvals
  PROVE  /\ Visit(arms, FALSE).satisfied <=> arms # <<>> /\ \A i \in DOMAIN arms : arms[i].satisfied
         /\ Visit(arms, TRUE).satisfied <=> \E i \in DOMAIN arms : arms[i].satisfied
  <1>1. \A stop \in BOOLEAN :
          Visit(arms, stop).satisfied = (arms # <<>> /\ (stop <=> Hits(arms, stop) # {}))
    BY DEF Visit, ConditionEval
  <1>2. \A i \in DOMAIN arms : arms[i].satisfied \in BOOLEAN BY DEF ConditionEvals
  <1>3. Hits(arms, FALSE) # {} <=> \E i \in DOMAIN arms : ~arms[i].satisfied
    BY <1>2 DEF Hits
  <1>4. Hits(arms, TRUE) # {} <=> \E i \in DOMAIN arms : arms[i].satisfied
    BY <1>2 DEF Hits
  <1>5. arms # <<>> <=> \E i \in DOMAIN arms : TRUE OBVIOUS
  <1>6. Visit(arms, FALSE).satisfied = (arms # <<>> /\ (FALSE <=> Hits(arms, FALSE) # {})) BY <1>1
  <1>7. Visit(arms, TRUE).satisfied = (arms # <<>> /\ (TRUE <=> Hits(arms, TRUE) # {})) BY <1>1
  <1>8. Visit(arms, FALSE).satisfied <=> arms # <<>> /\ \A i \in DOMAIN arms : arms[i].satisfied
    BY <1>3, <1>6
  <1>9. Visit(arms, TRUE).satisfied <=> \E i \in DOMAIN arms : arms[i].satisfied
    BY <1>4, <1>5, <1>7
  <1> QED BY <1>8, <1>9

\* eval_condition computes what the condition means.
LEMMA ConditionDenotes ==
  ASSUME NEW c, IsCondition(c), NEW S
  PROVE  \A n \in 1 .. Len(c) : ConditionTable(c, S)[n].satisfied = HoldsTable(c, S)[n]
  <1> DEFINE N == Len(c)
             t == ConditionTable(c, S)
             h == HoldsTable(c, S)
             T == {n \in 1 .. N : t[n].satisfied = h[n]}
  <1>1. t \in [1 .. N -> ConditionEvals] /\ \A n \in 1 .. N : t[n] = EvalConditionNode(c[n], t, S)
    BY ConditionTableRec
  <1>2. \A n \in 1 .. N : h[n] = HoldsNode(c[n], h, S) BY HoldsTableRec
  <1>3. N \in Nat BY Trees
  <1> HIDE DEF N, t, h
  <1>4. ASSUME NEW n \in 1 .. N, \A m \in Nat : 1 <= m /\ m < n => m \in T
        PROVE  n \in T
    <2>1. \A m : Before(m, n) => t[m].satisfied = h[m] BY <1>4 DEF Before
    <2>2. IsConditionNode(c[n], n) BY Trees DEF N
    <2>3. t[n].satisfied \in BOOLEAN BY <1>1 DEF ConditionEvals
    <2> DEFINE x == c[n]
               sat == t[n].satisfied
    <2>4. sat = EvalConditionNode(x, t, S).satisfied BY <1>1
    <2>5. h[n] = HoldsNode(x, h, S) BY <1>2
    <2> HIDE DEF x, sat
    <2>6. CASE x.kind \in {"always", "never"}
      <3>1. ConditionEval(TRUE, {}, {}).satisfied = TRUE /\ ConditionEval(FALSE, {}, {}).satisfied = FALSE
        BY DEF ConditionEval
      <3>2. CASE x.kind = "always"
        <4>1. sat = TRUE BY <2>4, <3>1, <3>2, EvalConditionKinds, Zenon
        <4> QED BY <2>5, <3>2, <4>1, HoldsKinds DEF sat
      <3>3. CASE x.kind = "never"
        <4>1. sat = FALSE BY <2>4, <3>1, <3>3, EvalConditionKinds, Zenon
        <4> QED BY <2>5, <3>3, <4>1, HoldsKinds DEF sat
      <3> QED BY <2>6, <3>2, <3>3
    <2>7. CASE x.kind = "has"
      <3>1. ConditionEval(x.fact \in S, {x.fact}, {x.fact}).satisfied = (x.fact \in S)
        BY DEF ConditionEval
      <3>2. sat = (x.fact \in S) BY <2>4, <2>7, <3>1, EvalConditionKinds, Zenon
      <3>3. HoldsNode(x, h, S) = (x.fact \in S) BY <2>7, HoldsKinds, ZenonT(60)
      <3>4. sat = h[n] BY <2>5, <3>2, <3>3, Zenon
      <3> QED BY <3>4 DEF sat
    <2>8. CASE x.kind = "not" /\ Before(x.arm, n)
      <3>1. sat = ~t[x.arm].satisfied
        <4>1. sat = ConditionEval(~t[x.arm].satisfied, t[x.arm].decisive, t[x.arm].consulted).satisfied
          BY <2>4, <2>8, EvalConditionKinds, Zenon
        <4> QED BY <4>1 DEF ConditionEval
      <3>2. h[n] = ~h[x.arm] BY <2>5, <2>8, HoldsKinds, Zenon
      <3>3. t[x.arm].satisfied = h[x.arm] BY <2>1, <2>8
      <3>4. sat = h[n] BY <3>1, <3>2, <3>3, Zenon
      <3> QED BY <3>4 DEF sat
    <2>9. CASE x.kind \in {"all", "any"} /\ ArmsBefore(x.arms, n)
      <3> DEFINE arms == At(t, x.arms)
      <3>1. DOMAIN arms = DOMAIN x.arms /\ \A i \in DOMAIN arms : arms[i] = t[x.arms[i]] /\ arms[i] \in ConditionEvals
        BY <1>1, <1>3, <2>9, AtType
      <3>2. (arms = <<>> <=> DOMAIN arms = {}) /\ (x.arms = <<>> <=> arms = <<>>)
        BY <2>9, <3>1, NoArms
      <3>3. \A i \in DOMAIN x.arms : arms[i].satisfied = h[x.arms[i]]
        BY <2>1, <2>9, <3>1 DEF ArmsBefore
      <3>4. x.kind = "all" => sat = Visit(arms, FALSE).satisfied BY <2>4, EvalConditionKinds, Zenon
      <3>5. x.kind = "any" => sat = Visit(arms, TRUE).satisfied BY <2>4, EvalConditionKinds, Zenon
      <3>6. x.kind = "all" => h[n] = (x.arms # <<>> /\ \A i \in DOMAIN x.arms : h[x.arms[i]])
        BY <2>5, HoldsKinds, Zenon
      <3>7. x.kind = "any" => h[n] = (\E i \in DOMAIN x.arms : h[x.arms[i]])
        BY <2>5, HoldsKinds, Zenon
      <3> HIDE DEF arms
      <3>8. /\ Visit(arms, FALSE).satisfied <=> arms # <<>> /\ \A i \in DOMAIN arms : arms[i].satisfied
            /\ Visit(arms, TRUE).satisfied <=> \E i \in DOMAIN arms : arms[i].satisfied
        BY <3>1, <3>2, VisitSatisfied
      <3>9. sat \in BOOLEAN BY <2>3 DEF sat
      <3>10. CASE x.kind = "all"
        <4>1. sat <=> arms # <<>> /\ \A i \in DOMAIN arms : arms[i].satisfied
          BY <3>4, <3>8, <3>10
        <4>2. sat <=> x.arms # <<>> /\ \A i \in DOMAIN x.arms : h[x.arms[i]]
          BY <3>1, <3>2, <3>3, <4>1, Zenon
        <4>3. sat = h[n] BY <3>6, <3>9, <3>10, <4>2, Zenon
        <4> QED BY <4>3 DEF sat
      <3>11. CASE x.kind = "any"
        <4>1. sat <=> \E i \in DOMAIN arms : arms[i].satisfied
          BY <3>5, <3>8, <3>11
        <4>2. sat <=> \E i \in DOMAIN x.arms : h[x.arms[i]]
          BY <3>1, <3>3, <4>1, Zenon
        <4>3. sat = h[n] BY <3>7, <3>9, <3>11, <4>2, Zenon
        <4> QED BY <4>3 DEF sat
      <3> QED BY <2>9, <3>10, <3>11
    <2> QED BY <2>2, <2>6, <2>7, <2>8, <2>9, ConditionKinds DEF x
  <1> HIDE DEF T
  <1>5. 1 .. N \subseteq T BY <1>3, <1>4, HoldsRec!Positions
  <1> QED BY <1>5 DEF T, N, t, h

-----------------------------------------------------------------------------
(***************************************************************************)
(* The facts an evaluation consulted determine it.                         *)
(***************************************************************************)
Agree(S, T, X) == S \intersect X = T \intersect X

LEMMA AgreeOnPart ==
  ASSUME NEW S, NEW T, NEW X, Agree(S, T, X), NEW Y, Y \subseteq X
  PROVE  Agree(S, T, Y) /\ Agree(T, S, Y)
  BY DEF Agree

\* What a loop visits that stops at position k.
LEMMA FirstHit ==
  ASSUME NEW arms, DOMAIN arms \subseteq Nat, NEW hits, hits \subseteq DOMAIN arms,
         NEW k \in hits, \A j \in hits : k <= j
  PROVE  /\ Visited(arms, hits) = {i \in DOMAIN arms : i <= k}
         /\ Deciding(arms, hits) = {k}
  <1>1. ASSUME NEW i \in DOMAIN arms PROVE i <= k <=> \A j \in hits : i <= j
    <2>1. i \in Nat /\ k \in Nat /\ \A j \in hits : j \in Nat OBVIOUS
    <2> QED BY <2>1
  <1>2. Visited(arms, hits) = {i \in DOMAIN arms : i <= k} BY <1>1 DEF Visited
  <1>3. \A j \in hits : j <= k => j = k
    <2> SUFFICES ASSUME NEW j \in hits, j <= k PROVE j = k OBVIOUS
    <2>1. j \in Nat /\ k \in Nat /\ k <= j OBVIOUS
    <2> QED BY <2>1
  <1>4. k <= k
    <2>1. k \in Nat OBVIOUS
    <2> QED BY <2>1
  <1>5. hits \intersect {i \in DOMAIN arms : i <= k} = {k} BY <1>3, <1>4
  <1> QED BY <1>2, <1>5 DEF Deciding

\* A loop over arms reads nothing behind the first arm that stops it.
LEMMA VisitSame ==
  ASSUME NEW t, NEW u, NEW n, NEW arms, ArmsBefore(arms, n), NEW stop \in BOOLEAN,
         \A i \in Visited(At(t, arms), Hits(At(t, arms), stop)) : u[arms[i]] = t[arms[i]]
  PROVE  Visit(At(u, arms), stop) = Visit(At(t, arms), stop)
  <1> DEFINE a == At(t, arms)
             b == At(u, arms)
             D == DOMAIN arms
             hits == Hits(a, stop)
  <1>1. D \subseteq Nat BY DEF ArmsBefore
  <1>2. DOMAIN a = D /\ DOMAIN b = D /\ \A i \in D : a[i] = t[arms[i]] /\ b[i] = u[arms[i]]
    BY DEF At
  <1>3. a = <<>> <=> b = <<>> BY NoArms
  <1>4. \A i \in Visited(a, hits) : b[i] = a[i] BY <1>2 DEF Visited
  <1> HIDE DEF a, b, D
  <1>5. ASSUME Visited(b, Hits(b, stop)) = Visited(a, hits),
               Deciding(b, Hits(b, stop)) = Deciding(a, hits),
               Deciding(a, hits) \subseteq Visited(a, hits),
               Hits(b, stop) = {} <=> hits = {}
        PROVE  Visit(b, stop) = Visit(a, stop)
    <2>1. Consulted(b, Visited(a, hits)) = Consulted(a, Visited(a, hits))
      BY <1>4 DEF Consulted
    <2>2. UNION {b[i].decisive : i \in Deciding(a, hits)} = UNION {a[i].decisive : i \in Deciding(a, hits)}
      BY <1>4, <1>5
    <2>3. (b # <<>> /\ (stop <=> Hits(b, stop) # {})) = (a # <<>> /\ (stop <=> hits # {}))
      BY <1>3, <1>5
    <2> QED BY <1>5, <2>1, <2>2, <2>3, Zenon DEF Visit
  <1>6. CASE hits = {}
    <2>1. Visited(a, hits) = D BY <1>2, <1>6 DEF Visited
    <2>2. \A i \in D : b[i] = a[i] BY <1>4, <2>1
    <2>3. Hits(b, stop) = {} BY <1>2, <1>6, <2>2 DEF Hits
    <2>4. Visited(b, Hits(b, stop)) = D BY <1>2, <2>3 DEF Visited
    <2>5. Deciding(b, Hits(b, stop)) = D /\ Deciding(a, hits) = D
      BY <1>2, <1>6, <2>3 DEF Deciding
    <2> QED BY <1>5, <1>6, <2>1, <2>3, <2>4, <2>5 DEF a, b
  <1>7. CASE hits # {}
    <2>1. hits \subseteq Nat /\ hits \subseteq D BY <1>1, <1>2 DEF Hits
    <2> HIDE DEF hits
    <2>2. PICK k \in hits : \A j \in hits : k <= j BY <1>7, <2>1, HoldsRec!Least
    <2>3. k \in D /\ k \in Nat BY <2>1
    <2>4. Visited(a, hits) = {i \in D : i <= k} /\ Deciding(a, hits) = {k}
      <3>1. DOMAIN a \subseteq Nat /\ hits \subseteq DOMAIN a BY <1>1, <1>2, <2>1
      <3>2. Visited(a, hits) = {i \in DOMAIN a : i <= k} /\ Deciding(a, hits) = {k}
        BY <2>2, <3>1, FirstHit, Zenon
      <3> QED BY <1>2, <3>2
    <2>5. \A i \in D : i <= k => b[i] = a[i] BY <1>4, <2>4
    <2>6. k \in Hits(b, stop) BY <1>2, <2>2, <2>3, <2>5 DEF Hits, hits
    <2>7. \A j \in Hits(b, stop) : j \in D /\ k <= j
      <3> SUFFICES ASSUME NEW j \in Hits(b, stop), ~(k <= j) PROVE FALSE
        BY <1>2 DEF Hits
      <3>1. j \in D /\ j \in Nat /\ j <= k BY <1>1, <1>2, <2>3 DEF Hits
      <3>2. j \in hits BY <1>2, <2>5, <3>1 DEF Hits, hits
      <3> QED BY <2>2, <3>2
    <2>8. Visited(b, Hits(b, stop)) = {i \in D : i <= k} /\ Deciding(b, Hits(b, stop)) = {k}
      <3>1. Hits(b, stop) \subseteq DOMAIN b BY DEF Hits
      <3>2. DOMAIN b \subseteq Nat /\ \A j \in Hits(b, stop) : k <= j BY <1>1, <1>2, <2>7
      <3>3. Visited(b, Hits(b, stop)) = {i \in DOMAIN b : i <= k} /\ Deciding(b, Hits(b, stop)) = {k}
        BY <2>6, <3>1, <3>2, FirstHit, Zenon
      <3> QED BY <1>2, <3>3
    <2> QED BY <1>5, <1>7, <2>3, <2>4, <2>6, <2>8 DEF a, b, hits
  <1> QED BY <1>6, <1>7

LEMMA VisitConsults ==
  ASSUME NEW arms, NEW stop
  PROVE  /\ \A i \in Visited(arms, Hits(arms, stop)) : arms[i].consulted \subseteq Visit(arms, stop).consulted
         /\ Visit(arms, stop).consulted \subseteq UNION {arms[i].consulted : i \in DOMAIN arms}
  <1>1. Visit(arms, stop).consulted = Consulted(arms, Visited(arms, Hits(arms, stop)))
    BY DEF Visit, ConditionEval
  <1> QED BY <1>1 DEF Consulted, Visited

LEMMA ConditionConsulted ==
  ASSUME NEW c, IsCondition(c), NEW S, NEW T
  PROVE  \A n \in 1 .. Len(c) :
           /\ ConditionTable(c, S)[n].consulted \subseteq ConditionFactsTable(c)[n]
           /\ Agree(S, T, ConditionTable(c, S)[n].consulted) =>
                ConditionTable(c, T)[n] = ConditionTable(c, S)[n]
  <1> DEFINE N == Len(c)
             t == ConditionTable(c, S)
             u == ConditionTable(c, T)
             f == ConditionFactsTable(c)
             Good(n) == /\ t[n].consulted \subseteq f[n]
                        /\ Agree(S, T, t[n].consulted) => u[n] = t[n]
             G == {n \in 1 .. N : Good(n)}
  <1>1. /\ t \in [1 .. N -> ConditionEvals] /\ \A n \in 1 .. N : t[n] = EvalConditionNode(c[n], t, S)
        /\ \A n \in 1 .. N : u[n] = EvalConditionNode(c[n], u, T)
    BY ConditionTableRec
  <1>2. \A n \in 1 .. N : f[n] = ConditionFactsNode(c[n], f) BY ConditionFactsTableRec
  <1>3. N \in Nat BY Trees
  <1> HIDE DEF N, t, u, f
  <1>4. ASSUME NEW n \in 1 .. N, \A m \in Nat : 1 <= m /\ m < n => m \in G
        PROVE  n \in G
    <2>1. \A m : Before(m, n) => Good(m) BY <1>4 DEF Before
    <2>2. IsConditionNode(c[n], n) BY Trees DEF N
    <2> DEFINE x == c[n]
    <2>4. t[n] = EvalConditionNode(x, t, S) /\ u[n] = EvalConditionNode(x, u, T) BY <1>1
    <2>5. f[n] = ConditionFactsNode(x, f) BY <1>2
    <2> HIDE DEF x
    <2>6. CASE x.kind \in {"always", "never"}
      <3>1. \A b : ConditionEval(b, {}, {}).consulted = {} BY DEF ConditionEval
      <3>2. \E b \in BOOLEAN : t[n] = ConditionEval(b, {}, {}) /\ u[n] = ConditionEval(b, {}, {})
        BY <2>4, <2>6, EvalConditionKinds
      <3> QED BY <3>1, <3>2
    <2>7. CASE x.kind = "has"
      <3>1. \A b : ConditionEval(b, {x.fact}, {x.fact}).consulted = {x.fact} BY DEF ConditionEval
      <3>2. t[n] = ConditionEval(x.fact \in S, {x.fact}, {x.fact})
        BY <2>4, <2>7, EvalConditionKinds, Zenon
      <3>3. u[n] = ConditionEval(x.fact \in T, {x.fact}, {x.fact})
        BY <2>4, <2>7, EvalConditionKinds, Zenon
      <3>4. f[n] = {x.fact} BY <2>5, <2>7, ConditionFactsKinds, Zenon
      <3>5. t[n].consulted = {x.fact} BY <3>1, <3>2
      <3>6. Agree(S, T, {x.fact}) => (x.fact \in S) = (x.fact \in T) BY DEF Agree
      <3>7. Agree(S, T, {x.fact}) => u[n] = t[n] BY <3>2, <3>3, <3>6, Zenon
      <3> QED BY <3>4, <3>5, <3>7
    <2>8. CASE x.kind = "not" /\ Before(x.arm, n)
      <3>1. t[n] = ConditionEval(~t[x.arm].satisfied, t[x.arm].decisive, t[x.arm].consulted)
        BY <2>4, <2>8, EvalConditionKinds, Zenon
      <3>2. u[n] = ConditionEval(~u[x.arm].satisfied, u[x.arm].decisive, u[x.arm].consulted)
        BY <2>4, <2>8, EvalConditionKinds, Zenon
      <3>3. t[n].consulted = t[x.arm].consulted BY <3>1 DEF ConditionEval
      <3>4. f[n] = f[x.arm] BY <2>5, <2>8, ConditionFactsKinds, Zenon
      <3>5. Good(x.arm) BY <2>1, <2>8
      <3>6. u[x.arm] = t[x.arm] => u[n] = t[n] BY <3>1, <3>2, Zenon
      <3> QED BY <3>3, <3>4, <3>5, <3>6
    <2>9. CASE x.kind \in {"all", "any"} /\ ArmsBefore(x.arms, n)
      <3> DEFINE arms == At(t, x.arms)
      <3>1. DOMAIN arms = DOMAIN x.arms /\ \A i \in DOMAIN arms : arms[i] = t[x.arms[i]]
        BY DEF At
      <3>2. \A i \in DOMAIN x.arms : Good(x.arms[i]) BY <2>1, <2>9 DEF ArmsBefore
      <3>3. f[n] = UNION {f[x.arms[i]] : i \in DOMAIN x.arms} BY <2>5, <2>9, ConditionFactsKinds, Zenon
      <3>4. ASSUME NEW stop \in BOOLEAN, t[n] = Visit(arms, stop), u[n] = Visit(At(u, x.arms), stop)
            PROVE  Good(n)
        <4>1. t[n].consulted \subseteq f[n]
          <5>1. t[n].consulted \subseteq UNION {arms[i].consulted : i \in DOMAIN arms}
            BY <3>4, VisitConsults
          <5> HIDE DEF arms
          <5> QED BY <3>1, <3>2, <3>3, <5>1
        <4>2. ASSUME Agree(S, T, t[n].consulted) PROVE u[n] = t[n]
          <5>1. \A i \in Visited(arms, Hits(arms, stop)) : arms[i].consulted \subseteq t[n].consulted
            BY <3>4, VisitConsults
          <5>2. ASSUME NEW i \in Visited(arms, Hits(arms, stop)) PROVE u[x.arms[i]] = t[x.arms[i]]
            <6>1. i \in DOMAIN x.arms BY <3>1 DEF Visited
            <6>2. t[x.arms[i]].consulted \subseteq t[n].consulted BY <3>1, <5>1, <6>1
            <6>3. Agree(S, T, t[x.arms[i]].consulted) BY <4>2, <6>2, AgreeOnPart
            <6> QED BY <3>2, <6>1, <6>3
          <5>3. Visit(At(u, x.arms), stop) = Visit(arms, stop)
            BY <2>9, <5>2, VisitSame
          <5> QED BY <3>4, <5>3
        <4> QED BY <4>1, <4>2
      <3>5. CASE x.kind = "all"
        BY <2>4, <3>4, <3>5, EvalConditionKinds
      <3>6. CASE x.kind = "any"
        BY <2>4, <3>4, <3>6, EvalConditionKinds
      <3> QED BY <2>9, <3>5, <3>6
    <2> QED BY <2>2, <2>6, <2>7, <2>8, <2>9, ConditionKinds DEF x
  <1> HIDE DEF G
  <1>5. 1 .. N \subseteq G BY <1>3, <1>4, HoldsRec!Positions
  <1> QED BY <1>5 DEF G, N, t, u, f

LEMMA RootConsulted ==
  ASSUME NEW c, IsCondition(c), NEW S, NEW T
  PROVE  /\ EvalCondition(c, S).consulted \subseteq ConditionFacts(c)
         /\ Agree(S, T, EvalCondition(c, S).consulted) => EvalCondition(c, T) = EvalCondition(c, S)
  <1> DEFINE n == Len(c)
  <1>1. n \in 1 .. Len(c) BY Trees
  <1>2. /\ EvalCondition(c, S) = ConditionTable(c, S)[n] /\ EvalCondition(c, T) = ConditionTable(c, T)[n]
        /\ ConditionFacts(c) = ConditionFactsTable(c)[n]
    BY DEF EvalCondition, ConditionFacts, Root
  <1> HIDE DEF n
  <1> QED BY <1>1, <1>2, ConditionConsulted

-----------------------------------------------------------------------------
(***************************************************************************)
(* The outcome lattice                                                     *)
(***************************************************************************)
LEMMA MeetBound ==
  ASSUME NEW x \in Outcomes, NEW y \in Outcomes, NEW l \in Outcomes
  PROVE  Leq(l, Meet(x, y)) <=> Leq(l, x) /\ Leq(l, y)
  <1>1. \A z \in Outcomes : Meet(z, z) = z
    <2> SUFFICES ASSUME NEW z \in Outcomes PROVE Meet(z, z) = z OBVIOUS
    <2>1. Meet(z, z) \in Outcomes BY LatticeAssumption
    <2>2. Join(z, Meet(z, z)) = z BY LatticeAssumption
    <2>3. Meet(z, Join(z, Meet(z, z))) = z BY <2>1, LatticeAssumption
    <2> QED BY <2>2, <2>3
  <1>2. Meet(x, y) \in Outcomes /\ Meet(x, y) = Meet(y, x) BY LatticeAssumption
  <1>3. Meet(l, Meet(x, y)) = Meet(Meet(l, x), y) /\ Meet(l, Meet(y, x)) = Meet(Meet(l, y), x)
    BY LatticeAssumption
  <1>4. ASSUME Leq(l, Meet(x, y)) PROVE Leq(l, x) /\ Leq(l, y)
    <2>1. l = Meet(Meet(l, x), y) /\ l = Meet(Meet(l, y), x) BY <1>2, <1>3, <1>4 DEF Leq
    <2>2. Meet(l, x) \in Outcomes /\ Meet(l, y) \in Outcomes BY LatticeAssumption
    <2>3. Meet(Meet(Meet(l, y), x), x) = Meet(Meet(l, y), Meet(x, x)) BY <2>2, LatticeAssumption
    <2>4. Meet(Meet(Meet(l, x), y), y) = Meet(Meet(l, x), Meet(y, y)) BY <2>2, LatticeAssumption
    <2> QED BY <1>1, <2>1, <2>3, <2>4 DEF Leq
  <1>5. ASSUME Leq(l, x), Leq(l, y) PROVE Leq(l, Meet(x, y))
    BY <1>3, <1>5 DEF Leq
  <1> QED BY <1>4, <1>5

\* The two ways to say that x is at most y.
LEMMA LeqJoin ==
  ASSUME NEW x \in Outcomes, NEW y \in Outcomes
  PROVE  Leq(x, y) <=> Join(x, y) = y
  <1>1. Join(y, Meet(y, x)) = y /\ Meet(x, Join(x, y)) = x BY LatticeAssumption
  <1>2. Meet(y, x) = Meet(x, y) /\ Join(y, x) = Join(x, y) BY LatticeAssumption
  <1> QED BY <1>1, <1>2 DEF Leq

LEMMA JoinBound ==
  ASSUME NEW x \in Outcomes, NEW y \in Outcomes, NEW u \in Outcomes
  PROVE  Leq(Join(x, y), u) <=> Leq(x, u) /\ Leq(y, u)
  <1>1. \A z \in Outcomes : Join(z, z) = z
    <2> SUFFICES ASSUME NEW z \in Outcomes PROVE Join(z, z) = z OBVIOUS
    <2>1. Join(z, z) \in Outcomes BY LatticeAssumption
    <2>2. Meet(z, Join(z, z)) = z BY LatticeAssumption
    <2>3. Join(z, Meet(z, Join(z, z))) = z BY <2>1, LatticeAssumption
    <2> QED BY <2>2, <2>3
  <1>2. Join(x, y) \in Outcomes /\ Join(x, y) = Join(y, x) BY LatticeAssumption
  <1>3. /\ Leq(Join(x, y), u) <=> Join(Join(x, y), u) = u
        /\ Leq(x, u) <=> Join(x, u) = u
        /\ Leq(y, u) <=> Join(y, u) = u
    BY <1>2, LeqJoin
  <1>4. Join(Join(x, y), u) = Join(x, Join(y, u)) /\ Join(Join(y, x), u) = Join(y, Join(x, u))
    BY LatticeAssumption
  <1>5. ASSUME Leq(Join(x, y), u) PROVE Leq(x, u) /\ Leq(y, u)
    <2>1. u = Join(x, Join(y, u)) /\ u = Join(y, Join(x, u)) BY <1>2, <1>3, <1>4, <1>5
    <2>2. Join(y, u) \in Outcomes /\ Join(x, u) \in Outcomes BY LatticeAssumption
    <2>3. Join(x, Join(x, Join(y, u))) = Join(Join(x, x), Join(y, u)) BY <2>2, LatticeAssumption
    <2>4. Join(y, Join(y, Join(x, u))) = Join(Join(y, y), Join(x, u)) BY <2>2, LatticeAssumption
    <2>5. Join(x, u) = u
      <3>1. Join(x, u) = Join(x, Join(x, Join(y, u))) BY <2>1
      <3> QED BY <1>1, <2>1, <2>3, <3>1
    <2>6. Join(y, u) = u
      <3>1. Join(y, u) = Join(y, Join(y, Join(x, u))) BY <2>1
      <3> QED BY <1>1, <2>1, <2>4, <3>1
    <2> QED BY <1>3, <2>5, <2>6
  <1>6. ASSUME Leq(x, u), Leq(y, u) PROVE Leq(Join(x, y), u)
    BY <1>3, <1>4, <1>6
  <1> QED BY <1>5, <1>6

LEMMA LeqOrder ==
  ASSUME NEW x \in Outcomes, NEW y \in Outcomes
  PROVE  Leq(x, x) /\ (Leq(x, y) /\ Leq(y, x) => x = y)
  <1>1. Meet(x, y) = Meet(y, x) BY LatticeAssumption
  <1>2. Meet(x, x) = x
    <2>1. Meet(x, x) \in Outcomes BY LatticeAssumption
    <2>2. Join(x, Meet(x, x)) = x BY LatticeAssumption
    <2>3. Meet(x, Join(x, Meet(x, x))) = x BY <2>1, LatticeAssumption
    <2> QED BY <2>2, <2>3
  <1> QED BY <1>1, <1>2 DEF Leq

\* A bound is the only one.
LEMMA GreatestIs ==
  ASSUME NEW X, NEW m \in Outcomes, \A l \in Outcomes : Leq(l, m) <=> \A x \in X : Leq(l, x)
  PROVE  GreatestLowerBound(X) = m
  <1> DEFINE g == GreatestLowerBound(X)
  <1>1. g \in Outcomes /\ \A l \in Outcomes : Leq(l, g) <=> \A x \in X : Leq(l, x)
    BY DEF GreatestLowerBound
  <1> HIDE DEF g
  <1>2. Leq(g, m) /\ Leq(m, g) BY <1>1, LeqOrder
  <1>3. g = m BY <1>1, <1>2, LeqOrder
  <1> QED BY <1>3 DEF g

LEMMA LeastIs ==
  ASSUME NEW X, NEW m \in Outcomes, \A u \in Outcomes : Leq(m, u) <=> \A x \in X : Leq(x, u)
  PROVE  LeastUpperBound(X) = m
  <1> DEFINE g == LeastUpperBound(X)
  <1>1. g \in Outcomes /\ \A u \in Outcomes : Leq(g, u) <=> \A x \in X : Leq(x, u)
    BY DEF LeastUpperBound
  <1> HIDE DEF g
  <1>2. Leq(g, m) /\ Leq(m, g) BY <1>1, LeqOrder
  <1>3. g = m BY <1>1, <1>2, LeqOrder
  <1> QED BY <1>3 DEF g

-----------------------------------------------------------------------------
(***************************************************************************)
(* eval_all_by and eval_any_by: the permit that is kept has the meet, or   *)
(* the join, of the outcomes of the arms.                                  *)
(***************************************************************************)
Auditable == {d \in Decisions : ValidSemantics(d)}
PermitDecisions == {d \in Auditable : d.effect \in Outcomes}

LEMMA DecisionType ==
  ASSUME NEW o \in Outcomes, NEW ob, ob \subseteq Obligations, NEW f, f \subseteq Facts, NEW l \in Labels
  PROVE  /\ Decision(o, ob, "permit", f, l) \in PermitDecisions
         /\ Decision(o, ob, "permit", f, l).effect = o
         /\ Decision(Denied, {}, "deny", f, l) \in Auditable
         /\ Decision(Denied, {}, "deny", f, l).effect = Denied
  <1>1. Denied \notin Outcomes BY LatticeAssumption
  <1> QED BY <1>1 DEF Decision, Decisions, Auditable, PermitDecisions, ValidSemantics, IsPermit

LEMMA Auditing ==
  ASSUME NEW d \in Auditable
  PROVE  /\ d.effect \in Outcomes \/ d.effect = Denied
         /\ IsPermit(d) <=> d.effect \in Outcomes
         /\ IsPermit(d) <=> d \in PermitDecisions
         /\ d.consulted \subseteq Facts /\ d.obligations \subseteq Obligations
         /\ d.decisive.facts \subseteq Facts
  <1>1. Denied \notin Outcomes BY LatticeAssumption
  <1> QED BY <1>1 DEF Decisions, Auditable, PermitDecisions, IsPermit

LEMMA WithConsultedType ==
  ASSUME NEW d \in Auditable, NEW X, X \subseteq Facts
  PROVE  /\ WithConsulted(d, X) \in Auditable
         /\ WithConsulted(d, X).effect = d.effect
         /\ WithConsulted(d, X).consulted = X
  BY DEF WithConsulted, Decisions, Auditable, ValidSemantics, IsPermit

LEMMA GenericDenyType == GenericDeny \in Auditable /\ GenericDeny.effect = Denied /\ GenericDeny.consulted = {}
  BY LabelAssumption DEF GenericDeny, Decision, Decisions, Auditable, ValidSemantics, IsPermit

LEMMA MeetPermitsType ==
  ASSUME NEW d \in PermitDecisions, NEW e \in PermitDecisions
  PROVE  MeetPermits(d, e) \in PermitDecisions /\ MeetPermits(d, e).effect = Meet(d.effect, e.effect)
  <1> DEFINE o == Meet(d.effect, e.effect)
  <1>1. o \in Outcomes BY LatticeAssumption DEF PermitDecisions
  <1> HIDE DEF o
  <1>2. Decision(o, {}, "permit", {}, NoLabel) \in PermitDecisions /\ Decision(o, {}, "permit", {}, NoLabel).effect = o
    BY <1>1, LabelAssumption, DecisionType
  <1> QED BY <1>2 DEF MeetPermits, o

LEMMA JoinPermitsType ==
  ASSUME NEW d \in PermitDecisions, NEW e \in PermitDecisions
  PROVE  JoinPermits(d, e) \in PermitDecisions /\ JoinPermits(d, e).effect = Join(d.effect, e.effect)
  <1> DEFINE o == Join(d.effect, e.effect)
             both == d.obligations \union e.obligations
             m == [d EXCEPT !.obligations = both]
  <1>1. o \in Outcomes BY LatticeAssumption DEF PermitDecisions
  <1>2. both \subseteq Obligations BY DEF PermitDecisions, Auditable, Decisions
  <1>3. m \in PermitDecisions /\ m.effect = d.effect
    <2> HIDE DEF both
    <2>1. Denied \notin Outcomes BY LatticeAssumption
    <2> QED BY <1>2, <2>1 DEF PermitDecisions, Auditable, Decisions, ValidSemantics, IsPermit
  <1>4. Decision(o, both, "permit", {}, NoLabel) \in PermitDecisions /\ Decision(o, both, "permit", {}, NoLabel).effect = o
    <2> HIDE DEF o, both
    <2> QED BY <1>1, <1>2, LabelAssumption, DecisionType
  <1>5. JoinPermits(d, e) = IF o = d.effect /\ o = e.effect THEN m
                            ELSE IF o = e.effect THEN e
                            ELSE IF o = d.effect THEN d
                            ELSE Decision(o, both, "permit", {}, NoLabel)
    BY DEF JoinPermits
  <1> HIDE DEF o, both, m
  <1> QED BY <1>3, <1>4, <1>5 DEF o

IsArms(arms) == Len(arms) \in Nat /\ DOMAIN arms = 1 .. Len(arms) /\ (arms = <<>> <=> Len(arms) = 0)

CommonStep(arms, at, i) == IF i = 1 THEN arms[1] ELSE MeetPermits(at[i - 1], arms[i])
CommonRec == INSTANCE Recursion WITH Step <- CommonStep

LEMMA CommonMeets ==
  ASSUME NEW arms, IsArms(arms), arms # <<>>, \A i \in DOMAIN arms : arms[i] \in PermitDecisions
  PROVE  /\ CommonPermit(arms) \in PermitDecisions
         /\ \A l \in Outcomes : Leq(l, CommonPermit(arms).effect) <=> \A i \in DOMAIN arms : Leq(l, arms[i].effect)
  <1> DEFINE N == Len(arms)
             t == CommonRec!Table(arms, N)
  <1>1. CommonPermit(arms) = t[N] BY Zenon DEF CommonPermit, CommonRec!Table, CommonStep
  <1>2. N \in Nat /\ N # 0 /\ DOMAIN arms = 1 .. N BY DEF IsArms
  <1>3. CommonRec!Local(arms, N)
    BY <1>2 DEF CommonStep, CommonRec!Local, CommonRec!Below
  <1>4. t = [i \in 1 .. N |-> CommonStep(arms, t, i)] BY <1>2, <1>3, CommonRec!TableEquation
  <1> HIDE DEF N, t
  <1> DEFINE Good(i) == /\ t[i] \in PermitDecisions
                        /\ \A l \in Outcomes : Leq(l, t[i].effect) <=> \A j \in 1 .. i : Leq(l, arms[j].effect)
             G == {i \in 1 .. N : Good(i)}
  <1>5. ASSUME NEW i \in 1 .. N, \A m \in Nat : 1 <= m /\ m < i => m \in G PROVE i \in G
    <2>1. CASE i = 1
      <3>1. t[1] = arms[1] BY <1>4, <2>1 DEF CommonStep
      <3>2. \A j \in 1 .. 1 : j = 1 OBVIOUS
      <3>3. arms[1] \in PermitDecisions BY <1>2, <2>1
      <3> QED BY <2>1, <3>1, <3>2, <3>3
    <2>2. CASE i # 1
      <3>1. PICK k \in 1 .. N : i = k + 1 BY <1>2, <2>2
      <3>2. k \in G BY <1>2, <1>5, <3>1
      <3>3. Good(k) BY <3>2
      <3>4. i - 1 = k BY <1>2, <3>1
      <3>5. t[i] = MeetPermits(t[k], arms[i]) BY <1>4, <2>2, <3>4 DEF CommonStep
      <3>6. arms[i] \in PermitDecisions BY <1>2
      <3>7. t[i] \in PermitDecisions /\ t[i].effect = Meet(t[k].effect, arms[i].effect)
        BY <3>3, <3>5, <3>6, MeetPermitsType
      <3>8. t[k].effect \in Outcomes /\ arms[i].effect \in Outcomes BY <3>3, <3>6 DEF PermitDecisions
      <3>9. \A j : j \in 1 .. i <=> j \in 1 .. k \/ j = i BY <1>2, <3>1
      <3>10. \A l \in Outcomes : Leq(l, t[i].effect) <=> Leq(l, t[k].effect) /\ Leq(l, arms[i].effect)
        BY <3>7, <3>8, MeetBound
      <3> QED BY <3>3, <3>7, <3>9, <3>10
    <2> QED BY <2>1, <2>2
  <1> HIDE DEF G
  <1>6. 1 .. N \subseteq G BY <1>2, <1>5, CommonRec!Positions
  <1>7. Good(N) BY <1>2, <1>6 DEF G
  <1> QED BY <1>1, <1>2, <1>7

WinningStep(arms, at, i) == IF i = 1 THEN arms[1] ELSE Incoming(at[i - 1], arms[i])
WinningRec == INSTANCE Recursion WITH Step <- WinningStep

LEMMA WinningJoins ==
  ASSUME NEW arms, IsArms(arms), arms # <<>>, \A i \in DOMAIN arms : arms[i] \in Auditable
  PROVE  /\ WinningPermit(arms) \in Auditable
         /\ IsPermit(WinningPermit(arms)) <=> \E i \in DOMAIN arms : IsPermit(arms[i])
         /\ IsPermit(WinningPermit(arms)) =>
              \A u \in Outcomes : Leq(WinningPermit(arms).effect, u) <=>
                \A i \in DOMAIN arms : IsPermit(arms[i]) => Leq(arms[i].effect, u)
  <1> DEFINE N == Len(arms)
             t == WinningRec!Table(arms, N)
  <1>1. WinningPermit(arms) = t[N] BY Zenon DEF WinningPermit, WinningRec!Table, WinningStep
  <1>2. N \in Nat /\ N # 0 /\ DOMAIN arms = 1 .. N BY DEF IsArms
  <1>3. WinningRec!Local(arms, N)
    BY <1>2 DEF WinningStep, WinningRec!Local, WinningRec!Below
  <1>4. t = [i \in 1 .. N |-> WinningStep(arms, t, i)] BY <1>2, <1>3, WinningRec!TableEquation
  <1> HIDE DEF N, t
  <1> DEFINE Bound(i) == \A u \in Outcomes : Leq(t[i].effect, u) <=>
                           \A j \in 1 .. i : IsPermit(arms[j]) => Leq(arms[j].effect, u)
             Good(i) == /\ t[i] \in Auditable
                        /\ IsPermit(t[i]) <=> \E j \in 1 .. i : IsPermit(arms[j])
                        /\ IsPermit(t[i]) => Bound(i)
             G == {i \in 1 .. N : Good(i)}
  <1>5. ASSUME NEW i \in 1 .. N, \A m \in Nat : 1 <= m /\ m < i => m \in G PROVE i \in G
    <2>1. CASE i = 1
      <3>1. t[1] = arms[1] BY <1>4, <2>1 DEF WinningStep
      <3>2. \A j : j \in 1 .. 1 <=> j = 1 OBVIOUS
      <3>3. arms[1] \in Auditable BY <1>2, <2>1
      <3> QED BY <2>1, <3>1, <3>2, <3>3
    <2>2. CASE i # 1
      <3>1. PICK k \in 1 .. N : i = k + 1 BY <1>2, <2>2
      <3>2. k \in G BY <1>2, <1>5, <3>1
      <3>3. Good(k) BY <3>2
      <3>4. i - 1 = k BY <1>2, <3>1
      <3>5. t[i] = Incoming(t[k], arms[i]) BY <1>4, <2>2, <3>4 DEF WinningStep
      <3>6. arms[i] \in Auditable BY <1>2
      <3>7. \A j : j \in 1 .. i <=> j \in 1 .. k \/ j = i BY <1>2, <3>1
      <3>8. CASE ~IsPermit(arms[i])
        <4>1. t[i] = t[k] BY <3>5, <3>8 DEF Incoming
        <4> QED BY <3>3, <3>7, <3>8, <4>1
      <3>9. CASE IsPermit(arms[i]) /\ ~IsPermit(t[k])
        <4>1. t[i] = arms[i] BY <3>5, <3>9 DEF Incoming
        <4>2. \A j \in 1 .. k : ~IsPermit(arms[j]) BY <3>3, <3>9
        <4> QED BY <3>6, <3>7, <3>9, <4>1, <4>2
      <3>10. CASE IsPermit(arms[i]) /\ IsPermit(t[k])
        <4>1. t[i] = JoinPermits(t[k], arms[i]) BY <3>5, <3>10 DEF Incoming
        <4>2. t[k] \in PermitDecisions /\ arms[i] \in PermitDecisions BY <3>3, <3>6, <3>10, Auditing
        <4>3. t[i] \in PermitDecisions /\ t[i].effect = Join(t[k].effect, arms[i].effect)
          BY <4>1, <4>2, JoinPermitsType
        <4>4. t[k].effect \in Outcomes /\ arms[i].effect \in Outcomes BY <4>2 DEF PermitDecisions
        <4>5. \A u \in Outcomes : Leq(t[i].effect, u) <=> Leq(t[k].effect, u) /\ Leq(arms[i].effect, u)
          BY <4>3, <4>4, JoinBound
        <4>6. t[i] \in Auditable /\ IsPermit(t[i]) BY <4>3, Auditing DEF PermitDecisions
        <4> QED BY <3>3, <3>7, <3>10, <4>5, <4>6
      <3> QED BY <3>8, <3>9, <3>10
    <2> QED BY <2>1, <2>2
  <1> HIDE DEF G
  <1>6. 1 .. N \subseteq G BY <1>2, <1>5, WinningRec!Positions
  <1>7. Good(N) BY <1>2, <1>6 DEF G
  <1> QED BY <1>1, <1>2, <1>7

Effects(arms) == {arms[i].effect : i \in DOMAIN arms}
AllEffect(X) == IF X = {} \/ Denied \in X THEN Denied ELSE GreatestLowerBound(X)
AnyEffect(X) == IF X \ {Denied} = {} THEN Denied ELSE LeastUpperBound(X \ {Denied})

Refusals(arms) == {i \in DOMAIN arms : ~IsPermit(arms[i])}

LEMMA EvalAllIs ==
  ASSUME NEW arms, arms # <<>>
  PROVE  EvalAll(arms) =
           WithConsulted(IF Refusals(arms) = {} THEN CommonPermit(arms) ELSE arms[Min(Refusals(arms))],
                         Consulted(arms, Visited(arms, Refusals(arms))))
  BY Zenon DEF EvalAll, Refusals

LEMMA MinOf ==
  ASSUME NEW X, X \subseteq Nat, X # {}
  PROVE  Min(X) \in X /\ \A x \in X : Min(X) <= x
  <1>1. \E n \in X : \A m \in X : n <= m BY CommonRec!Least
  <1> QED BY <1>1 DEF Min

LEMMA ConsultedType ==
  ASSUME NEW arms, \A i \in DOMAIN arms : arms[i] \in Auditable, NEW I, I \subseteq DOMAIN arms
  PROVE  Consulted(arms, I) \subseteq Facts
  BY Auditing DEF Consulted

LEMMA AllDecides ==
  ASSUME NEW arms, IsArms(arms), \A i \in DOMAIN arms : arms[i] \in Auditable
  PROVE  EvalAll(arms) \in Auditable /\ EvalAll(arms).effect = AllEffect(Effects(arms))
  <1>1. CASE arms = <<>>
    <2>1. EvalAll(arms) = GenericDeny BY <1>1 DEF EvalAll
    <2>2. Effects(arms) = {} BY <1>1 DEF IsArms, Effects
    <2> QED BY <2>1, <2>2, GenericDenyType DEF AllEffect
  <1>2. CASE arms # <<>> /\ Refusals(arms) = {}
    <2> DEFINE X == Consulted(arms, Visited(arms, Refusals(arms)))
               m == CommonPermit(arms)
    <2>1. EvalAll(arms) = WithConsulted(m, X) BY <1>2, EvalAllIs, Zenon
    <2>2. X \subseteq Facts BY ConsultedType DEF Visited
    <2>3. \A i \in DOMAIN arms : arms[i] \in PermitDecisions BY <1>2, Auditing DEF Refusals
    <2>4. /\ m \in PermitDecisions
          /\ \A l \in Outcomes : Leq(l, m.effect) <=> \A i \in DOMAIN arms : Leq(l, arms[i].effect)
      BY <1>2, <2>3, CommonMeets
    <2> HIDE DEF m, X
    <2>5. m \in Auditable /\ m.effect \in Outcomes BY <2>4 DEF PermitDecisions
    <2>6. Effects(arms) # {} /\ Denied \notin Effects(arms)
      <3>1. \A i \in DOMAIN arms : arms[i].effect \in Outcomes BY <2>3 DEF PermitDecisions
      <3>2. \E i \in DOMAIN arms : TRUE BY <1>2 DEF IsArms
      <3> QED BY <3>1, <3>2, LatticeAssumption DEF Effects
    <2>7. GreatestLowerBound(Effects(arms)) = m.effect
      <3>1. \A l \in Outcomes : Leq(l, m.effect) <=> \A x \in Effects(arms) : Leq(l, x)
        BY <2>4 DEF Effects
      <3> QED BY <2>5, <3>1, GreatestIs
    <2> QED BY <2>1, <2>2, <2>5, <2>6, <2>7, WithConsultedType DEF AllEffect
  <1>3. CASE arms # <<>> /\ Refusals(arms) # {}
    <2> DEFINE X == Consulted(arms, Visited(arms, Refusals(arms)))
               k == Min(Refusals(arms))
    <2>1. EvalAll(arms) = WithConsulted(arms[k], X) BY <1>3, EvalAllIs, Zenon
    <2>2. X \subseteq Facts BY ConsultedType DEF Visited
    <2>3. k \in Refusals(arms)
      <3>1. Refusals(arms) \subseteq Nat BY DEF Refusals, IsArms
      <3> QED BY <1>3, <3>1, MinOf
    <2> HIDE DEF k, X
    <2>4. arms[k] \in Auditable /\ arms[k].effect = Denied /\ Denied \in Effects(arms)
      BY <2>3 DEF Refusals, IsPermit, Effects
    <2> QED BY <2>1, <2>2, <2>4, WithConsultedType DEF AllEffect
  <1> QED BY <1>1, <1>2, <1>3

LEMMA AnyDecides ==
  ASSUME NEW arms, IsArms(arms), \A i \in DOMAIN arms : arms[i] \in Auditable
  PROVE  EvalAny(arms) \in Auditable /\ EvalAny(arms).effect = AnyEffect(Effects(arms))
  <1>1. CASE arms = <<>>
    <2>1. EvalAny(arms) = GenericDeny BY <1>1 DEF EvalAny
    <2>2. Effects(arms) = {} BY <1>1 DEF IsArms, Effects
    <2> QED BY <2>1, <2>2, GenericDenyType DEF AnyEffect
  <1>2. CASE arms # <<>>
    <2> DEFINE X == Consulted(arms, DOMAIN arms)
               m == WinningPermit(arms)
               Y == Effects(arms) \ {Denied}
    <2>1. EvalAny(arms) = WithConsulted(m, X) BY <1>2 DEF EvalAny
    <2>2. X \subseteq Facts BY ConsultedType
    <2>3. /\ m \in Auditable
          /\ IsPermit(m) <=> \E i \in DOMAIN arms : IsPermit(arms[i])
          /\ IsPermit(m) =>
               \A u \in Outcomes : Leq(m.effect, u) <=>
                 \A i \in DOMAIN arms : IsPermit(arms[i]) => Leq(arms[i].effect, u)
      BY <1>2, WinningJoins
    <2> HIDE DEF m, X
    <2>4. Y # {} <=> IsPermit(m) BY <2>3 DEF Effects, IsPermit
    <2>5. ASSUME IsPermit(m) PROVE LeastUpperBound(Y) = m.effect
      <3>1. \A u \in Outcomes : Leq(m.effect, u) <=> \A x \in Y : Leq(x, u)
        BY <2>3, <2>5 DEF Effects, IsPermit
      <3>2. m.effect \in Outcomes BY <2>3, <2>5, Auditing
      <3> HIDE DEF Y
      <3> QED BY <3>1, <3>2, LeastIs
    <2>6. ~IsPermit(m) => m.effect = Denied BY DEF IsPermit
    <2>7. m.effect = AnyEffect(Effects(arms))
      BY <2>4, <2>5, <2>6 DEF AnyEffect
    <2> QED BY <2>1, <2>2, <2>3, <2>7, WithConsultedType
  <1> QED BY <1>1, <1>2

LEMMA OrElseDecides ==
  ASSUME NEW d \in Auditable, NEW e \in Auditable
  PROVE  /\ EvalOrElse(d, e) \in Auditable
         /\ d.effect # Denied => /\ EvalOrElse(d, e).effect = d.effect
                                 /\ EvalOrElse(d, e).consulted = d.consulted
         /\ d.effect = Denied => /\ EvalOrElse(d, e).effect = e.effect
                                 /\ EvalOrElse(d, e).consulted = d.consulted \union e.consulted
  <1>1. d.consulted \union e.consulted \subseteq Facts BY Auditing
  <1>2. CASE d.effect # Denied BY <1>2 DEF EvalOrElse, IsPermit
  <1>3. CASE d.effect = Denied
    <2>1. EvalOrElse(d, e) = WithConsulted(e, d.consulted \union e.consulted)
      BY <1>3 DEF EvalOrElse, IsPermit
    <2> QED BY <1>1, <1>3, <2>1, WithConsultedType
  <1> QED BY <1>2, <1>3

-----------------------------------------------------------------------------
(***************************************************************************)
(* eval_policy and eval_residual_policy.  A tree is a policy or what       *)
(* partial_evaluate leaves of one: some of its nodes are constants that    *)
(* keep their trace.                                                       *)
(***************************************************************************)
IsTraceNode(p) ==
  \/ p.kind = "permit_trace" /\ p.decision \in PermitDecisions
  \/ p.kind = "deny_trace" /\ p.decision \in Auditable /\ p.decision.effect = Denied

IsTree(p) ==
  /\ Len(p) \in Nat \ {0} /\ DOMAIN p = 1 .. Len(p)
  /\ \A n \in 1 .. Len(p) : IsPolicyNode(p[n], n) \/ IsTraceNode(p[n])

LEMMA PolicyIsTree ==
  ASSUME NEW p, IsPolicy(p)
  PROVE  IsTree(p)
  BY DEF IsPolicy, IsTree

GrantNode(p) == 
  /\ p.outcome \in Outcomes /\ IsCondition(p.condition)
  /\ p.obligations \subseteq Obligations /\ p.label \in Labels

LEMMA TreeKinds ==
  ASSUME NEW p, IsTree(p), NEW n \in 1 .. Len(p)
  PROVE  \/ p[n].kind = "permit" /\ p[n].outcome \in Outcomes
         \/ p[n].kind = "deny"
         \/ p[n].kind \in {"permit_trace", "deny_trace"} /\ p[n].decision \in Auditable
         \/ p[n].kind = "grant" /\ GrantNode(p[n])
         \/ p[n].kind = "all" /\ ArmsBefore(p[n].arms, n)
         \/ p[n].kind = "any" /\ ArmsBefore(p[n].arms, n)
         \/ p[n].kind = "or_else" /\ Before(p[n].primary, n) /\ Before(p[n].fallback, n)
  BY DEF IsTree, IsPolicyNode, IsTraceNode, PermitDecisions, GrantNode

LEMMA TreePositions ==
  ASSUME NEW p, IsTree(p)
  PROVE  /\ Len(p) \in Nat /\ Len(p) \in 1 .. Len(p)
         /\ \A n \in 1 .. Len(p) : \A m : Before(m, n) => m \in 1 .. Len(p) /\ m < n
  BY DEF IsTree, Before

LEMMA EvalKinds ==
  ASSUME NEW p, NEW at, NEW S
  PROVE  /\ p.kind = "permit" => EvalNode(p, at, S) = Decision(p.outcome, {}, "permit", {}, NoLabel)
         /\ p.kind = "deny" => EvalNode(p, at, S) = GenericDeny
         /\ p.kind \in {"permit_trace", "deny_trace"} => EvalNode(p, at, S) = p.decision
         /\ p.kind = "grant" => EvalNode(p, at, S) = EvalGrant(p, S)
         /\ p.kind = "all" => EvalNode(p, at, S) = EvalAll(At(at, p.arms))
         /\ p.kind = "any" => EvalNode(p, at, S) = EvalAny(At(at, p.arms))
         /\ p.kind = "or_else" => EvalNode(p, at, S) = EvalOrElse(at[p.primary], at[p.fallback])
  BY Zenon DEF EvalNode

LEMMA EvalLocal ==
  ASSUME NEW p, IsTree(p), NEW n \in 1 .. Len(p), NEW S, NEW u, NEW v, Same(u, v, n)
  PROVE  EvalNode(p[n], u, S) = EvalNode(p[n], v, S)
  <1> DEFINE x == p[n]
  <1> SUFFICES EvalNode(x, u, S) = EvalNode(x, v, S) OBVIOUS
  <1>1. CASE x.kind \in {"permit", "deny", "permit_trace", "deny_trace", "grant"}
    <2> HIDE DEF x
    <2> QED BY <1>1, EvalKinds, Zenon
  <1>2. CASE x.kind = "or_else" /\ Before(x.primary, n) /\ Before(x.fallback, n)
    <2> HIDE DEF x
    <2> QED BY <1>2, EvalKinds, ZenonT(60) DEF Same
  <1>3. CASE x.kind \in {"all", "any"} /\ ArmsBefore(x.arms, n)
    <2> HIDE DEF x
    <2>1. At(u, x.arms) = At(v, x.arms) BY <1>3, SameArms
    <2> QED BY <1>3, <2>1, EvalKinds, Zenon
  <1> QED BY <1>1, <1>2, <1>3, TreeKinds

LEMMA AtIsArms ==
  ASSUME NEW u, NEW n, NEW arms, ArmsBefore(arms, n)
  PROVE  IsArms(At(u, arms)) /\ IsArms(arms) /\ (At(u, arms) = <<>> <=> arms = <<>>)
  <1>1. arms \in Seq(Nat) BY DEF ArmsBefore
  <1>2. DOMAIN arms = 1 .. Len(arms) /\ Len(arms) \in Nat BY <1>1
  <1>3. At(u, arms) \in Seq({u[arms[i]] : i \in DOMAIN arms}) BY <1>2 DEF At
  <1>4. IsArms(arms) BY <1>1 DEF IsArms
  <1>5. IsArms(At(u, arms)) BY <1>3 DEF IsArms
  <1> QED BY <1>4, <1>5, NoArms

LEMMA GrantType ==
  ASSUME NEW p, GrantNode(p), NEW S
  PROVE  /\ EvalGrant(p, S) \in Auditable
         /\ EvalGrant(p, S).effect = IF EvalCondition(p.condition, S).satisfied THEN p.outcome ELSE Denied
         /\ EvalGrant(p, S).consulted = EvalCondition(p.condition, S).consulted
  <1> DEFINE e == EvalCondition(p.condition, S)
             d == IF e.satisfied THEN Decision(p.outcome, p.obligations, "permit", e.decisive, p.label)
                  ELSE Decision(Denied, {}, "deny", e.decisive, p.label)
  <1>1. e \in ConditionEvals BY ConditionTableRec, Trees DEF GrantNode, EvalCondition, Root
  <1> HIDE DEF e
  <1>2. d \in Auditable /\ d.effect = IF e.satisfied THEN p.outcome ELSE Denied
    <2>1. e.decisive \subseteq Facts BY <1>1 DEF ConditionEvals
    <2>2. /\ Decision(p.outcome, p.obligations, "permit", e.decisive, p.label) \in PermitDecisions
          /\ Decision(p.outcome, p.obligations, "permit", e.decisive, p.label).effect = p.outcome
          /\ Decision(Denied, {}, "deny", e.decisive, p.label) \in Auditable
          /\ Decision(Denied, {}, "deny", e.decisive, p.label).effect = Denied
      BY <2>1, DecisionType DEF GrantNode
    <2> QED BY <2>2 DEF PermitDecisions
  <1>3. EvalGrant(p, S) = WithConsulted(d, e.consulted) BY Zenon DEF EvalGrant, e
  <1>4. e.consulted \subseteq Facts BY <1>1 DEF ConditionEvals
  <1> HIDE DEF d
  <1> QED BY <1>2, <1>3, <1>4, WithConsultedType DEF e

LEMMA EvalNodeType ==
  ASSUME NEW p, IsTree(p), NEW n \in 1 .. Len(p), NEW S, NEW u \in [1 .. Len(p) -> Auditable]
  PROVE  EvalNode(p[n], u, S) \in Auditable
  <1> DEFINE x == p[n]
  <1>1. CASE x.kind = "permit" /\ x.outcome \in Outcomes
    <2>1. Decision(x.outcome, {}, "permit", {}, NoLabel) \in PermitDecisions
      BY <1>1, LabelAssumption, DecisionType
    <2> QED BY <1>1, <2>1, EvalKinds DEF PermitDecisions
  <1>2. CASE x.kind = "deny" BY <1>2, EvalKinds, GenericDenyType
  <1>3. CASE x.kind \in {"permit_trace", "deny_trace"} /\ x.decision \in Auditable
    BY <1>3, EvalKinds
  <1>4. CASE x.kind = "grant" /\ GrantNode(x) BY <1>4, EvalKinds, GrantType
  <1>5. CASE x.kind \in {"all", "any"} /\ ArmsBefore(x.arms, n)
    <2>1. \A i \in DOMAIN At(u, x.arms) : At(u, x.arms)[i] \in Auditable
      BY <1>5, AtType, TreePositions
    <2>2. IsArms(At(u, x.arms)) BY <1>5, AtIsArms
    <2>3. EvalAll(At(u, x.arms)) \in Auditable /\ EvalAny(At(u, x.arms)) \in Auditable
      BY <2>1, <2>2, AllDecides, AnyDecides
    <2> QED BY <1>5, <2>3, EvalKinds
  <1>6. CASE x.kind = "or_else" /\ Before(x.primary, n) /\ Before(x.fallback, n)
    <2>1. u[x.primary] \in Auditable /\ u[x.fallback] \in Auditable BY <1>6, TreePositions
    <2>2. EvalOrElse(u[x.primary], u[x.fallback]) \in Auditable BY <2>1, OrElseDecides
    <2> QED BY <1>6, <2>2, EvalKinds
  <1> QED BY <1>1, <1>2, <1>3, <1>4, <1>5, <1>6, TreeKinds

EvalStep(env, at, n) == EvalNode(env[1][n], at, env[2])
EvalRec == INSTANCE Recursion WITH Step <- EvalStep

\* The equation and the type of evaluate.
LEMMA EvalTableRec ==
  ASSUME NEW p, IsTree(p), NEW S
  PROVE  /\ EvalTable(p, S) \in [1 .. Len(p) -> Auditable]
         /\ \A n \in 1 .. Len(p) : EvalTable(p, S)[n] = EvalNode(p[n], EvalTable(p, S), S)
  <1> DEFINE env == <<p, S>>
             N == Len(p)
             t == EvalRec!Table(env, N)
  <1>1. EvalTable(p, S) = t BY Zenon DEF EvalTable, EvalRec!Table, EvalStep
  <1>2. \A n, u : EvalStep(env, u, n) = EvalNode(p[n], u, S) BY Zenon DEF EvalStep
  <1> HIDE DEF env
  <1>3. EvalRec!Local(env, N)
    BY <1>2, EvalLocal DEF EvalRec!Local, EvalRec!Below, Same, Before
  <1>4. \A n \in 1 .. N : \A u \in [1 .. N -> Auditable] : EvalStep(env, u, n) \in Auditable
    BY <1>2, EvalNodeType
  <1>5. Auditable # {} BY GenericDenyType
  <1>6. N \in Nat BY TreePositions
  <1>7. t \in [1 .. N -> Auditable] BY <1>3, <1>4, <1>5, <1>6, EvalRec!TableType
  <1>8. t = [n \in 1 .. N |-> EvalStep(env, t, n)] BY <1>3, <1>6, EvalRec!TableEquation
  <1> HIDE DEF N, t
  <1>9. \A n \in 1 .. N : t[n] = EvalNode(p[n], t, S) BY <1>2, <1>8
  <1> QED BY <1>1, <1>7, <1>9 DEF N

LEMMA PolicyKinds ==
  ASSUME NEW p, IsPolicy(p), NEW n \in 1 .. Len(p)
  PROVE  \/ p[n].kind = "permit" /\ p[n].outcome \in Outcomes
         \/ p[n].kind = "deny"
         \/ p[n].kind = "grant" /\ GrantNode(p[n])
         \/ p[n].kind = "all" /\ ArmsBefore(p[n].arms, n)
         \/ p[n].kind = "any" /\ ArmsBefore(p[n].arms, n)
         \/ p[n].kind = "or_else" /\ Before(p[n].primary, n) /\ Before(p[n].fallback, n)
  BY DEF IsPolicy, IsPolicyNode, GrantNode

-----------------------------------------------------------------------------
(***************************************************************************)
(* evaluate computes what the policy means.                                *)
(***************************************************************************)
ArmValues(at, arms) == {at[arms[i]] : i \in DOMAIN arms}

LEMMA MeaningKinds ==
  ASSUME NEW p, NEW at, NEW S
  PROVE  /\ p.kind = "permit" => MeaningNode(p, at, S) = p.outcome
         /\ p.kind = "deny" => MeaningNode(p, at, S) = Denied
         /\ p.kind = "grant" => MeaningNode(p, at, S) = IF Holds(p.condition, S) THEN p.outcome ELSE Denied
         /\ p.kind = "all" => MeaningNode(p, at, S) = AllEffect(ArmValues(at, p.arms))
         /\ p.kind = "any" => MeaningNode(p, at, S) = AnyEffect(ArmValues(at, p.arms))
         /\ p.kind = "or_else" =>
              MeaningNode(p, at, S) = IF at[p.primary] # Denied THEN at[p.primary] ELSE at[p.fallback]
  <1>1. p.kind = "permit" => MeaningNode(p, at, S) = p.outcome BY Zenon DEF MeaningNode
  <1>2. p.kind = "deny" => MeaningNode(p, at, S) = Denied BY Zenon DEF MeaningNode
  <1>3. p.kind = "grant" => MeaningNode(p, at, S) = IF Holds(p.condition, S) THEN p.outcome ELSE Denied
    BY Zenon DEF MeaningNode
  <1>4. p.kind = "or_else" =>
          MeaningNode(p, at, S) = IF at[p.primary] # Denied THEN at[p.primary] ELSE at[p.fallback]
    BY Zenon DEF MeaningNode
  <1> DEFINE X == ArmValues(at, p.arms)
  <1>5. p.kind = "all" =>
          MeaningNode(p, at, S) = IF X \ {Denied} = {} \/ Denied \in X THEN Denied
                                  ELSE GreatestLowerBound(X \ {Denied})
    BY Zenon DEF MeaningNode, ArmValues
  <1>6. p.kind = "any" =>
          MeaningNode(p, at, S) = IF X \ {Denied} = {} THEN Denied ELSE LeastUpperBound(X \ {Denied})
    BY Zenon DEF MeaningNode, ArmValues
  <1> HIDE DEF X
  <1>7. Denied \notin X => X \ {Denied} = X OBVIOUS
  <1>8. (IF X \ {Denied} = {} \/ Denied \in X THEN Denied ELSE GreatestLowerBound(X \ {Denied})) = AllEffect(X)
    BY <1>7 DEF AllEffect
  <1>9. p.kind = "all" => MeaningNode(p, at, S) = AllEffect(X) BY <1>5, <1>8
  <1>10. p.kind = "any" => MeaningNode(p, at, S) = AnyEffect(X) BY <1>6 DEF AnyEffect
  <1> QED BY <1>1, <1>2, <1>3, <1>4, <1>9, <1>10 DEF X

LEMMA MeaningLocal ==
  ASSUME NEW p, IsPolicy(p), NEW n \in 1 .. Len(p), NEW S, NEW u, NEW v, Same(u, v, n)
  PROVE  MeaningNode(p[n], u, S) = MeaningNode(p[n], v, S)
  <1> DEFINE x == p[n]
  <1> SUFFICES MeaningNode(x, u, S) = MeaningNode(x, v, S) OBVIOUS
  <1>1. CASE x.kind \in {"permit", "deny", "grant"}
    <2> HIDE DEF x
    <2> QED BY <1>1, MeaningKinds, Zenon
  <1>2. CASE x.kind = "or_else" /\ Before(x.primary, n) /\ Before(x.fallback, n)
    <2> HIDE DEF x
    <2>1. u[x.primary] = v[x.primary] /\ u[x.fallback] = v[x.fallback] BY <1>2 DEF Same
    <2> QED BY <1>2, <2>1, MeaningKinds, ZenonT(60)
  <1>3. CASE x.kind \in {"all", "any"} /\ ArmsBefore(x.arms, n)
    <2> HIDE DEF x
    <2>1. \A i \in DOMAIN x.arms : u[x.arms[i]] = v[x.arms[i]] BY <1>3, SameArms
    <2>2. ArmValues(u, x.arms) = ArmValues(v, x.arms) BY <2>1 DEF ArmValues
    <2> QED BY <1>3, <2>2, MeaningKinds, Zenon
  <1> QED BY <1>1, <1>2, <1>3, PolicyKinds

MeaningStep(env, at, n) == MeaningNode(env[1][n], at, env[2])
MeaningRec == INSTANCE Recursion WITH Step <- MeaningStep

LEMMA MeaningTableRec ==
  ASSUME NEW p, IsPolicy(p), NEW S
  PROVE  \A n \in 1 .. Len(p) : MeaningTable(p, S)[n] = MeaningNode(p[n], MeaningTable(p, S), S)
  <1> DEFINE env == <<p, S>>
             t == MeaningRec!Table(env, Len(p))
  <1>1. MeaningTable(p, S) = t BY Zenon DEF MeaningTable, MeaningRec!Table, MeaningStep
  <1>2. \A n, u : MeaningStep(env, u, n) = MeaningNode(p[n], u, S) BY Zenon DEF MeaningStep
  <1> HIDE DEF env
  <1>3. MeaningRec!Local(env, Len(p))
    BY <1>2, MeaningLocal DEF MeaningRec!Local, MeaningRec!Below, Same, Before
  <1>4. t = [n \in 1 .. Len(p) |-> MeaningStep(env, t, n)]
    BY <1>3, PolicyIsTree, TreePositions, MeaningRec!TableEquation
  <1> HIDE DEF t
  <1> QED BY <1>1, <1>2, <1>4

\* The effects an All or Any sees are those of its arms.
LEMMA ArmEffects ==
  ASSUME NEW t, NEW arms
  PROVE  Effects(At(t, arms)) = {t[arms[i]].effect : i \in DOMAIN arms}
  BY DEF Effects, At

\* The effect that evaluating a node has, in terms of its arms.
EffectOfNode(x, t, n, S) ==
  /\ x.kind = "permit" => t[n].effect = x.outcome
  /\ x.kind = "deny" => t[n].effect = Denied
  /\ x.kind = "grant" =>
       t[n].effect = IF EvalCondition(x.condition, S).satisfied THEN x.outcome ELSE Denied
  /\ x.kind = "all" => t[n].effect = AllEffect({t[x.arms[i]].effect : i \in DOMAIN x.arms})
  /\ x.kind = "any" => t[n].effect = AnyEffect({t[x.arms[i]].effect : i \in DOMAIN x.arms})
  /\ x.kind = "or_else" =>
       t[n].effect = IF t[x.primary].effect # Denied THEN t[x.primary].effect ELSE t[x.fallback].effect

LEMMA NodeEffects ==
  ASSUME NEW p, IsTree(p), NEW S, NEW n \in 1 .. Len(p)
  PROVE  EffectOfNode(p[n], EvalTable(p, S), n, S)
  <1> DEFINE t == EvalTable(p, S)
             x == p[n]
  <1>1. t \in [1 .. Len(p) -> Auditable] /\ t[n] = EvalNode(x, t, S) BY EvalTableRec
  <1>2. \/ x.kind = "permit" /\ x.outcome \in Outcomes
        \/ x.kind = "deny"
        \/ x.kind \in {"permit_trace", "deny_trace"}
        \/ x.kind = "grant" /\ GrantNode(x)
        \/ x.kind = "all" /\ ArmsBefore(x.arms, n)
        \/ x.kind = "any" /\ ArmsBefore(x.arms, n)
        \/ x.kind = "or_else" /\ Before(x.primary, n) /\ Before(x.fallback, n)
    BY TreeKinds
  <1>3. \A m : Before(m, n) => t[m] \in Auditable BY <1>1, TreePositions
  <1> HIDE DEF t, x
  <1> SUFFICES EffectOfNode(x, t, n, S) BY DEF x, t
  <1>4. CASE x.kind = "permit"
    <2>1. Decision(x.outcome, {}, "permit", {}, NoLabel).effect = x.outcome BY DEF Decision
    <2> QED BY <1>1, <1>4, <2>1, EvalKinds DEF EffectOfNode
  <1>5. CASE x.kind = "deny" BY <1>1, <1>5, EvalKinds, GenericDenyType DEF EffectOfNode
  <1>6. CASE x.kind = "grant" BY <1>1, <1>2, <1>6, EvalKinds, GrantType DEF EffectOfNode
  <1>7. CASE x.kind \in {"all", "any"}
    <2>1. ArmsBefore(x.arms, n) BY <1>2, <1>7
    <2> DEFINE arms == At(t, x.arms)
    <2>2. \A i \in DOMAIN arms : arms[i] \in Auditable BY <1>3, <2>1 DEF At, ArmsBefore
    <2>3. IsArms(arms) BY <2>1, AtIsArms
    <2>4. Effects(arms) = {t[x.arms[i]].effect : i \in DOMAIN x.arms} BY ArmEffects
    <2>5. x.kind = "all" => t[n] = EvalAll(arms) BY <1>1, EvalKinds
    <2>6. x.kind = "any" => t[n] = EvalAny(arms) BY <1>1, EvalKinds
    <2> HIDE DEF arms
    <2>7. EvalAll(arms).effect = AllEffect(Effects(arms)) /\ EvalAny(arms).effect = AnyEffect(Effects(arms))
      BY <2>2, <2>3, AllDecides, AnyDecides
    <2> QED BY <1>7, <2>4, <2>5, <2>6, <2>7 DEF EffectOfNode
  <1>8. CASE x.kind = "or_else"
    <2>1. t[x.primary] \in Auditable /\ t[x.fallback] \in Auditable BY <1>2, <1>3, <1>8
    <2>2. t[n] = EvalOrElse(t[x.primary], t[x.fallback]) BY <1>1, <1>8, EvalKinds
    <2> DEFINE d == t[x.primary]
               e == t[x.fallback]
    <2>3. d \in Auditable /\ e \in Auditable /\ t[n] = EvalOrElse(d, e) BY <2>1, <2>2
    <2> HIDE DEF d, e
    <2>4. t[n].effect = IF d.effect # Denied THEN d.effect ELSE e.effect BY <2>3, OrElseDecides
    <2> QED BY <1>8, <2>4 DEF EffectOfNode, d, e
  <1>9. CASE x.kind \in {"permit_trace", "deny_trace"} BY <1>9 DEF EffectOfNode
  <1> QED BY <1>2, <1>4, <1>5, <1>6, <1>7, <1>8, <1>9

LEMMA MeaningIsEffect ==
  ASSUME NEW p, IsPolicy(p), NEW S
  PROVE  \A n \in 1 .. Len(p) : EvalTable(p, S)[n].effect = MeaningTable(p, S)[n]
  <1> DEFINE N == Len(p)
             t == EvalTable(p, S)
             w == MeaningTable(p, S)
             G == {n \in 1 .. N : t[n].effect = w[n]}
  <1>1. IsTree(p) /\ N \in Nat BY PolicyIsTree, TreePositions
  <1>2. \A n \in 1 .. N : w[n] = MeaningNode(p[n], w, S) BY MeaningTableRec
  <1>3. ASSUME NEW n \in 1 .. N, \A m \in Nat : 1 <= m /\ m < n => m \in G PROVE n \in G
    <2>1. \A m : Before(m, n) => t[m].effect = w[m] BY <1>3 DEF Before
    <2> DEFINE x == p[n]
    <2>2. w[n] = MeaningNode(x, w, S) BY <1>2
    <2>3. \/ x.kind \in {"permit", "deny"}
          \/ x.kind = "grant" /\ GrantNode(x)
          \/ x.kind \in {"all", "any"} /\ ArmsBefore(x.arms, n)
          \/ x.kind = "or_else" /\ Before(x.primary, n) /\ Before(x.fallback, n)
      BY PolicyKinds
    <2>4. EffectOfNode(x, t, n, S) BY <1>1, NodeEffects
    <2> SUFFICES t[n].effect = w[n] OBVIOUS
    <2> HIDE DEF t, w, x, N
    <2>5. CASE x.kind \in {"permit", "deny"} BY <2>2, <2>4, <2>5, MeaningKinds DEF EffectOfNode
    <2>6. CASE x.kind = "grant" /\ GrantNode(x)
      <3>1. EvalCondition(x.condition, S).satisfied = Holds(x.condition, S)
        BY <2>6, ConditionDenotes, Trees DEF GrantNode, EvalCondition, Holds, Root
      <3> QED BY <2>2, <2>4, <2>6, <3>1, MeaningKinds DEF EffectOfNode
    <2>7. CASE x.kind \in {"all", "any"} /\ ArmsBefore(x.arms, n)
      <3>1. {t[x.arms[i]].effect : i \in DOMAIN x.arms} = ArmValues(w, x.arms)
        BY <2>1, <2>7 DEF ArmsBefore, ArmValues
      <3> QED BY <2>2, <2>4, <2>7, <3>1, MeaningKinds DEF EffectOfNode
    <2>8. CASE x.kind = "or_else" /\ Before(x.primary, n) /\ Before(x.fallback, n)
      BY <2>1, <2>2, <2>4, <2>8, MeaningKinds DEF EffectOfNode
    <2> QED BY <2>3, <2>5, <2>6, <2>7, <2>8
  <1> HIDE DEF G, N
  <1>4. 1 .. N \subseteq G BY <1>1, <1>3, MeaningRec!Positions
  <1> QED BY <1>4 DEF G, N

-----------------------------------------------------------------------------
(***************************************************************************)
(* required_facts, and what a decision says it consulted                   *)
(***************************************************************************)
LEMMA RequiredFactsKinds ==
  ASSUME NEW p, NEW at
  PROVE  /\ p.kind \in {"permit", "deny", "permit_trace", "deny_trace"} => RequiredFactsNode(p, at) = {}
         /\ p.kind = "grant" => RequiredFactsNode(p, at) = ConditionFacts(p.condition)
         /\ p.kind \in {"all", "any"} =>
              RequiredFactsNode(p, at) = UNION {at[p.arms[i]] : i \in DOMAIN p.arms}
         /\ p.kind = "or_else" => RequiredFactsNode(p, at) = at[p.primary] \union at[p.fallback]
  BY Zenon DEF RequiredFactsNode

LEMMA RequiredFactsLocal ==
  ASSUME NEW p, IsTree(p), NEW n \in 1 .. Len(p), NEW u, NEW v, Same(u, v, n)
  PROVE  RequiredFactsNode(p[n], u) = RequiredFactsNode(p[n], v)
  <1> DEFINE x == p[n]
  <1> SUFFICES RequiredFactsNode(x, u) = RequiredFactsNode(x, v) OBVIOUS
  <1>1. CASE x.kind \in {"permit", "deny", "permit_trace", "deny_trace", "grant"}
    <2> HIDE DEF x
    <2> QED BY <1>1, RequiredFactsKinds, Zenon
  <1>2. CASE x.kind = "or_else" /\ Before(x.primary, n) /\ Before(x.fallback, n)
    <2> HIDE DEF x
    <2>1. u[x.primary] = v[x.primary] /\ u[x.fallback] = v[x.fallback] BY <1>2 DEF Same
    <2> QED BY <1>2, <2>1, RequiredFactsKinds, Zenon
  <1>3. CASE x.kind \in {"all", "any"} /\ ArmsBefore(x.arms, n)
    <2> HIDE DEF x
    <2>1. \A i \in DOMAIN x.arms : u[x.arms[i]] = v[x.arms[i]] BY <1>3, SameArms
    <2>2. UNION {u[x.arms[i]] : i \in DOMAIN x.arms} = UNION {v[x.arms[i]] : i \in DOMAIN x.arms} BY <2>1
    <2> QED BY <1>3, <2>2, RequiredFactsKinds, Zenon
  <1> QED BY <1>1, <1>2, <1>3, TreeKinds

RequiredFactsStep(env, at, n) == RequiredFactsNode(env[n], at)
RequiredFactsRec == INSTANCE Recursion WITH Step <- RequiredFactsStep

LEMMA RequiredFactsTableRec ==
  ASSUME NEW p, IsTree(p)
  PROVE  \A n \in 1 .. Len(p) : RequiredFactsTable(p)[n] = RequiredFactsNode(p[n], RequiredFactsTable(p))
  <1> DEFINE t == RequiredFactsRec!Table(p, Len(p))
  <1>1. RequiredFactsTable(p) = t
    BY Zenon DEF RequiredFactsTable, RequiredFactsRec!Table, RequiredFactsStep
  <1>2. RequiredFactsRec!Local(p, Len(p))
    BY RequiredFactsLocal
    DEF RequiredFactsStep, RequiredFactsRec!Local, RequiredFactsRec!Below, Same, Before
  <1>3. t = [n \in 1 .. Len(p) |-> RequiredFactsStep(p, t, n)]
    BY <1>2, TreePositions, RequiredFactsRec!TableEquation
  <1> HIDE DEF t
  <1> QED BY <1>1, <1>3 DEF RequiredFactsStep

\* An All reads nothing behind the first denial.
LEMMA AllSame ==
  ASSUME NEW t, NEW u, NEW n, NEW arms, ArmsBefore(arms, n),
         \A i \in Visited(At(t, arms), Refusals(At(t, arms))) : u[arms[i]] = t[arms[i]]
  PROVE  EvalAll(At(u, arms)) = EvalAll(At(t, arms))
  <1> DEFINE a == At(t, arms)
             b == At(u, arms)
             D == DOMAIN arms
  <1>1. D \subseteq Nat BY DEF ArmsBefore
  <1>2. DOMAIN a = D /\ DOMAIN b = D /\ \A i \in D : a[i] = t[arms[i]] /\ b[i] = u[arms[i]] BY DEF At
  <1>3. a = <<>> <=> b = <<>> BY NoArms
  <1>4. \A i \in Visited(a, Refusals(a)) : b[i] = a[i] BY <1>2 DEF Visited
  <1>5. CASE Refusals(a) = {}
    <2>1. \A i \in D : u[arms[i]] = t[arms[i]] BY <1>2, <1>5 DEF Visited
    <2>2. a = b BY <2>1 DEF At
    <2> QED BY <2>2
  <1>6. CASE Refusals(a) # {}
    <2> HIDE DEF a, b, D
    <2>1. Refusals(a) \subseteq Nat /\ Refusals(a) \subseteq D /\ Refusals(b) \subseteq D
      BY <1>1, <1>2 DEF Refusals
    <2>2. PICK k \in Refusals(a) : \A j \in Refusals(a) : k <= j BY <1>6, <2>1, EvalRec!Least
    <2>3. k \in D /\ k \in Nat BY <2>1
    <2>4. Visited(a, Refusals(a)) = {i \in D : i <= k}
      <3>1. DOMAIN a \subseteq Nat /\ Refusals(a) \subseteq DOMAIN a BY <1>1, <1>2, <2>1
      <3>2. Visited(a, Refusals(a)) = {i \in DOMAIN a : i <= k} /\ Deciding(a, Refusals(a)) = {k}
        BY <2>2, <3>1, FirstHit, Zenon
      <3> QED BY <1>2, <3>2
    <2>5. \A i \in D : i <= k => b[i] = a[i] BY <1>4, <2>4
    <2>6. k \in Refusals(b) BY <1>2, <2>2, <2>3, <2>5 DEF Refusals
    <2>7. \A j \in Refusals(b) : k <= j
      <3> SUFFICES ASSUME NEW j \in Refusals(b), ~(k <= j) PROVE FALSE OBVIOUS
      <3>1. j \in D /\ j \in Nat /\ j <= k BY <1>1, <2>1, <2>3
      <3>2. j \in Refusals(a) BY <1>2, <2>5, <3>1 DEF Refusals
      <3> QED BY <2>2, <3>2
    <2>8. Visited(b, Refusals(b)) = {i \in D : i <= k}
      <3>1. DOMAIN b \subseteq Nat /\ Refusals(b) \subseteq DOMAIN b BY <1>1, <1>2, <2>1
      <3>2. Visited(b, Refusals(b)) = {i \in DOMAIN b : i <= k} /\ Deciding(b, Refusals(b)) = {k}
        BY <2>6, <2>7, <3>1, FirstHit, Zenon
      <3> QED BY <1>2, <3>2
    <2>9. Min(Refusals(a)) = k /\ Min(Refusals(b)) = k
      <3>1. Refusals(b) \subseteq Nat BY <1>1, <2>1
      <3>2. /\ Min(Refusals(a)) \in Refusals(a) /\ Min(Refusals(a)) <= k
            /\ Min(Refusals(b)) \in Refusals(b) /\ Min(Refusals(b)) <= k
        BY <1>6, <2>1, <2>2, <2>6, <3>1, MinOf
      <3>3. k <= Min(Refusals(a)) /\ k <= Min(Refusals(b)) BY <2>2, <2>7, <3>2
      <3>4. Min(Refusals(a)) \in Nat /\ Min(Refusals(b)) \in Nat BY <2>1, <3>1, <3>2
      <3> QED BY <2>3, <3>2, <3>3, <3>4
    <2>10. Consulted(b, {i \in D : i <= k}) = Consulted(a, {i \in D : i <= k}) BY <2>5 DEF Consulted
    <2>11. a[k] = b[k] BY <2>3, <2>5
    <2>12. a # <<>> /\ b # <<>>
      <3>1. D # {} BY <2>3
      <3> QED BY <3>1, NoArms DEF a, b, D
    <2>13. EvalAll(a) = WithConsulted(a[k], Consulted(a, {i \in D : i <= k}))
      BY <1>6, <2>4, <2>9, <2>12, EvalAllIs
    <2>14. EvalAll(b) = WithConsulted(b[k], Consulted(b, {i \in D : i <= k}))
      BY <2>6, <2>8, <2>9, <2>12, EvalAllIs
    <2>15. EvalAll(a) = EvalAll(b) BY <2>10, <2>11, <2>13, <2>14, Zenon
    <2> QED BY <2>15 DEF a, b
  <1> QED BY <1>5, <1>6

LEMMA AllConsults ==
  ASSUME NEW arms, IsArms(arms), \A i \in DOMAIN arms : arms[i] \in Auditable
  PROVE  /\ \A i \in Visited(arms, Refusals(arms)) : arms[i].consulted \subseteq EvalAll(arms).consulted
         /\ EvalAll(arms).consulted \subseteq UNION {arms[i].consulted : i \in DOMAIN arms}
  <1>1. CASE arms = <<>>
    <2>1. EvalAll(arms).consulted = {} BY <1>1, GenericDenyType DEF EvalAll
    <2>2. DOMAIN arms = {} BY <1>1 DEF IsArms
    <2> QED BY <2>1, <2>2 DEF Visited
  <1>2. CASE arms # <<>>
    <2> DEFINE d == IF Refusals(arms) = {} THEN CommonPermit(arms) ELSE arms[Min(Refusals(arms))]
               X == Consulted(arms, Visited(arms, Refusals(arms)))
    <2>1. EvalAll(arms) = WithConsulted(d, X) BY <1>2, EvalAllIs, Zenon
    <2>2. X \subseteq Facts BY ConsultedType DEF Visited
    <2>3. d \in Auditable
      <3>1. CASE Refusals(arms) = {}
        <4>1. \A i \in DOMAIN arms : arms[i] \in PermitDecisions BY <3>1, Auditing DEF Refusals
        <4>2. CommonPermit(arms) \in PermitDecisions BY <1>2, <4>1, CommonMeets
        <4> QED BY <3>1, <4>2 DEF PermitDecisions
      <3>2. CASE Refusals(arms) # {}
        <4>1. Refusals(arms) \subseteq Nat BY DEF Refusals, IsArms
        <4>2. Min(Refusals(arms)) \in Refusals(arms) BY <3>2, <4>1, MinOf
        <4> QED BY <3>2, <4>2 DEF Refusals
      <3> QED BY <3>1, <3>2
    <2> HIDE DEF d
    <2>4. EvalAll(arms).consulted = X BY <2>1, <2>2, <2>3, WithConsultedType
    <2> QED BY <2>4 DEF Consulted, Visited
  <1> QED BY <1>1, <1>2

LEMMA AnyConsults ==
  ASSUME NEW arms, IsArms(arms), \A i \in DOMAIN arms : arms[i] \in Auditable
  PROVE  EvalAny(arms).consulted = UNION {arms[i].consulted : i \in DOMAIN arms}
  <1>1. CASE arms = <<>>
    <2>1. EvalAny(arms).consulted = {} BY <1>1, GenericDenyType DEF EvalAny
    <2>2. DOMAIN arms = {} BY <1>1 DEF IsArms
    <2> QED BY <2>1, <2>2
  <1>2. CASE arms # <<>>
    <2>1. EvalAny(arms) = WithConsulted(WinningPermit(arms), Consulted(arms, DOMAIN arms))
      BY <1>2 DEF EvalAny
    <2>2. Consulted(arms, DOMAIN arms) \subseteq Facts BY ConsultedType
    <2>3. WinningPermit(arms) \in Auditable BY <1>2, WinningJoins
    <2>4. EvalAny(arms).consulted = Consulted(arms, DOMAIN arms) BY <2>1, <2>2, <2>3, WithConsultedType
    <2> QED BY <2>4 DEF Consulted
  <1> QED BY <1>1, <1>2

LEMMA DecisionConsulted ==
  ASSUME NEW p, IsTree(p), NEW S, NEW T
  PROVE  \A n \in 1 .. Len(p) :
           /\ (\A m \in 1 .. Len(p) : p[m].kind \in {"permit_trace", "deny_trace"} => p[m].decision.consulted = {})
                => EvalTable(p, S)[n].consulted \subseteq RequiredFactsTable(p)[n]
           /\ Agree(S, T, EvalTable(p, S)[n].consulted) => EvalTable(p, T)[n] = EvalTable(p, S)[n]
  <1> DEFINE N == Len(p)
             t == EvalTable(p, S)
             u == EvalTable(p, T)
             f == RequiredFactsTable(p)
             Plain == \A m \in 1 .. N : p[m].kind \in {"permit_trace", "deny_trace"} => p[m].decision.consulted = {}
             Good(n) == /\ Plain => t[n].consulted \subseteq f[n]
                        /\ Agree(S, T, t[n].consulted) => u[n] = t[n]
             G == {n \in 1 .. N : Good(n)}
  <1>1. /\ t \in [1 .. N -> Auditable] /\ \A n \in 1 .. N : t[n] = EvalNode(p[n], t, S)
        /\ \A n \in 1 .. N : u[n] = EvalNode(p[n], u, T)
    BY EvalTableRec
  <1>2. \A n \in 1 .. N : f[n] = RequiredFactsNode(p[n], f) BY RequiredFactsTableRec
  <1>3. N \in Nat BY TreePositions
  <1>4. ASSUME NEW n \in 1 .. N, \A m \in Nat : 1 <= m /\ m < n => m \in G PROVE n \in G
    <2>1. \A m : Before(m, n) => Good(m) /\ t[m] \in Auditable BY <1>1, <1>4, TreePositions DEF Before
    <2> DEFINE x == p[n]
    <2>2. t[n] = EvalNode(x, t, S) /\ u[n] = EvalNode(x, u, T) /\ t[n] \in Auditable BY <1>1
    <2>3. f[n] = RequiredFactsNode(x, f) BY <1>2
    <2>4. \/ x.kind = "permit" \/ x.kind = "deny"
          \/ x.kind \in {"permit_trace", "deny_trace"}
          \/ x.kind = "grant" /\ GrantNode(x)
          \/ x.kind = "all" /\ ArmsBefore(x.arms, n)
          \/ x.kind = "any" /\ ArmsBefore(x.arms, n)
          \/ x.kind = "or_else" /\ Before(x.primary, n) /\ Before(x.fallback, n)
      BY TreeKinds
    <2>5. Plain => (x.kind \in {"permit_trace", "deny_trace"} => x.decision.consulted = {}) OBVIOUS
    <2> SUFFICES Good(n) OBVIOUS
    <2> HIDE DEF N, t, u, f, x, Plain
    <2>6. CASE x.kind \in {"permit", "deny"}
      <3>1. Decision(x.outcome, {}, "permit", {}, NoLabel).consulted = {} BY DEF Decision
      <3> QED BY <2>2, <2>6, <3>1, EvalKinds, GenericDenyType
    <2>7. CASE x.kind \in {"permit_trace", "deny_trace"}
      BY <2>2, <2>5, <2>7, EvalKinds
    <2>8. CASE x.kind = "grant" /\ GrantNode(x)
      <3> DEFINE e == EvalCondition(x.condition, S)
      <3>1. t[n] = EvalGrant(x, S) /\ u[n] = EvalGrant(x, T) BY <2>2, <2>8, EvalKinds
      <3>2. t[n].consulted = e.consulted BY <2>8, <3>1, GrantType
      <3>3. f[n] = ConditionFacts(x.condition) BY <2>3, <2>8, RequiredFactsKinds
      <3>4. /\ e.consulted \subseteq ConditionFacts(x.condition)
            /\ Agree(S, T, e.consulted) => EvalCondition(x.condition, T) = e
        BY <2>8, RootConsulted DEF GrantNode
      <3>5. EvalCondition(x.condition, T) = EvalCondition(x.condition, S) => EvalGrant(x, S) = EvalGrant(x, T)
        BY Zenon DEF EvalGrant
      <3> QED BY <3>1, <3>2, <3>3, <3>4, <3>5
    <2>9. CASE x.kind \in {"all", "any"} /\ ArmsBefore(x.arms, n)
      <3> DEFINE arms == At(t, x.arms)
      <3>1. /\ DOMAIN arms = DOMAIN x.arms
            /\ \A i \in DOMAIN arms : arms[i] = t[x.arms[i]] /\ arms[i] \in Auditable
        BY <2>1, <2>9 DEF At, ArmsBefore
      <3>2. IsArms(arms) BY <2>9, AtIsArms
      <3>3. \A i \in DOMAIN x.arms : Good(x.arms[i]) BY <2>1, <2>9 DEF ArmsBefore
      <3>4. f[n] = UNION {f[x.arms[i]] : i \in DOMAIN x.arms} BY <2>3, <2>9, RequiredFactsKinds
      <3>5. ASSUME t[n].consulted \subseteq UNION {arms[i].consulted : i \in DOMAIN arms}
            PROVE  Plain => t[n].consulted \subseteq f[n]
        <4> HIDE DEF arms
        <4> QED BY <3>1, <3>3, <3>4, <3>5
      <3>6. ASSUME Agree(S, T, t[n].consulted), NEW i \in DOMAIN x.arms, arms[i].consulted \subseteq t[n].consulted
            PROVE  u[x.arms[i]] = t[x.arms[i]]
        <4>1. t[x.arms[i]].consulted \subseteq t[n].consulted BY <3>1, <3>6
        <4>2. Agree(S, T, t[x.arms[i]].consulted) BY <3>6, <4>1, AgreeOnPart
        <4> QED BY <3>3, <3>6, <4>2
      <3>7. CASE x.kind = "all"
        <4>1. t[n] = EvalAll(arms) /\ u[n] = EvalAll(At(u, x.arms)) BY <2>2, <3>7, EvalKinds
        <4>2. /\ \A i \in Visited(arms, Refusals(arms)) : arms[i].consulted \subseteq t[n].consulted
              /\ t[n].consulted \subseteq UNION {arms[i].consulted : i \in DOMAIN arms}
          BY <3>1, <3>2, <4>1, AllConsults
        <4>3. ASSUME Agree(S, T, t[n].consulted) PROVE u[n] = t[n]
          <5>1. \A i \in Visited(arms, Refusals(arms)) : u[x.arms[i]] = t[x.arms[i]]
            BY <3>1, <3>6, <4>2, <4>3 DEF Visited
          <5>2. EvalAll(At(u, x.arms)) = EvalAll(arms) BY <2>9, <5>1, AllSame
          <5> QED BY <4>1, <5>2
        <4> QED BY <3>5, <4>2, <4>3
      <3>8. CASE x.kind = "any"
        <4>1. t[n] = EvalAny(arms) /\ u[n] = EvalAny(At(u, x.arms)) BY <2>2, <3>8, EvalKinds
        <4>2. t[n].consulted = UNION {arms[i].consulted : i \in DOMAIN arms}
          BY <3>1, <3>2, <4>1, AnyConsults
        <4>3. ASSUME Agree(S, T, t[n].consulted) PROVE u[n] = t[n]
          <5>1. \A i \in DOMAIN arms : arms[i].consulted \subseteq t[n].consulted BY <4>2
          <5>2. \A i \in DOMAIN x.arms : u[x.arms[i]] = t[x.arms[i]]
            BY <3>1, <3>6, <4>3, <5>1
          <5>3. At(u, x.arms) = arms BY <5>2 DEF At
          <5> QED BY <4>1, <5>3
        <4> QED BY <3>5, <4>2, <4>3
      <3> QED BY <2>9, <3>7, <3>8
    <2>10. CASE x.kind = "or_else" /\ Before(x.primary, n) /\ Before(x.fallback, n)
      <3> DEFINE d == t[x.primary]
                 e == t[x.fallback]
      <3>1. d \in Auditable /\ e \in Auditable /\ Good(x.primary) /\ Good(x.fallback) BY <2>1, <2>10
      <3>2. t[n] = EvalOrElse(d, e) /\ u[n] = EvalOrElse(u[x.primary], u[x.fallback])
        BY <2>2, <2>10, EvalKinds
      <3>3. f[n] = f[x.primary] \union f[x.fallback] BY <2>3, <2>10, RequiredFactsKinds
      <3>4. CASE IsPermit(d)
        <4>1. d.effect # Denied BY <3>4 DEF IsPermit
        <4>2. t[n].consulted = d.consulted BY <3>1, <3>2, <4>1, OrElseDecides
        <4>3. u[x.primary] = d => u[n] = t[n] BY <3>2, <3>4 DEF EvalOrElse
        <4> QED BY <3>1, <3>3, <4>2, <4>3
      <3>5. CASE ~IsPermit(d)
        <4>1. d.effect = Denied BY <3>5 DEF IsPermit
        <4>2. t[n].consulted = d.consulted \union e.consulted BY <3>1, <3>2, <4>1, OrElseDecides
        <4>3. u[x.primary] = d /\ u[x.fallback] = e => u[n] = t[n] BY <3>2
        <4>4. Agree(S, T, t[n].consulted) => Agree(S, T, d.consulted) /\ Agree(S, T, e.consulted)
          BY <4>2, AgreeOnPart
        <4> QED BY <3>1, <3>3, <4>2, <4>3, <4>4
      <3> QED BY <3>4, <3>5
    <2> QED BY <2>4, <2>6, <2>7, <2>8, <2>9, <2>10
  <1> HIDE DEF G, N
  <1>5. 1 .. N \subseteq G BY <1>3, <1>4, EvalRec!Positions
  <1> QED BY <1>5 DEF G, N

-----------------------------------------------------------------------------
(***************************************************************************)
(* The arms a reduction keeps                                              *)
(***************************************************************************)
KeptStep(env, at, i) ==
  IF i \in env[2] THEN Append(KeptBefore(at, i), env[1][i]) ELSE KeptBefore(at, i)
KeptRec == INSTANCE Recursion WITH Step <- KeptStep

\* What Kept holds are the elements of s at the positions in I.
LEMMA KeptElements ==
  ASSUME NEW s \in Seq(Nat), NEW I
  PROVE  /\ Kept(s, I) \in Seq(Nat)
         /\ \A j \in DOMAIN Kept(s, I) : \E i \in DOMAIN s : i \in I /\ Kept(s, I)[j] = s[i]
         /\ \A i \in DOMAIN s : i \in I => \E j \in DOMAIN Kept(s, I) : Kept(s, I)[j] = s[i]
  <1> DEFINE env == <<s, I>>
             N == Len(s)
             t == KeptRec!Table(env, N)
  <1>1. /\ s # <<>> => Kept(s, I) = t[N]
        /\ s = <<>> => Kept(s, I) = <<>>
    BY Zenon DEF Kept, KeptRec!Table, KeptStep
  <1>2. \A i, u : KeptStep(env, u, i) = IF i \in I THEN Append(KeptBefore(u, i), s[i]) ELSE KeptBefore(u, i)
    BY Zenon DEF KeptStep
  <1>3. N \in Nat /\ DOMAIN s = 1 .. N /\ (s = <<>> <=> N = 0) OBVIOUS
  <1> HIDE DEF env
  <1>4. KeptRec!Local(env, N)
    <2> SUFFICES ASSUME NEW i \in 1 .. N, NEW u, NEW v, KeptRec!Below(u, v, i)
                 PROVE  KeptStep(env, u, i) = KeptStep(env, v, i)
      BY DEF KeptRec!Local
    <2>1. KeptBefore(u, i) = KeptBefore(v, i) BY <1>3 DEF KeptBefore, KeptRec!Below
    <2> QED BY <1>2, <2>1
  <1>5. t = [i \in 1 .. N |-> KeptStep(env, t, i)] BY <1>3, <1>4, KeptRec!TableEquation
  <1> HIDE DEF N, t
  <1> DEFINE Good(k, m) == /\ k \in Seq(Nat)
                           /\ \A j \in DOMAIN k : \E i \in 1 .. m : i \in I /\ k[j] = s[i]
                           /\ \A i \in 1 .. m : i \in I => \E j \in DOMAIN k : k[j] = s[i]
             G == {i \in 1 .. N : Good(t[i], i)}
  <1>6. ASSUME NEW i \in 1 .. N, \A m \in Nat : 1 <= m /\ m < i => m \in G PROVE i \in G
    <2>1. PICK l \in Nat : i = l + 1 BY <1>3
    <2> DEFINE k == KeptBefore(t, i)
    <2>2. Good(k, l)
      <3>1. CASE l = 0
        <4>1. k = <<>> BY <2>1, <3>1 DEF KeptBefore
        <4>2. 1 .. l = {} BY <3>1
        <4> HIDE DEF k
        <4> QED BY <4>1, <4>2
      <3>2. CASE l # 0
        <4>1. 1 <= l /\ l < i BY <2>1, <3>2
        <4>3. l \in G BY <1>6, <4>1, Zenon
        <4>2. k = t[l] BY <2>1, <3>2 DEF KeptBefore
        <4> QED BY <4>2, <4>3
      <3> QED BY <3>1, <3>2
    <2>3. t[i] = IF i \in I THEN Append(k, s[i]) ELSE k BY <1>2, <1>5
    <2>4. \A j : j \in 1 .. i <=> j \in 1 .. l \/ j = i BY <1>3, <2>1
    <2>5. s[i] \in Nat BY <1>3
    <2> HIDE DEF k
    <2>6. CASE i \notin I
      <3>1. t[i] = k BY <2>3, <2>6
      <3> QED BY <2>2, <2>4, <2>6, <3>1
    <2>7. CASE i \in I
      <3> DEFINE a == Append(k, s[i])
      <3>1. t[i] = a BY <2>3, <2>7
      <3>2. a \in Seq(Nat) /\ Len(a) = Len(k) + 1 BY <2>2, <2>5
      <3>3. \A j \in 1 .. Len(k) : a[j] = k[j] BY <2>2, <2>5
      <3>4. a[Len(a)] = s[i] BY <2>2, <2>5
      <3>5. DOMAIN k = 1 .. Len(k) /\ Len(k) \in Nat /\ DOMAIN a = 1 .. Len(a) BY <2>2, <3>2
      <3> HIDE DEF a
      <3>8. \A j : j \in DOMAIN a <=> j \in DOMAIN k \/ j = Len(a) BY <3>2, <3>5
      <3>6. \A j \in DOMAIN a : \E m \in 1 .. i : m \in I /\ a[j] = s[m]
        <4> SUFFICES ASSUME NEW j \in DOMAIN a PROVE \E m \in 1 .. i : m \in I /\ a[j] = s[m]
          OBVIOUS
        <4>1. CASE j = Len(a) BY <2>4, <2>7, <3>4, <4>1
        <4>2. CASE j \in DOMAIN k
          <5>1. PICK m \in 1 .. l : m \in I /\ k[j] = s[m] BY <2>2, <4>2
          <5>2. a[j] = k[j] BY <3>3, <3>5, <4>2
          <5> QED BY <2>4, <5>1, <5>2
        <4> QED BY <3>8, <4>1, <4>2
      <3>7. \A m \in 1 .. i : m \in I => \E j \in DOMAIN a : a[j] = s[m]
        <4> SUFFICES ASSUME NEW m \in 1 .. i, m \in I PROVE \E j \in DOMAIN a : a[j] = s[m]
          OBVIOUS
        <4>1. CASE m = i BY <3>4, <3>8, <4>1
        <4>2. CASE m \in 1 .. l
          <5>1. PICK j \in DOMAIN k : k[j] = s[m] BY <2>2, <4>2
          <5>2. a[j] = k[j] /\ j \in DOMAIN a BY <3>3, <3>5, <3>8
          <5> QED BY <5>1, <5>2
        <4> QED BY <2>4, <4>1, <4>2
      <3> QED BY <3>1, <3>2, <3>6, <3>7
    <2> QED BY <2>6, <2>7
  <1> HIDE DEF G
  <1>7. 1 .. N \subseteq G BY <1>3, <1>6, KeptRec!Positions
  <1>8. CASE s = <<>>
    <2>1. Kept(s, I) = <<>> BY <1>1, <1>8
    <2>2. DOMAIN s = {} BY <1>3, <1>8
    <2> QED BY <2>1, <2>2
  <1>9. CASE s # <<>>
    <2>1. Kept(s, I) = t[N] BY <1>1, <1>9
    <2>2. N \in G BY <1>3, <1>7, <1>9
    <2> QED BY <1>3, <2>1, <2>2 DEF G
  <1> QED BY <1>8, <1>9

-----------------------------------------------------------------------------
(***************************************************************************)
(* reduce_condition                                                        *)
(***************************************************************************)
LEMMA ReduceConditionKinds ==
  ASSUME NEW c, NEW at, NEW pf
  PROVE  /\ c.kind = "always" => ReduceConditionNode(c, at, pf) = KnownCondition(TRUE, {})
         /\ c.kind = "never" => ReduceConditionNode(c, at, pf) = KnownCondition(FALSE, {})
         /\ c.kind = "has" /\ c.fact \in Unknown(pf) =>
              ReduceConditionNode(c, at, pf) = PendingCondition(c, {})
         /\ c.kind = "has" /\ c.fact \notin Unknown(pf) =>
              ReduceConditionNode(c, at, pf) = KnownCondition(c.fact \in Present(pf), {c.fact})
         /\ c.kind = "not" /\ at[c.arm].known =>
              ReduceConditionNode(c, at, pf) = KnownCondition(~at[c.arm].satisfied, at[c.arm].consulted)
         /\ c.kind = "not" /\ ~at[c.arm].known =>
              ReduceConditionNode(c, at, pf) = PendingCondition(c, at[c.arm].consulted)
         /\ c.kind = "all" => ReduceConditionNode(c, at, pf) = ReduceArms(c, at, FALSE)
         /\ c.kind = "any" => ReduceConditionNode(c, at, pf) = ReduceArms(c, at, TRUE)
  BY Zenon DEF ReduceConditionNode

\* Which arms are still open, as positions.
LEMMA PendingPositions ==
  ASSUME NEW c, NEW at, NEW n, ArmsBefore(c.arms, n)
  PROVE  /\ ArmsBefore(PendingArms(c, at), n)
         /\ PendingArms(c, at) \in Seq(Nat)
         /\ \A j \in DOMAIN PendingArms(c, at) :
              \E i \in DOMAIN c.arms : PendingArms(c, at)[j] = c.arms[i] /\ ~at[c.arms[i]].known
         /\ \A i \in DOMAIN c.arms : ~at[c.arms[i]].known =>
              \E j \in DOMAIN PendingArms(c, at) : PendingArms(c, at)[j] = c.arms[i]
  <1> DEFINE I == {i \in DOMAIN c.arms : ~at[c.arms[i]].known}
  <1>1. c.arms \in Seq(Nat) BY DEF ArmsBefore
  <1>2. PendingArms(c, at) = Kept(c.arms, I) BY DEF PendingArms
  <1>3. /\ Kept(c.arms, I) \in Seq(Nat)
        /\ \A j \in DOMAIN Kept(c.arms, I) : \E i \in DOMAIN c.arms : i \in I /\ Kept(c.arms, I)[j] = c.arms[i]
        /\ \A i \in DOMAIN c.arms : i \in I => \E j \in DOMAIN Kept(c.arms, I) : Kept(c.arms, I)[j] = c.arms[i]
    <2> HIDE DEF I
    <2> QED BY <1>1, KeptElements
  <1> DEFINE k == Kept(c.arms, I)
  <1>4. ArmsBefore(k, n)
    <2>1. \A j \in DOMAIN k : Before(k[j], n)
      <3> HIDE DEF k
      <3> QED BY <1>3 DEF ArmsBefore, k
    <2> QED BY <1>3, <2>1 DEF ArmsBefore
  <1>5. \A i \in DOMAIN c.arms : i \in I <=> ~at[c.arms[i]].known OBVIOUS
  <1> HIDE DEF I
  <1>6. /\ \A j \in DOMAIN k : \E i \in DOMAIN c.arms : k[j] = c.arms[i] /\ ~at[c.arms[i]].known
        /\ \A i \in DOMAIN c.arms : ~at[c.arms[i]].known => \E j \in DOMAIN k : k[j] = c.arms[i]
    <2> HIDE DEF k
    <2> QED BY <1>3, <1>5 DEF k
  <1> QED BY <1>2, <1>3, <1>4, <1>6

ArmsReduced(c, at, stop, hits, pending, consulted) ==
  /\ hits # {} \/ pending = <<>> =>
       ReduceArms(c, at, stop) = KnownCondition(c.arms # <<>> /\ (stop <=> hits # {}), consulted)
  /\ hits = {} /\ pending # <<>> /\ Len(pending) = 1 =>
       ReduceArms(c, at, stop) = PendingCondition(at[pending[1]].residual, consulted)
  /\ hits = {} /\ pending # <<>> /\ Len(pending) # 1 =>
       ReduceArms(c, at, stop) = PendingCondition([kind |-> c.kind, arms |-> pending], consulted)

LEMMA ReduceArmsCases ==
  ASSUME NEW c, NEW at, NEW stop
  PROVE  ArmsReduced(c, at, stop, KnownHits(At(at, c.arms), stop), PendingArms(c, at),
                     Consulted(At(at, c.arms), Visited(At(at, c.arms), KnownHits(At(at, c.arms), stop))))
  BY Zenon DEF ReduceArms, ArmsReduced

LEMMA ReduceConditionLocal ==
  ASSUME NEW c, NEW n, IsConditionNode(c, n), NEW pf, NEW u, NEW v, Same(u, v, n)
  PROVE  ReduceConditionNode(c, u, pf) = ReduceConditionNode(c, v, pf)
  <1>1. CASE c.kind \in {"always", "never"} BY <1>1, ReduceConditionKinds
  <1>2. CASE c.kind = "has" BY <1>2, ReduceConditionKinds
  <1>3. CASE c.kind = "not" /\ Before(c.arm, n)
    <2>1. u[c.arm] = v[c.arm] BY <1>3 DEF Same
    <2> QED BY <1>3, <2>1, ReduceConditionKinds, ZenonT(60)
  <1>4. CASE c.kind \in {"all", "any"} /\ ArmsBefore(c.arms, n)
    <2>1. At(u, c.arms) = At(v, c.arms) /\ \A i \in DOMAIN c.arms : u[c.arms[i]] = v[c.arms[i]]
      BY <1>4, SameArms
    <2>2. PendingArms(c, u) = PendingArms(c, v)
      <3>1. {i \in DOMAIN c.arms : ~u[c.arms[i]].known} = {i \in DOMAIN c.arms : ~v[c.arms[i]].known} BY <2>1
      <3> QED BY <3>1 DEF PendingArms
    <2>3. Len(PendingArms(c, u)) = 1 => u[PendingArms(c, u)[1]] = v[PendingArms(c, u)[1]]
      <3>1. ArmsBefore(PendingArms(c, u), n) /\ PendingArms(c, u) \in Seq(Nat) BY <1>4, PendingPositions
      <3>2. Len(PendingArms(c, u)) = 1 => 1 \in DOMAIN PendingArms(c, u) BY <3>1
      <3> QED BY <3>1, <3>2 DEF ArmsBefore, Same
    <2>4. \A stop : ReduceArms(c, u, stop) = ReduceArms(c, v, stop)
      <3> SUFFICES ASSUME NEW stop PROVE ReduceArms(c, u, stop) = ReduceArms(c, v, stop) OBVIOUS
      <3> DEFINE hits == KnownHits(At(u, c.arms), stop)
                 pending == PendingArms(c, u)
                 consulted == Consulted(At(u, c.arms), Visited(At(u, c.arms), hits))
      <3>1. ArmsReduced(c, u, stop, hits, pending, consulted) BY ReduceArmsCases
      <3>2. ArmsReduced(c, v, stop, hits, pending, consulted) BY <2>1, <2>2, ReduceArmsCases
      <3>3. Len(pending) = 1 => u[pending[1]] = v[pending[1]] BY <2>3
      <3> HIDE DEF hits, pending, consulted
      <3> QED BY <3>1, <3>2, <3>3 DEF ArmsReduced
    <2> QED BY <1>4, <2>4, ReduceConditionKinds
  <1> QED BY <1>1, <1>2, <1>3, <1>4, ConditionKinds

ReduceConditionStep(env, at, n) == ReduceConditionNode(env[1][n], at, env[2])
ReduceConditionRec == INSTANCE Recursion WITH Step <- ReduceConditionStep

LEMMA ReduceConditionTableRec ==
  ASSUME NEW c, IsCondition(c), NEW pf
  PROVE  \A n \in 1 .. Len(c) :
           ReduceConditionTable(c, pf)[n] = ReduceConditionNode(c[n], ReduceConditionTable(c, pf), pf)
  <1> DEFINE env == <<c, pf>>
             t == ReduceConditionRec!Table(env, Len(c))
  <1>1. ReduceConditionTable(c, pf) = t
    BY Zenon DEF ReduceConditionTable, ReduceConditionRec!Table, ReduceConditionStep
  <1>2. \A n, u : ReduceConditionStep(env, u, n) = ReduceConditionNode(c[n], u, pf)
    BY Zenon DEF ReduceConditionStep
  <1> HIDE DEF env
  <1>3. ReduceConditionRec!Local(env, Len(c))
    BY <1>2, Trees, ReduceConditionLocal DEF ReduceConditionRec!Local, ReduceConditionRec!Below, Same, Before
  <1>4. t = [n \in 1 .. Len(c) |-> ReduceConditionStep(env, t, n)]
    BY <1>3, Trees, ReduceConditionRec!TableEquation
  <1> HIDE DEF t
  <1> QED BY <1>1, <1>2, <1>4

LEMMA ReducedFields ==
  /\ \A b, k : LET r == KnownCondition(b, k) IN r.known = TRUE /\ r.satisfied = b /\ r.consulted = k
  /\ \A x, k : LET r == PendingCondition(x, k) IN r.known = FALSE /\ r.residual = x /\ r.consulted = k
  BY DEF KnownCondition, PendingCondition

LEMMA LaterNode ==
  ASSUME NEW c, NEW m, NEW n \in Nat, IsConditionNode(c, m), Before(m, n)
  PROVE  IsConditionNode(c, n)
  BY DEF IsConditionNode, ArmsBefore, Before

\* What a condition was reduced to can stand at its position and asks for
\* unknown facts only.
ReducedCondition(r, n, pf) ==
  /\ r.consulted \subseteq Facts /\ r.known \in BOOLEAN
  /\ r.known => r.satisfied \in BOOLEAN
  /\ ~r.known => IsConditionNode(r.residual, n) /\ (r.residual.kind = "has" => r.residual.fact \in Unknown(pf))

LEMMA ReducedConditionType ==
  ASSUME NEW c, IsCondition(c), NEW pf
  PROVE  \A n \in 1 .. Len(c) : ReducedCondition(ReduceConditionTable(c, pf)[n], n, pf)
  <1> DEFINE N == Len(c)
             r == ReduceConditionTable(c, pf)
             G == {n \in 1 .. N : ReducedCondition(r[n], n, pf)}
  <1>1. N \in Nat /\ \A n \in 1 .. N : r[n] = ReduceConditionNode(c[n], r, pf)
    BY Trees, ReduceConditionTableRec
  <1>2. ASSUME NEW n \in 1 .. N, \A m \in Nat : 1 <= m /\ m < n => m \in G PROVE n \in G
    <2>1. \A m : Before(m, n) => ReducedCondition(r[m], m, pf) BY <1>2 DEF Before
    <2> DEFINE x == c[n]
    <2>2. IsConditionNode(x, n) /\ n \in Nat BY <1>1, Trees
    <2>3. r[n] = ReduceConditionNode(x, r, pf) BY <1>1
    <2> SUFFICES ReducedCondition(r[n], n, pf) OBVIOUS
    <2> HIDE DEF N, r, x
    <2>4. CASE x.kind \in {"always", "never"}
      <3>1. \E b \in BOOLEAN : r[n] = KnownCondition(b, {}) BY <2>3, <2>4, ReduceConditionKinds
      <3> QED BY <3>1 DEF KnownCondition, ReducedCondition
    <2>5. CASE x.kind = "has" /\ x.fact \in Facts
      <3>1. CASE x.fact \in Unknown(pf)
        <4>1. r[n] = PendingCondition(x, {}) BY <2>3, <2>5, <3>1, ReduceConditionKinds
        <4> QED BY <2>2, <3>1, <4>1 DEF PendingCondition, ReducedCondition
      <3>2. CASE x.fact \notin Unknown(pf)
        <4>1. r[n] = KnownCondition(x.fact \in Present(pf), {x.fact}) BY <2>3, <2>5, <3>2, ReduceConditionKinds
        <4> QED BY <2>5, <4>1 DEF KnownCondition, ReducedCondition
      <3> QED BY <3>1, <3>2
    <2>6. CASE x.kind = "not" /\ Before(x.arm, n)
      <3>1. ReducedCondition(r[x.arm], x.arm, pf) BY <2>1, <2>6
      <3>2. CASE r[x.arm].known
        <4>1. r[n] = KnownCondition(~r[x.arm].satisfied, r[x.arm].consulted)
          BY <2>3, <2>6, <3>2, ReduceConditionKinds
        <4> QED BY <3>1, <4>1 DEF KnownCondition, ReducedCondition
      <3>3. CASE ~r[x.arm].known
        <4>1. r[n] = PendingCondition(x, r[x.arm].consulted) BY <2>3, <2>6, <3>3, ReduceConditionKinds
        <4> QED BY <2>2, <2>6, <3>1, <4>1 DEF PendingCondition, ReducedCondition
      <3> QED BY <3>2, <3>3
    <2>7. CASE x.kind \in {"all", "any"} /\ ArmsBefore(x.arms, n)
      <3>1. PICK stop \in BOOLEAN : r[n] = ReduceArms(x, r, stop) BY <2>3, <2>7, ReduceConditionKinds
      <3> DEFINE arms == At(r, x.arms)
                 hits == KnownHits(arms, stop)
                 pending == PendingArms(x, r)
                 consulted == Consulted(arms, Visited(arms, hits))
      <3>2. ArmsReduced(x, r, stop, hits, pending, consulted) BY ReduceArmsCases
      <3>3. consulted \subseteq Facts
        <4>1. \A i \in DOMAIN arms : arms[i].consulted \subseteq Facts
          BY <2>1, <2>7 DEF At, ArmsBefore, ReducedCondition
        <4> HIDE DEF arms
        <4> QED BY <4>1 DEF Consulted, Visited
      <3>4. /\ ArmsBefore(pending, n) /\ pending \in Seq(Nat)
            /\ \A j \in DOMAIN pending : \E i \in DOMAIN x.arms : pending[j] = x.arms[i] /\ ~r[x.arms[i]].known
        BY <2>7, PendingPositions
      <3> HIDE DEF hits, pending, consulted, arms
      <3>5. CASE hits # {} \/ pending = <<>>
        <4>1. r[n] = KnownCondition(x.arms # <<>> /\ (stop <=> hits # {}), consulted)
          BY <3>1, <3>2, <3>5 DEF ArmsReduced
        <4> QED BY <3>3, <4>1 DEF KnownCondition, ReducedCondition
      <3>6. CASE hits = {} /\ pending # <<>> /\ Len(pending) = 1
        <4> DEFINE m == pending[1]
        <4>1. r[n] = PendingCondition(r[m].residual, consulted) BY <3>1, <3>2, <3>6 DEF ArmsReduced
        <4>2. 1 \in DOMAIN pending BY <3>4, <3>6
        <4>3. Before(m, n) /\ ~r[m].known BY <3>4, <4>2 DEF ArmsBefore
        <4> HIDE DEF m
        <4>4. ReducedCondition(r[m], m, pf) BY <2>1, <4>3
        <4>5. IsConditionNode(r[m].residual, n) BY <2>2, <4>3, <4>4, LaterNode DEF ReducedCondition
        <4> QED BY <3>3, <4>1, <4>3, <4>4, <4>5 DEF PendingCondition, ReducedCondition
      <3>7. CASE hits = {} /\ pending # <<>> /\ Len(pending) # 1
        <4> DEFINE y == [kind |-> x.kind, arms |-> pending]
        <4>1. r[n] = PendingCondition(y, consulted) BY <3>1, <3>2, <3>7 DEF ArmsReduced
        <4>2. y.kind = x.kind /\ y.arms = pending OBVIOUS
        <4> HIDE DEF y
        <4>3. IsConditionNode(y, n) BY <2>7, <3>4, <4>2 DEF IsConditionNode
        <4>4. y.kind # "has" BY <2>7, <4>2
        <4> QED BY <3>3, <4>1, <4>3, <4>4 DEF PendingCondition, ReducedCondition
      <3> QED BY <3>5, <3>6, <3>7
    <2> QED BY <2>2, <2>4, <2>5, <2>6, <2>7, ConditionKinds
  <1> HIDE DEF G, N
  <1>3. 1 .. N \subseteq G BY <1>1, <1>2, ReduceConditionRec!Positions
  <1> QED BY <1>3 DEF G, N

LEMMA ResidualConditionType ==
  ASSUME NEW c, IsCondition(c), NEW pf
  PROVE  /\ IsCondition(ResidualCondition(c, pf)) /\ Len(ResidualCondition(c, pf)) = Len(c)
         /\ \A n \in 1 .. Len(c) :
              /\ ReduceConditionTable(c, pf)[n].known => ResidualCondition(c, pf)[n] = Never
              /\ ~ReduceConditionTable(c, pf)[n].known =>
                   ResidualCondition(c, pf)[n] = ReduceConditionTable(c, pf)[n].residual
  <1> DEFINE N == Len(c)
             r == ReduceConditionTable(c, pf)
             q == ResidualCondition(c, pf)
  <1>1. N \in Nat /\ N # 0 BY DEF IsCondition
  <1>2. q = [n \in 1 .. N |-> IF r[n].known THEN Never ELSE r[n].residual] BY Zenon DEF ResidualCondition
  <1>3. \A n \in 1 .. N : ReducedCondition(r[n], n, pf) BY ReducedConditionType
  <1> HIDE DEF r, q, N
  <1>4. DOMAIN q = 1 .. N /\ Len(q) = N
    <2>1. q \in Seq({q[n] : n \in 1 .. N}) /\ DOMAIN q = 1 .. N BY <1>1, <1>2
    <2> QED BY <1>1, <2>1
  <1>5. \A n \in 1 .. N : /\ r[n].known => q[n] = Never
                          /\ ~r[n].known => q[n] = r[n].residual
    BY <1>2
  <1>6. \A n : IsConditionNode(Never, n) BY DEF Never, IsConditionNode
  <1>7. \A n \in 1 .. N : IsConditionNode(q[n], n) BY <1>3, <1>5, <1>6 DEF ReducedCondition
  <1>8. IsCondition(q) BY <1>1, <1>4, <1>7 DEF IsCondition
  <1> QED BY <1>4, <1>5, <1>8 DEF N, r, q

\* One arm that stops a loop decides it; so do all arms that do not.
LoopDecides(u, arms, stop, b) ==
  /\ (\E i \in DOMAIN arms : u[arms[i]].satisfied = stop) => b = stop
  /\ arms # <<>> /\ (\A i \in DOMAIN arms : u[arms[i]].satisfied # stop) => b = ~stop
  /\ arms = <<>> => b = FALSE

LEMMA LoopValue ==
  ASSUME NEW u, NEW n, NEW arms, ArmsBefore(arms, n), \A i \in DOMAIN arms : u[arms[i]] \in ConditionEvals,
         NEW stop \in BOOLEAN
  PROVE  LoopDecides(u, arms, stop, Visit(At(u, arms), stop).satisfied)
  <1> DEFINE a == At(u, arms)
             hits == Hits(a, stop)
  <1>1. DOMAIN a = DOMAIN arms /\ \A i \in DOMAIN a : a[i] = u[arms[i]] BY DEF At
  <1>2. (a = <<>> <=> DOMAIN arms = {}) /\ (a = <<>> <=> arms = <<>>) BY NoArms
  <1>3. Visit(a, stop).satisfied = (a # <<>> /\ (stop <=> hits # {})) BY DEF Visit, ConditionEval
  <1> HIDE DEF a
  <1>4. hits # {} <=> \E i \in DOMAIN arms : u[arms[i]].satisfied = stop BY <1>1 DEF Hits
  <1> HIDE DEF hits
  <1>5. CASE stop = TRUE BY <1>2, <1>3, <1>4, <1>5 DEF a, LoopDecides
  <1>6. CASE stop = FALSE BY <1>2, <1>3, <1>4, <1>6 DEF a, LoopDecides
  <1> QED BY <1>5, <1>6

\* The value of a condition that was partly reduced
ReducedValue(r, v) == IF r.known THEN r.satisfied ELSE v.satisfied

\* A reduced condition has the value of the condition for every choice of the
\* facts that agrees on what the reduction and the residual consulted.
LEMMA ConditionPreserved ==
  ASSUME NEW c, IsCondition(c), NEW pf, NEW S \in Completions(pf), NEW T
  PROVE  \A n \in 1 .. Len(c) :
           Agree(S, T, ReduceConditionTable(c, pf)[n].consulted
                         \union ConditionTable(ResidualCondition(c, pf), S)[n].consulted) =>
             ConditionTable(c, T)[n].satisfied =
               ReducedValue(ReduceConditionTable(c, pf)[n], ConditionTable(ResidualCondition(c, pf), S)[n])
  <1> DEFINE N == Len(c)
             r == ReduceConditionTable(c, pf)
             q == ResidualCondition(c, pf)
             v == ConditionTable(q, S)
             u == ConditionTable(c, T)
             Good(n) == Agree(S, T, r[n].consulted \union v[n].consulted) =>
                          u[n].satisfied = ReducedValue(r[n], v[n])
             G == {n \in 1 .. N : Good(n)}
  <1>1. N \in Nat /\ \A n \in 1 .. N : r[n] = ReduceConditionNode(c[n], r, pf)
    BY Trees, ReduceConditionTableRec
  <1>2. \A n \in 1 .. N : u[n] \in ConditionEvals /\ u[n] = EvalConditionNode(c[n], u, T) BY ConditionTableRec
  <1>3. \A n \in 1 .. N : v[n] \in ConditionEvals /\ v[n] = EvalConditionNode(q[n], v, S)
    BY ResidualConditionType, ConditionTableRec
  <1>4. \A n \in 1 .. N : (r[n].known => q[n] = Never) /\ (~r[n].known => q[n] = r[n].residual)
    BY ResidualConditionType
  <1>5. \A n \in 1 .. N : r[n].known => v[n].consulted = {}
    <2> SUFFICES ASSUME NEW n \in 1 .. N, r[n].known PROVE v[n].consulted = {} OBVIOUS
    <2>1. v[n] = EvalConditionNode(Never, v, S) BY <1>3, <1>4
    <2>2. v[n] = ConditionEval(FALSE, {}, {}) BY <2>1, EvalConditionKinds DEF Never
    <2> QED BY <2>2 DEF ConditionEval
  <1>6. \A f \in Facts : f \notin Unknown(pf) => (f \in S <=> f \in Present(pf))
    BY DEF Completions
  <1>7. ASSUME NEW n \in 1 .. N, \A m \in Nat : 1 <= m /\ m < n => m \in G PROVE n \in G
    <2>1. \A m : Before(m, n) => Good(m) /\ m \in 1 .. N BY <1>1, <1>7 DEF Before
    <2> DEFINE x == c[n]
    <2>2. IsConditionNode(x, n) /\ n \in Nat BY <1>1, Trees
    <2>3. r[n] = ReduceConditionNode(x, r, pf) /\ u[n] = EvalConditionNode(x, u, T) BY <1>1, <1>2
    <2>4. ~r[n].known => v[n] = EvalConditionNode(r[n].residual, v, S) BY <1>3, <1>4
    <2>5. r[n].known => v[n].consulted = {} BY <1>5
    <2> SUFFICES ASSUME Agree(S, T, r[n].consulted \union v[n].consulted)
                 PROVE  u[n].satisfied = ReducedValue(r[n], v[n])
      OBVIOUS
    <2> HIDE DEF N, r, q, v, u, x
    <2>6. CASE x.kind \in {"always", "never"}
      <3>1. \E b \in BOOLEAN : r[n] = KnownCondition(b, {}) /\ u[n] = ConditionEval(b, {}, {})
        BY <2>3, <2>6, ReduceConditionKinds, EvalConditionKinds
      <3> QED BY <3>1 DEF KnownCondition, ConditionEval, ReducedValue
    <2>7. CASE x.kind = "has" /\ x.fact \in Facts
      <3>1. u[n] = ConditionEval(x.fact \in T, {x.fact}, {x.fact}) BY <2>3, <2>7, EvalConditionKinds
      <3>2. u[n].satisfied = (x.fact \in T) BY <3>1 DEF ConditionEval
      <3>3. CASE x.fact \in Unknown(pf)
        <4>1. r[n] = PendingCondition(x, {}) BY <2>3, <2>7, <3>3, ReduceConditionKinds
        <4>2. ~r[n].known /\ r[n].residual = x BY <4>1 DEF PendingCondition
        <4>2a. v[n] = EvalConditionNode(x, v, S) BY <2>4, <4>2
        <4>3. v[n] = ConditionEval(x.fact \in S, {x.fact}, {x.fact}) BY <2>7, <4>2a, EvalConditionKinds
        <4>4. v[n].satisfied = (x.fact \in S) /\ v[n].consulted = {x.fact} BY <4>3 DEF ConditionEval
        <4>5. x.fact \in S <=> x.fact \in T BY <4>4 DEF Agree
        <4> QED BY <3>2, <4>2, <4>4, <4>5 DEF ReducedValue
      <3>4. CASE x.fact \notin Unknown(pf)
        <4>1. r[n] = KnownCondition(x.fact \in Present(pf), {x.fact}) BY <2>3, <2>7, <3>4, ReduceConditionKinds
        <4>2. r[n].known /\ r[n].satisfied = (x.fact \in Present(pf)) /\ r[n].consulted = {x.fact}
          BY <4>1 DEF KnownCondition
        <4>3. x.fact \in S <=> x.fact \in T BY <4>2 DEF Agree
        <4>4. x.fact \in S <=> x.fact \in Present(pf) BY <1>6, <2>7, <3>4
        <4> QED BY <3>2, <4>2, <4>3, <4>4 DEF ReducedValue
      <3> QED BY <3>3, <3>4
    <2>8. CASE x.kind = "not" /\ Before(x.arm, n)
      <3> DEFINE m == x.arm
      <3>1. Good(m) /\ m \in 1 .. N BY <2>1, <2>8
      <3>2. u[n] = ConditionEval(~u[m].satisfied, u[m].decisive, u[m].consulted) BY <2>3, <2>8, EvalConditionKinds
      <3>3. u[n].satisfied = ~u[m].satisfied BY <3>2 DEF ConditionEval
      <3>4. CASE r[m].known
        <4>1. r[n] = KnownCondition(~r[m].satisfied, r[m].consulted) BY <2>3, <2>8, <3>4, ReduceConditionKinds
        <4>2. r[n].known /\ r[n].satisfied = ~r[m].satisfied /\ r[n].consulted = r[m].consulted
          BY <4>1 DEF KnownCondition
        <4>3. v[m].consulted = {} BY <1>5, <3>1, <3>4
        <4>4. Agree(S, T, r[m].consulted \union v[m].consulted) BY <4>2, <4>3 DEF Agree
        <4> QED BY <3>1, <3>3, <3>4, <4>2, <4>4 DEF ReducedValue
      <3>5. CASE ~r[m].known
        <4>1. r[n] = PendingCondition(x, r[m].consulted) BY <2>3, <2>8, <3>5, ReduceConditionKinds
        <4>2. ~r[n].known /\ r[n].residual = x /\ r[n].consulted = r[m].consulted BY <4>1 DEF PendingCondition
        <4>3. v[n] = ConditionEval(~v[m].satisfied, v[m].decisive, v[m].consulted)
          <5>1. v[n] = EvalConditionNode(x, v, S) BY <2>4, <4>2
          <5> QED BY <2>8, <5>1, EvalConditionKinds
        <4>4. v[n].satisfied = ~v[m].satisfied /\ v[n].consulted = v[m].consulted BY <4>3 DEF ConditionEval
        <4>5. Agree(S, T, r[m].consulted \union v[m].consulted) BY <4>2, <4>4
        <4> QED BY <3>1, <3>3, <3>5, <4>2, <4>4, <4>5 DEF ReducedValue
      <3> QED BY <3>4, <3>5
    <2>9. CASE x.kind \in {"all", "any"} /\ ArmsBefore(x.arms, n)
      <3>1. PICK stop \in BOOLEAN :
              /\ r[n] = ReduceArms(x, r, stop) /\ u[n] = Visit(At(u, x.arms), stop)
              /\ x.kind = IF stop THEN "any" ELSE "all"
        BY <2>3, <2>9, ReduceConditionKinds, EvalConditionKinds
      <3> DEFINE arms == At(r, x.arms)
                 hits == KnownHits(arms, stop)
                 pending == PendingArms(x, r)
                 consulted == Consulted(arms, Visited(arms, hits))
      <3>2. ArmsReduced(x, r, stop, hits, pending, consulted) BY ReduceArmsCases
      <3>3. /\ ArmsBefore(pending, n) /\ pending \in Seq(Nat)
            /\ \A j \in DOMAIN pending : \E i \in DOMAIN x.arms : pending[j] = x.arms[i] /\ ~r[x.arms[i]].known
            /\ \A i \in DOMAIN x.arms : ~r[x.arms[i]].known => \E j \in DOMAIN pending : pending[j] = x.arms[i]
        BY <2>9, PendingPositions
      <3>4. DOMAIN arms = DOMAIN x.arms /\ \A i \in DOMAIN arms : arms[i] = r[x.arms[i]] BY DEF At
      <3>5. DOMAIN x.arms \subseteq Nat BY <2>9 DEF ArmsBefore
      <3>6. \A i \in DOMAIN x.arms : Good(x.arms[i]) /\ x.arms[i] \in 1 .. N BY <2>1, <2>9 DEF ArmsBefore
      <3>7. \A i \in DOMAIN x.arms : u[x.arms[i]] \in ConditionEvals BY <1>2, <3>6
      <3>7a. LoopDecides(u, x.arms, stop, u[n].satisfied) BY <2>9, <3>1, <3>7, LoopValue
      <3> HIDE DEF hits, pending, consulted, arms
      \* An arm whose facts were consulted has its value under T as well.
      <3>8. ASSUME NEW i \in DOMAIN x.arms, r[x.arms[i]].consulted \subseteq r[n].consulted,
                   ~r[x.arms[i]].known => v[x.arms[i]].consulted \subseteq v[n].consulted
            PROVE  u[x.arms[i]].satisfied = ReducedValue(r[x.arms[i]], v[x.arms[i]])
        <4>1. r[x.arms[i]].known => v[x.arms[i]].consulted = {} BY <1>5, <3>6
        <4>2. r[x.arms[i]].consulted \union v[x.arms[i]].consulted \subseteq r[n].consulted \union v[n].consulted
          BY <3>8, <4>1
        <4>3. Agree(S, T, r[x.arms[i]].consulted \union v[x.arms[i]].consulted) BY <4>2, AgreeOnPart
        <4> QED BY <3>6, <4>3
      <3>9. r[n].consulted = consulted
        BY <3>1, <3>2 DEF ArmsReduced, KnownCondition, PendingCondition
      <3>10. \A i \in Visited(arms, hits) : i \in DOMAIN x.arms /\ r[x.arms[i]].consulted \subseteq r[n].consulted
        BY <3>4, <3>9 DEF Visited, Consulted, consulted
      <3>11. CASE hits # {}
        <4>1. hits \subseteq DOMAIN x.arms /\ hits \subseteq Nat BY <3>4, <3>5 DEF hits, KnownHits
        <4>2. PICK k \in hits : \A j \in hits : k <= j BY <3>11, <4>1, EvalRec!Least
        <4>3. k \in Visited(arms, hits) BY <3>4, <4>1, <4>2 DEF Visited
        <4>4. r[x.arms[k]].known /\ r[x.arms[k]].satisfied = stop BY <3>4, <4>2 DEF hits, KnownHits
        <4>5. u[x.arms[k]].satisfied = stop BY <3>8, <3>10, <4>3, <4>4 DEF ReducedValue
        <4>6. u[n].satisfied = stop BY <3>7a, <4>1, <4>2, <4>5 DEF LoopDecides
        <4>7. x.arms # <<>>
          <5>1. DOMAIN x.arms # {} BY <4>1, <4>2
          <5> QED BY <2>9, <5>1, NoArms
        <4>8. r[n] = KnownCondition(x.arms # <<>> /\ (stop <=> hits # {}), consulted)
          BY <3>1, <3>2, <3>11 DEF ArmsReduced
        <4>9. r[n].known /\ r[n].satisfied = stop BY <3>11, <4>7, <4>8 DEF KnownCondition
        <4> QED BY <4>6, <4>9 DEF ReducedValue
      <3>12. CASE hits = {}
        <4>1. \A i \in DOMAIN x.arms : r[x.arms[i]].consulted \subseteq r[n].consulted
          BY <3>4, <3>10, <3>12 DEF Visited
        <4>2. \A i \in DOMAIN x.arms : r[x.arms[i]].known => u[x.arms[i]].satisfied # stop
          <5> SUFFICES ASSUME NEW i \in DOMAIN x.arms, r[x.arms[i]].known PROVE u[x.arms[i]].satisfied # stop
            OBVIOUS
          <5>1. r[x.arms[i]].satisfied # stop BY <3>4, <3>12 DEF hits, KnownHits
          <5> QED BY <3>8, <4>1, <5>1 DEF ReducedValue
        <4>3. CASE pending = <<>>
          <5>1. \A i \in DOMAIN x.arms : r[x.arms[i]].known BY <3>3, <4>3
          <5>2. r[n] = KnownCondition(x.arms # <<>> /\ (stop <=> hits # {}), consulted)
            BY <3>1, <3>2, <4>3 DEF ArmsReduced
          <5>3. r[n].known /\ r[n].satisfied = (x.arms # <<>> /\ ~stop) BY <3>12, <5>2 DEF KnownCondition
          <5>4. x.arms # <<>> => u[n].satisfied = ~stop BY <3>7a, <4>2, <5>1 DEF LoopDecides
          <5>5. x.arms = <<>> => u[n].satisfied = FALSE BY <3>7a DEF LoopDecides
          <5> QED BY <5>3, <5>4, <5>5 DEF ReducedValue
        <4>4. CASE pending # <<>> /\ Len(pending) = 1
          <5> DEFINE m == pending[1]
          <5>1. r[n] = PendingCondition(r[m].residual, consulted) BY <3>1, <3>2, <3>12, <4>4 DEF ArmsReduced
          <5>2. 1 \in DOMAIN pending /\ \A j \in DOMAIN pending : j = 1 BY <3>3, <4>4
          <5>3. PICK k \in DOMAIN x.arms : m = x.arms[k] /\ ~r[m].known BY <3>3, <5>2
          <5>4. \A i \in DOMAIN x.arms : ~r[x.arms[i]].known => x.arms[i] = m BY <3>3, <5>2
          <5> HIDE DEF m
          <5>5. ~r[n].known /\ r[n].residual = r[m].residual BY <5>1 DEF PendingCondition
          <5>6. v[n] = v[m]
            <6>1. m \in 1 .. N BY <3>6, <5>3
            <6>2. v[m] = EvalConditionNode(r[m].residual, v, S) BY <1>3, <1>4, <5>3, <6>1
            <6> QED BY <2>4, <5>5, <6>2
          <5>7. u[m].satisfied = v[m].satisfied BY <3>8, <4>1, <5>3, <5>6 DEF ReducedValue
          <5>8. v[m].satisfied \in BOOLEAN BY <1>3, <3>6, <5>3 DEF ConditionEvals
          <5>9. x.arms # <<>>
            <6>1. DOMAIN x.arms # {} BY <5>3
            <6> QED BY <2>9, <6>1, NoArms
          <5>10. CASE v[m].satisfied = stop
            <6>1. u[n].satisfied = stop BY <3>7a, <5>3, <5>7, <5>10 DEF LoopDecides
            <6> QED BY <5>5, <5>6, <5>10, <6>1 DEF ReducedValue
          <5>11. CASE v[m].satisfied # stop
            <6>1. \A i \in DOMAIN x.arms : u[x.arms[i]].satisfied # stop BY <4>2, <5>4, <5>7, <5>11
            <6>2. u[n].satisfied = ~stop BY <3>7a, <5>9, <6>1 DEF LoopDecides
            <6>3. v[m].satisfied = ~stop BY <5>8, <5>11
            <6> QED BY <5>5, <5>6, <6>2, <6>3 DEF ReducedValue
          <5> QED BY <5>10, <5>11
        <4>5. CASE pending # <<>> /\ Len(pending) # 1
          <5> DEFINE y == [kind |-> x.kind, arms |-> pending]
          <5>1. r[n] = PendingCondition(y, consulted) BY <3>1, <3>2, <3>12, <4>5 DEF ArmsReduced
          <5>2. y.kind = x.kind /\ y.arms = pending OBVIOUS
          <5> HIDE DEF y
          <5>3. ~r[n].known /\ r[n].residual = y BY <5>1 DEF PendingCondition
          <5>4. v[n] = EvalConditionNode(y, v, S) BY <2>4, <5>3
          <5>5. v[n] = Visit(At(v, pending), stop)
            <6>1. CASE stop = TRUE BY <3>1, <5>2, <5>4, <6>1, EvalConditionKinds
            <6>2. CASE stop = FALSE BY <3>1, <5>2, <5>4, <6>2, EvalConditionKinds
            <6> QED BY <6>1, <6>2
          <5>6. \A j \in DOMAIN pending : v[pending[j]] \in ConditionEvals
            BY <1>3, <2>1, <3>3 DEF ArmsBefore
          <5>6a. LoopDecides(v, pending, stop, v[n].satisfied) BY <3>3, <5>5, <5>6, LoopValue
          <5> DEFINE a == At(v, pending)
                     vhits == Hits(a, stop)
          <5>7. DOMAIN a = DOMAIN pending /\ \A j \in DOMAIN a : a[j] = v[pending[j]] BY DEF At
          <5>8. \A j \in Visited(a, vhits) : a[j].consulted \subseteq v[n].consulted BY <5>5, VisitConsults
          <5> HIDE DEF a, vhits
          <5>9. \A j \in Visited(a, vhits) : u[pending[j]].satisfied = v[pending[j]].satisfied
            <6> SUFFICES ASSUME NEW j \in Visited(a, vhits) PROVE u[pending[j]].satisfied = v[pending[j]].satisfied
              OBVIOUS
            <6>1. j \in DOMAIN pending BY <5>7 DEF Visited
            <6>2. PICK i \in DOMAIN x.arms : pending[j] = x.arms[i] /\ ~r[x.arms[i]].known BY <3>3, <6>1
            <6>3. v[x.arms[i]].consulted \subseteq v[n].consulted BY <5>7, <5>8, <6>1, <6>2
            <6>4. u[x.arms[i]].satisfied = ReducedValue(r[x.arms[i]], v[x.arms[i]]) BY <3>8, <4>1, <6>3
            <6> QED BY <6>2, <6>4 DEF ReducedValue
          <5>10. CASE vhits # {}
            <6>1. vhits \subseteq DOMAIN pending /\ vhits \subseteq Nat BY <3>3, <5>7 DEF vhits, Hits
            <6>2. PICK k \in vhits : \A j \in vhits : k <= j BY <5>10, <6>1, EvalRec!Least
            <6>3. k \in Visited(a, vhits) BY <5>7, <6>1, <6>2 DEF Visited
            <6>4. v[pending[k]].satisfied = stop BY <5>7, <6>1, <6>2 DEF vhits, Hits
            <6>5. u[pending[k]].satisfied = stop BY <5>9, <6>3, <6>4
            <6>6. PICK i \in DOMAIN x.arms : pending[k] = x.arms[i] BY <3>3, <6>1
            <6>7. u[n].satisfied = stop BY <3>7a, <6>5, <6>6 DEF LoopDecides
            <6>8. v[n].satisfied = stop BY <5>6a, <6>1, <6>2, <6>4 DEF LoopDecides
            <6> QED BY <5>3, <6>7, <6>8 DEF ReducedValue
          <5>11. CASE vhits = {}
            <6>1. \A j \in DOMAIN pending : j \in Visited(a, vhits) /\ v[pending[j]].satisfied # stop
              BY <5>7, <5>11 DEF Visited, vhits, Hits
            <6>2. \A j \in DOMAIN pending : u[pending[j]].satisfied # stop BY <5>9, <6>1
            <6>3. \A i \in DOMAIN x.arms : u[x.arms[i]].satisfied # stop BY <3>3, <4>2, <6>2
            <6>4. v[n].satisfied = ~stop BY <4>5, <5>6a, <6>1 DEF LoopDecides
            <6>5. x.arms # <<>>
              <7>1. 1 \in DOMAIN pending BY <3>3, <4>5
              <7>2. DOMAIN x.arms # {} BY <3>3, <7>1
              <7> QED BY <2>9, <7>2, NoArms
            <6>6. u[n].satisfied = ~stop BY <3>7a, <6>3, <6>5 DEF LoopDecides
            <6> QED BY <5>3, <6>4, <6>6 DEF ReducedValue
          <5> QED BY <5>10, <5>11
        <4> QED BY <4>3, <4>4, <4>5
      <3> QED BY <3>11, <3>12
    <2> QED BY <2>2, <2>6, <2>7, <2>8, <2>9, ConditionKinds
  <1> HIDE DEF G, N
  <1>8. 1 .. N \subseteq G BY <1>1, <1>7, ReduceConditionRec!Positions
  <1> QED BY <1>8 DEF G, N

\* What is left of a condition asks for an unknown fact or for arms that are
\* left as well.
OpenCondition(y, r, n, pf) ==
  \/ y.kind = "has" /\ y.fact \in Unknown(pf)
  \/ y.kind = "not" /\ Before(y.arm, n) /\ ~r[y.arm].known
  \/ /\ y.kind \in {"all", "any"} /\ ArmsBefore(y.arms, n)
     /\ DOMAIN y.arms # {} /\ \A i \in DOMAIN y.arms : ~r[y.arms[i]].known

LEMMA LaterOpen ==
  ASSUME NEW y, NEW r, NEW pf, NEW m, NEW n \in Nat, OpenCondition(y, r, m, pf), Before(m, n)
  PROVE  OpenCondition(y, r, n, pf)
  BY DEF OpenCondition, ArmsBefore, Before

LEMMA PendingIsOpen ==
  ASSUME NEW c, IsCondition(c), NEW pf
  PROVE  \A n \in 1 .. Len(c) : ~ReduceConditionTable(c, pf)[n].known =>
           OpenCondition(ReduceConditionTable(c, pf)[n].residual, ReduceConditionTable(c, pf), n, pf)
  <1> DEFINE N == Len(c)
             r == ReduceConditionTable(c, pf)
             G == {n \in 1 .. N : ~r[n].known => OpenCondition(r[n].residual, r, n, pf)}
  <1>1. N \in Nat /\ \A n \in 1 .. N : r[n] = ReduceConditionNode(c[n], r, pf)
    BY Trees, ReduceConditionTableRec
  <1>2. ASSUME NEW n \in 1 .. N, \A m \in Nat : 1 <= m /\ m < n => m \in G PROVE n \in G
    <2>1. \A m : Before(m, n) => (~r[m].known => OpenCondition(r[m].residual, r, m, pf)) BY <1>2 DEF Before
    <2> DEFINE x == c[n]
    <2>2. IsConditionNode(x, n) /\ n \in Nat BY <1>1, Trees
    <2>3. r[n] = ReduceConditionNode(x, r, pf) BY <1>1
    <2> SUFFICES ASSUME ~r[n].known PROVE OpenCondition(r[n].residual, r, n, pf) OBVIOUS
    <2> HIDE DEF N, r, x
    <2>4. CASE x.kind \in {"always", "never"}
      <3>1. \E b \in BOOLEAN : r[n] = KnownCondition(b, {}) BY <2>3, <2>4, ReduceConditionKinds
      <3> QED BY <3>1 DEF KnownCondition
    <2>5. CASE x.kind = "has" /\ x.fact \in Facts
      <3>1. CASE x.fact \in Unknown(pf)
        <4>1. r[n] = PendingCondition(x, {}) BY <2>3, <2>5, <3>1, ReduceConditionKinds
        <4> QED BY <2>5, <3>1, <4>1 DEF PendingCondition, OpenCondition
      <3>2. CASE x.fact \notin Unknown(pf)
        <4>1. r[n] = KnownCondition(x.fact \in Present(pf), {x.fact}) BY <2>3, <2>5, <3>2, ReduceConditionKinds
        <4> QED BY <4>1 DEF KnownCondition
      <3> QED BY <3>1, <3>2
    <2>6. CASE x.kind = "not" /\ Before(x.arm, n)
      <3>1. CASE r[x.arm].known
        <4>1. r[n] = KnownCondition(~r[x.arm].satisfied, r[x.arm].consulted)
          BY <2>3, <2>6, <3>1, ReduceConditionKinds
        <4> QED BY <4>1 DEF KnownCondition
      <3>2. CASE ~r[x.arm].known
        <4>1. r[n] = PendingCondition(x, r[x.arm].consulted) BY <2>3, <2>6, <3>2, ReduceConditionKinds
        <4> QED BY <2>6, <3>2, <4>1 DEF PendingCondition, OpenCondition
      <3> QED BY <3>1, <3>2
    <2>7. CASE x.kind \in {"all", "any"} /\ ArmsBefore(x.arms, n)
      <3>1. PICK stop \in BOOLEAN : r[n] = ReduceArms(x, r, stop) BY <2>3, <2>7, ReduceConditionKinds
      <3> DEFINE arms == At(r, x.arms)
                 hits == KnownHits(arms, stop)
                 pending == PendingArms(x, r)
                 consulted == Consulted(arms, Visited(arms, hits))
      <3>2. ArmsReduced(x, r, stop, hits, pending, consulted) BY ReduceArmsCases
      <3>3. /\ ArmsBefore(pending, n) /\ pending \in Seq(Nat)
            /\ \A j \in DOMAIN pending : \E i \in DOMAIN x.arms : pending[j] = x.arms[i] /\ ~r[x.arms[i]].known
        BY <2>7, PendingPositions
      <3> HIDE DEF hits, pending, consulted, arms
      <3>4. CASE hits # {} \/ pending = <<>>
        <4>1. r[n] = KnownCondition(x.arms # <<>> /\ (stop <=> hits # {}), consulted)
          BY <3>1, <3>2, <3>4 DEF ArmsReduced
        <4> QED BY <4>1 DEF KnownCondition
      <3>5. CASE hits = {} /\ pending # <<>> /\ Len(pending) = 1
        <4> DEFINE m == pending[1]
        <4>1. r[n] = PendingCondition(r[m].residual, consulted) BY <3>1, <3>2, <3>5 DEF ArmsReduced
        <4>2. 1 \in DOMAIN pending BY <3>3, <3>5
        <4>3. Before(m, n) /\ ~r[m].known BY <3>3, <4>2 DEF ArmsBefore
        <4> HIDE DEF m
        <4>4. OpenCondition(r[m].residual, r, n, pf) BY <2>1, <2>2, <4>3, LaterOpen
        <4> QED BY <4>1, <4>4 DEF PendingCondition
      <3>6. CASE hits = {} /\ pending # <<>> /\ Len(pending) # 1
        <4> DEFINE y == [kind |-> x.kind, arms |-> pending]
        <4>1. r[n] = PendingCondition(y, consulted) BY <3>1, <3>2, <3>6 DEF ArmsReduced
        <4>2. y.kind = x.kind /\ y.arms = pending OBVIOUS
        <4>3. DOMAIN pending # {} BY <3>3, <3>6
        <4> HIDE DEF y
        <4>4. OpenCondition(y, r, n, pf) BY <2>7, <3>3, <4>2, <4>3 DEF OpenCondition
        <4> QED BY <4>1, <4>4 DEF PendingCondition
      <3> QED BY <3>4, <3>5, <3>6
    <2> QED BY <2>2, <2>4, <2>5, <2>6, <2>7, ConditionKinds
  <1> HIDE DEF G, N
  <1>3. 1 .. N \subseteq G BY <1>1, <1>2, ReduceConditionRec!Positions
  <1> QED BY <1>3 DEF G, N

\* What is left of a condition asks for unknown facts, and for at least one.
LEMMA ResidualConditionFacts ==
  ASSUME NEW c, IsCondition(c), NEW pf
  PROVE  \A n \in 1 .. Len(c) :
           /\ ConditionFactsTable(ResidualCondition(c, pf))[n] \subseteq Unknown(pf)
           /\ ~ReduceConditionTable(c, pf)[n].known => ConditionFactsTable(ResidualCondition(c, pf))[n] # {}
  <1> DEFINE N == Len(c)
             r == ReduceConditionTable(c, pf)
             q == ResidualCondition(c, pf)
             f == ConditionFactsTable(q)
             Good(n) == f[n] \subseteq Unknown(pf) /\ (~r[n].known => f[n] # {})
             G == {n \in 1 .. N : Good(n)}
  <1>1. N \in Nat BY Trees
  <1>2. \A n \in 1 .. N : f[n] = ConditionFactsNode(q[n], f) BY ResidualConditionType, ConditionFactsTableRec
  <1>3. \A n \in 1 .. N : (r[n].known => q[n] = Never) /\ (~r[n].known => q[n] = r[n].residual)
    BY ResidualConditionType
  <1>4. \A n \in 1 .. N : ~r[n].known => OpenCondition(r[n].residual, r, n, pf) BY PendingIsOpen
  <1>5. ASSUME NEW n \in 1 .. N, \A m \in Nat : 1 <= m /\ m < n => m \in G PROVE n \in G
    <2>1. \A m : Before(m, n) => Good(m) BY <1>5 DEF Before
    <2> SUFFICES Good(n) OBVIOUS
    <2>2. CASE r[n].known
      <3>1. f[n] = ConditionFactsNode(Never, f) BY <1>2, <1>3, <2>2
      <3>2. f[n] = {} BY <3>1, ConditionFactsKinds DEF Never
      <3> QED BY <2>2, <3>2
    <2>3. CASE ~r[n].known
      <3> DEFINE y == r[n].residual
      <3>1. f[n] = ConditionFactsNode(y, f) BY <1>2, <1>3, <2>3
      <3>2. OpenCondition(y, r, n, pf) BY <1>4, <2>3
      <3> HIDE DEF y, f, r
      <3>3. CASE y.kind = "has" /\ y.fact \in Unknown(pf)
        <4>1. f[n] = {y.fact} BY <3>1, <3>3, ConditionFactsKinds
        <4> QED BY <3>3, <4>1
      <3>4. CASE y.kind = "not" /\ Before(y.arm, n) /\ ~r[y.arm].known
        <4>1. f[n] = f[y.arm] BY <3>1, <3>4, ConditionFactsKinds
        <4>2. Good(y.arm) BY <2>1, <3>4
        <4> QED BY <3>4, <4>1, <4>2
      <3>5. CASE /\ y.kind \in {"all", "any"} /\ ArmsBefore(y.arms, n)
                 /\ DOMAIN y.arms # {} /\ \A i \in DOMAIN y.arms : ~r[y.arms[i]].known
        <4>1. f[n] = UNION {f[y.arms[i]] : i \in DOMAIN y.arms} BY <3>1, <3>5, ConditionFactsKinds
        <4>2. \A i \in DOMAIN y.arms : f[y.arms[i]] \subseteq Unknown(pf) /\ f[y.arms[i]] # {}
          BY <2>1, <3>5 DEF ArmsBefore
        <4> QED BY <3>5, <4>1, <4>2
      <3> QED BY <3>2, <3>3, <3>4, <3>5 DEF OpenCondition
    <2> QED BY <2>2, <2>3
  <1> HIDE DEF G, N
  <1>6. 1 .. N \subseteq G BY <1>1, <1>5, ReduceConditionRec!Positions
  <1> QED BY <1>6 DEF G, N

-----------------------------------------------------------------------------
(***************************************************************************)
(* reduce_policy: what every kind of node is reduced to                    *)
(***************************************************************************)
LEMMA KeptPositions ==
  ASSUME NEW arms, NEW n, ArmsBefore(arms, n), NEW I
  PROVE  /\ ArmsBefore(Kept(arms, I), n)
         /\ \A j \in DOMAIN Kept(arms, I) : \E i \in DOMAIN arms : i \in I /\ Kept(arms, I)[j] = arms[i]
         /\ \A i \in DOMAIN arms : i \in I => \E j \in DOMAIN Kept(arms, I) : Kept(arms, I)[j] = arms[i]
  <1> DEFINE k == Kept(arms, I)
  <1>1. /\ k \in Seq(Nat)
        /\ \A j \in DOMAIN k : \E i \in DOMAIN arms : i \in I /\ k[j] = arms[i]
        /\ \A i \in DOMAIN arms : i \in I => \E j \in DOMAIN k : k[j] = arms[i]
    BY KeptElements DEF ArmsBefore
  <1> HIDE DEF k
  <1>2. \A j \in DOMAIN k : Before(k[j], n) BY <1>1 DEF ArmsBefore
  <1> QED BY <1>1, <1>2 DEF ArmsBefore, k

\* z has the elements of a and of b
Together(z, a, b) ==
  /\ \A j \in DOMAIN z : (\E i \in DOMAIN a : z[j] = a[i]) \/ \E i \in DOMAIN b : z[j] = b[i]
  /\ \A i \in DOMAIN a : \E j \in DOMAIN z : z[j] = a[i]
  /\ \A i \in DOMAIN b : \E j \in DOMAIN z : z[j] = b[i]

LEMMA ArmsTogether ==
  ASSUME NEW a, NEW b, NEW n, ArmsBefore(a, n), ArmsBefore(b, n)
  PROVE  ArmsBefore(a \o b, n) /\ Together(a \o b, a, b)
  <1> DEFINE z == a \o b
  <1> DEFINE k == Len(a)
             l == Len(b)
  <1>1. a \in Seq(Nat) /\ b \in Seq(Nat) BY DEF ArmsBefore
  <1>2. z \in Seq(Nat) /\ Len(z) = k + l /\ k \in Nat /\ l \in Nat BY <1>1
  <1>3. DOMAIN z = 1 .. k + l /\ DOMAIN a = 1 .. k /\ DOMAIN b = 1 .. l BY <1>1, <1>2
  <1>4. (\A i \in 1 .. k : z[i] = a[i]) /\ \A i \in 1 .. l : z[k + i] = b[i] BY <1>1, <1>2
  <1>5. (\A i \in 1 .. l : k + i \in 1 .. k + l) /\ \A i \in 1 .. k : i \in 1 .. k + l BY <1>2
  <1>6. \A j \in 1 .. k + l : j \in 1 .. k \/ \E i \in 1 .. l : j = k + i
    <2> SUFFICES ASSUME NEW j \in 1 .. k + l, j \notin 1 .. k PROVE \E i \in 1 .. l : j = k + i OBVIOUS
    <2> HIDE DEF k, l
    <2>1. j - k \in 1 .. l /\ j = k + (j - k) BY <1>2
    <2> QED BY <2>1
  <1> HIDE DEF k, l, z
  <1>7. \A j \in DOMAIN z : (\E i \in DOMAIN a : z[j] = a[i]) \/ \E i \in DOMAIN b : z[j] = b[i]
    <2> SUFFICES ASSUME NEW j \in 1 .. k + l
                 PROVE  (\E i \in 1 .. k : z[j] = a[i]) \/ \E i \in 1 .. l : z[j] = b[i]
      BY <1>3
    <2>1. CASE j \in 1 .. k BY <1>4, <2>1
    <2>2. CASE \E i \in 1 .. l : j = k + i BY <1>4, <2>2
    <2> QED BY <1>6, <2>1, <2>2
  <1>8. \A j \in DOMAIN z : Before(z[j], n) BY <1>7 DEF ArmsBefore
  <1>9. ArmsBefore(z, n) BY <1>2, <1>8 DEF ArmsBefore
  <1>10. \A i \in DOMAIN a : \E j \in DOMAIN z : z[j] = a[i] BY <1>3, <1>4, <1>5
  <1>11. \A i \in DOMAIN b : \E j \in DOMAIN z : z[j] = b[i] BY <1>3, <1>4, <1>5
  <1>12. Together(z, a, b) BY <1>7, <1>10, <1>11 DEF Together
  <1> QED BY <1>9, <1>12, Zenon DEF z

ReducedPolicy(r, n) ==
  /\ r.consulted \subseteq Facts /\ r.resolved \in BOOLEAN
  /\ r.resolved => r.decision \in Auditable /\ r.decision.consulted = r.consulted
  /\ ~r.resolved => IsPolicyNode(r.residual, n)

LEMMA ResolvedIs ==
  ASSUME NEW d
  PROVE  Resolved(d).resolved = TRUE /\ Resolved(d).decision = d /\ Resolved(d).consulted = d.consulted
  BY DEF Resolved

LEMMA PendingIs ==
  ASSUME NEW y, NEW k
  PROVE  Pending(y, k).resolved = FALSE /\ Pending(y, k).residual = y /\ Pending(y, k).consulted = k
  BY DEF Pending

\* A resolved arm stands in the residual as a constant with its effect.
LEMMA ConstantIs ==
  ASSUME NEW r, r.decision \in Auditable
  PROVE  /\ FromResolved(r).decision = WithConsulted(r.decision, {})
         /\ FromResolved(r).decision \in Auditable
         /\ FromResolved(r).decision.effect = r.decision.effect
         /\ FromResolved(r).decision.consulted = {}
         /\ FromResolved(r).kind \in {"permit_trace", "deny_trace"}
         /\ IsTraceNode(FromResolved(r))
  <1> DEFINE d == WithConsulted(r.decision, {})
  <1>1. d \in Auditable /\ d.effect = r.decision.effect /\ d.consulted = {} BY WithConsultedType
  <1>2. FromResolved(r) = IF IsPermit(d) THEN PermitWithTrace(d) ELSE DenyWithTrace(d) BY Zenon DEF FromResolved
  <1> HIDE DEF d
  <1>3. CASE IsPermit(d)
    <2>1. d \in PermitDecisions BY <1>1, <1>3, Auditing
    <2> QED BY <1>1, <1>2, <1>3, <2>1 DEF PermitWithTrace, IsTraceNode, d
  <1>4. CASE ~IsPermit(d)
    <2>1. d.effect = Denied BY <1>4 DEF IsPermit
    <2> QED BY <1>1, <1>2, <1>4, <2>1 DEF DenyWithTrace, IsTraceNode, d
  <1> QED BY <1>3, <1>4

LEMMA ConstantsAre ==
  ASSUME NEW at, NEW n, NEW arms, ArmsBefore(arms, n), \A i \in DOMAIN arms : at[arms[i]].decision \in Auditable
  PROVE  /\ IsArms(Constants(at, arms))
         /\ \A i \in DOMAIN Constants(at, arms) : Constants(at, arms)[i] \in Auditable
         /\ Effects(Constants(at, arms)) = {at[arms[i]].decision.effect : i \in DOMAIN arms}
  <1> DEFINE C == Constants(at, arms)
  <1>1. C = [i \in DOMAIN arms |-> FromResolved(at[arms[i]]).decision] BY DEF Constants
  <1>2. \A i \in DOMAIN arms : /\ FromResolved(at[arms[i]]).decision \in Auditable
                               /\ FromResolved(at[arms[i]]).decision.effect = at[arms[i]].decision.effect
    BY ConstantIs
  <1>3. arms \in Seq(Nat) BY DEF ArmsBefore
  <1>4. DOMAIN arms = 1 .. Len(arms) /\ Len(arms) \in Nat BY <1>3
  <1> HIDE DEF C
  <1>5. C \in Seq(Auditable) BY <1>1, <1>2, <1>4
  <1>6. IsArms(C) BY <1>5 DEF IsArms
  <1>7. \A i \in DOMAIN C : C[i] \in Auditable BY <1>1, <1>2
  <1>8. Effects(C) = {at[arms[i]].decision.effect : i \in DOMAIN arms} BY <1>1, <1>2 DEF Effects
  <1> QED BY <1>6, <1>7, <1>8 DEF C

\* reduce_all: a denial decides, resolved arms decide together, and otherwise
\* the same arms are left in another order.
AllReduced(x, at, y, n) ==
  \/ /\ y.resolved /\ y.decision \in Auditable /\ y.decision.effect = Denied
     /\ \E i \in DOMAIN x.arms : ResolvedDeny(at[x.arms[i]]) /\ at[x.arms[i]].consulted \subseteq y.consulted
  \/ /\ y.resolved /\ y.decision \in Auditable
     /\ y.decision.effect = AllEffect({at[x.arms[i]].decision.effect : i \in DOMAIN x.arms})
     /\ \A i \in DOMAIN x.arms : at[x.arms[i]].resolved /\ at[x.arms[i]].consulted \subseteq y.consulted
  \/ /\ ~y.resolved /\ y.residual.kind = "all" /\ ArmsBefore(y.residual.arms, n)
     /\ \A i \in DOMAIN x.arms : at[x.arms[i]].consulted \subseteq y.consulted
     /\ \A j \in DOMAIN y.residual.arms : \E i \in DOMAIN x.arms : y.residual.arms[j] = x.arms[i]
     /\ \A i \in DOMAIN x.arms : \E j \in DOMAIN y.residual.arms : y.residual.arms[j] = x.arms[i]
     /\ \E i \in DOMAIN x.arms : ~at[x.arms[i]].resolved

AllCases(p, at, y, arms, denials, consulted) ==
  /\ denials # {} => y = Resolved(WithConsulted(arms[Min(denials)].decision, consulted))
  /\ denials = {} /\ StillPending(p, at) = <<>> =>
       y = Resolved(WithConsulted(EvalAll(Constants(at, Permits(p, at))), consulted))
  /\ denials = {} /\ StillPending(p, at) # <<>> =>
       y = Pending(AllOf(Permits(p, at) \o StillPending(p, at)), consulted)

LEMMA ReduceAllCases ==
  ASSUME NEW p, NEW at
  PROVE  AllCases(p, at, ReduceAll(p, at), At(at, p.arms), {i \in DOMAIN At(at, p.arms) : ResolvedDeny(At(at, p.arms)[i])},
                  Consulted(At(at, p.arms), Visited(At(at, p.arms), {i \in DOMAIN At(at, p.arms) : ResolvedDeny(At(at, p.arms)[i])})))
  BY Zenon DEF ReduceAll, AllCases

LEMMA EmptyArms ==
  ASSUME NEW arms, NEW n, ArmsBefore(arms, n)
  PROVE  (arms = <<>> <=> DOMAIN arms = {}) /\ DOMAIN arms \subseteq Nat
  <1>1. arms \in Seq(Nat) BY DEF ArmsBefore
  <1> QED BY <1>1

LEMMA AllShape ==
  ASSUME NEW x, NEW n, ArmsBefore(x.arms, n), NEW at,
         \A i \in DOMAIN x.arms : ReducedPolicy(at[x.arms[i]], x.arms[i])
  PROVE  AllReduced(x, at, ReduceAll(x, at), n) /\ ReducedPolicy(ReduceAll(x, at), n)
  <1> DEFINE arms == At(at, x.arms)
             denials == {i \in DOMAIN arms : ResolvedDeny(arms[i])}
             K == Consulted(arms, Visited(arms, denials))
             y == ReduceAll(x, at)
             permits == Permits(x, at)
             pending == StillPending(x, at)
  <1>1. AllCases(x, at, y, arms, denials, K) BY ReduceAllCases
  <1>2. DOMAIN arms = DOMAIN x.arms /\ \A i \in DOMAIN x.arms : arms[i] = at[x.arms[i]] BY DEF At
  <1>3. K \subseteq Facts /\ \A i \in Visited(arms, denials) : arms[i].consulted \subseteq K
    <2> HIDE DEF arms
    <2> QED BY <1>2 DEF Consulted, Visited, ReducedPolicy
  <1>4. DOMAIN x.arms \subseteq Nat BY EmptyArms
  <1>5. /\ ArmsBefore(permits, n)
        /\ \A j \in DOMAIN permits : \E i \in DOMAIN x.arms : ResolvedPermit(at[x.arms[i]]) /\ permits[j] = x.arms[i]
        /\ \A i \in DOMAIN x.arms : ResolvedPermit(at[x.arms[i]]) => \E j \in DOMAIN permits : permits[j] = x.arms[i]
    <2> DEFINE I == {i \in DOMAIN x.arms : ResolvedPermit(at[x.arms[i]])}
    <2>1. permits = Kept(x.arms, I) BY DEF Permits
    <2>2. \A i \in DOMAIN x.arms : i \in I <=> ResolvedPermit(at[x.arms[i]]) OBVIOUS
    <2> HIDE DEF I, permits
    <2> QED BY <2>1, <2>2, KeptPositions
  <1>6. /\ ArmsBefore(pending, n)
        /\ \A j \in DOMAIN pending : \E i \in DOMAIN x.arms : ~at[x.arms[i]].resolved /\ pending[j] = x.arms[i]
        /\ \A i \in DOMAIN x.arms : ~at[x.arms[i]].resolved => \E j \in DOMAIN pending : pending[j] = x.arms[i]
    <2> DEFINE I == {i \in DOMAIN x.arms : ~at[x.arms[i]].resolved}
    <2>1. pending = Kept(x.arms, I) BY DEF StillPending
    <2>2. \A i \in DOMAIN x.arms : i \in I <=> ~at[x.arms[i]].resolved OBVIOUS
    <2> HIDE DEF I, pending
    <2> QED BY <2>1, <2>2, KeptPositions
  <1> HIDE DEF arms, K, y, permits, pending
  <1> SUFFICES AllReduced(x, at, y, n) /\ ReducedPolicy(y, n) BY DEF y
  <1>7. CASE denials # {}
    <2> DEFINE k == Min(denials)
    <2>1. k \in denials /\ \A j \in denials : k <= j BY <1>2, <1>4, <1>7, MinOf
    <2>2. k \in Visited(arms, denials) BY <2>1 DEF Visited
    <2>3. y = Resolved(WithConsulted(arms[k].decision, K)) BY <1>1, <1>7 DEF AllCases
    <2> HIDE DEF k
    <2>4. k \in DOMAIN x.arms /\ ResolvedDeny(at[x.arms[k]]) /\ at[x.arms[k]].consulted \subseteq K
      BY <1>2, <1>3, <2>1, <2>2
    <2>5. arms[k].decision \in Auditable /\ arms[k].decision.effect = Denied
      BY <1>2, <2>4 DEF ReducedPolicy, ResolvedDeny, IsPermit
    <2>6. /\ y.resolved = TRUE /\ y.decision \in Auditable /\ y.decision.effect = Denied
          /\ y.consulted = K /\ y.decision.consulted = K
      <3> DEFINE d == WithConsulted(arms[k].decision, K)
      <3>1. d \in Auditable /\ d.effect = Denied /\ d.consulted = K BY <1>3, <2>5, WithConsultedType
      <3> HIDE DEF d
      <3>2. y.resolved = TRUE /\ y.decision = d /\ y.consulted = d.consulted BY <2>3, ResolvedIs DEF d
      <3> QED BY <3>1, <3>2
    <2> QED BY <1>3, <2>4, <2>6 DEF AllReduced, ReducedPolicy
  <1>8. CASE denials = {} /\ pending = <<>>
    <2>1. y = Resolved(WithConsulted(EvalAll(Constants(at, permits)), K)) BY <1>1, <1>8 DEF AllCases, permits, pending
    <2>2. \A i \in DOMAIN x.arms : at[x.arms[i]].consulted \subseteq K BY <1>2, <1>3, <1>8 DEF Visited
    <2>3. \A i \in DOMAIN x.arms : ResolvedPermit(at[x.arms[i]])
      <3>1. DOMAIN pending = {} BY <1>6, <1>8, EmptyArms
      <3>2. \A i \in DOMAIN x.arms : at[x.arms[i]].resolved BY <1>6, <3>1
      <3>3. \A i \in DOMAIN x.arms : ~ResolvedDeny(at[x.arms[i]]) BY <1>2, <1>8
      <3> QED BY <3>2, <3>3 DEF ResolvedPermit, ResolvedDeny
    <2>4. \A j \in DOMAIN permits : at[permits[j]].decision \in Auditable
      BY <1>5 DEF ReducedPolicy, ResolvedPermit
    <2>5. {at[permits[j]].decision.effect : j \in DOMAIN permits} =
            {at[x.arms[i]].decision.effect : i \in DOMAIN x.arms}
      BY <1>5, <2>3
    <2>6. /\ EvalAll(Constants(at, permits)) \in Auditable
          /\ EvalAll(Constants(at, permits)).effect = AllEffect({at[x.arms[i]].decision.effect : i \in DOMAIN x.arms})
      <3>1. /\ IsArms(Constants(at, permits))
            /\ \A i \in DOMAIN Constants(at, permits) : Constants(at, permits)[i] \in Auditable
            /\ Effects(Constants(at, permits)) = {at[permits[i]].decision.effect : i \in DOMAIN permits}
        BY <1>5, <2>4, ConstantsAre
      <3> QED BY <2>5, <3>1, AllDecides
    <2>7. /\ y.resolved = TRUE /\ y.decision \in Auditable /\ y.consulted = K /\ y.decision.consulted = K
          /\ y.decision.effect = AllEffect({at[x.arms[i]].decision.effect : i \in DOMAIN x.arms})
      <3> DEFINE e == EvalAll(Constants(at, permits))
                 d == WithConsulted(e, K)
      <3>1. e \in Auditable /\ e.effect = AllEffect({at[x.arms[i]].decision.effect : i \in DOMAIN x.arms}) BY <2>6
      <3> HIDE DEF e
      <3>2. d \in Auditable /\ d.effect = e.effect /\ d.consulted = K BY <1>3, <3>1, WithConsultedType
      <3>3. y = Resolved(d) BY <2>1 DEF e
      <3> HIDE DEF d
      <3>4. y.resolved = TRUE /\ y.decision = d /\ y.consulted = d.consulted BY <3>3, ResolvedIs
      <3> QED BY <3>1, <3>2, <3>4
    <2> QED BY <1>3, <2>2, <2>3, <2>7 DEF AllReduced, ReducedPolicy, ResolvedPermit
  <1>9. CASE denials = {} /\ pending # <<>>
    <2> DEFINE z == permits \o pending
    <2>1. y = Pending(AllOf(z), K) BY <1>1, <1>9 DEF AllCases, permits, pending
    <2>2. \A i \in DOMAIN x.arms : at[x.arms[i]].consulted \subseteq K BY <1>2, <1>3, <1>9 DEF Visited
    <2>3. \A i \in DOMAIN x.arms : ResolvedPermit(at[x.arms[i]]) \/ ~at[x.arms[i]].resolved
      BY <1>2, <1>9 DEF ResolvedPermit, ResolvedDeny
    <2>4. /\ ArmsBefore(z, n)
          /\ \A j \in DOMAIN z : \E i \in DOMAIN x.arms : z[j] = x.arms[i]
          /\ \A i \in DOMAIN x.arms : \E j \in DOMAIN z : z[j] = x.arms[i]
      <3>1. ArmsBefore(z, n) /\ Together(z, permits, pending)
        <4>1. ArmsBefore(permits, n) BY <1>5
        <4>2. ArmsBefore(pending, n) BY <1>6
        <4> QED BY <4>1, <4>2, ArmsTogether, Zenon
      <3> HIDE DEF z
      <3>2. \A i \in DOMAIN x.arms : \E j \in DOMAIN z : z[j] = x.arms[i] BY <1>5, <1>6, <2>3, <3>1 DEF Together
      <3>3. \A j \in DOMAIN z : \E i \in DOMAIN x.arms : z[j] = x.arms[i] BY <1>5, <1>6, <3>1 DEF Together
      <3> QED BY <3>1, <3>2, <3>3
    <2>5. \E i \in DOMAIN x.arms : ~at[x.arms[i]].resolved
      <3>1. DOMAIN pending # {} BY <1>6, <1>9, EmptyArms
      <3> QED BY <1>6, <3>1
    <2> HIDE DEF z
    <2>6. y.resolved = FALSE /\ y.residual = AllOf(z) /\ y.consulted = K BY <2>1, PendingIs
    <2>7. y.residual.kind = "all" /\ y.residual.arms = z BY <2>6 DEF AllOf
    <2>8. IsPolicyNode(y.residual, n) BY <2>4, <2>7 DEF IsPolicyNode
    <2> QED BY <1>3, <2>2, <2>4, <2>5, <2>6, <2>7, <2>8 DEF AllReduced, ReducedPolicy
  <1> QED BY <1>7, <1>8, <1>9

\* reduce_any: denials are left out, except perhaps the first.
AnyReduced(x, at, y, n) ==
  /\ \A i \in DOMAIN x.arms : at[x.arms[i]].consulted \subseteq y.consulted
  /\ \/ /\ y.resolved /\ y.decision \in Auditable
        /\ y.decision.effect = AnyEffect({at[x.arms[i]].decision.effect : i \in DOMAIN x.arms})
        /\ \A i \in DOMAIN x.arms : at[x.arms[i]].resolved
     \/ /\ ~y.resolved /\ y.residual.kind = "any" /\ ArmsBefore(y.residual.arms, n)
        /\ \A j \in DOMAIN y.residual.arms : \E i \in DOMAIN x.arms : y.residual.arms[j] = x.arms[i]
        /\ \A i \in DOMAIN x.arms : \/ ResolvedDeny(at[x.arms[i]])
                                    \/ \E j \in DOMAIN y.residual.arms : y.residual.arms[j] = x.arms[i]
        /\ \E i \in DOMAIN x.arms : ~at[x.arms[i]].resolved

FirstArms(p, at) ==
  IF Permits(p, at) = <<>> /\ Denials(p, at) # <<>> THEN <<Denials(p, at)[1]>> ELSE Permits(p, at)

AnyCases(p, at, y, first, consulted) ==
  /\ StillPending(p, at) = <<>> => y = Resolved(WithConsulted(EvalAny(Constants(at, first)), consulted))
  /\ StillPending(p, at) # <<>> => y = Pending(AnyOf(first \o StillPending(p, at)), consulted)

LEMMA ReduceAnyCases ==
  ASSUME NEW p, NEW at
  PROVE  AnyCases(p, at, ReduceAny(p, at), FirstArms(p, at), Consulted(At(at, p.arms), DOMAIN At(at, p.arms)))
  BY Zenon DEF ReduceAny, AnyCases, FirstArms

\* Where the arms of a disjunction go
KeptArms(x, at, I(_), arms, n) ==
  /\ ArmsBefore(arms, n)
  /\ \A j \in DOMAIN arms : \E i \in DOMAIN x.arms : I(at[x.arms[i]]) /\ arms[j] = x.arms[i]
  /\ \A i \in DOMAIN x.arms : I(at[x.arms[i]]) => \E j \in DOMAIN arms : arms[j] = x.arms[i]

Unresolved(r) == ~r.resolved

LEMMA WhereArmsGo ==
  ASSUME NEW x, NEW n, ArmsBefore(x.arms, n), NEW at
  PROVE  /\ KeptArms(x, at, ResolvedPermit, Permits(x, at), n)
         /\ KeptArms(x, at, ResolvedDeny, Denials(x, at), n)
         /\ KeptArms(x, at, Unresolved, StillPending(x, at), n)
  <1>1. KeptArms(x, at, ResolvedPermit, Permits(x, at), n)
    <2> DEFINE I == {i \in DOMAIN x.arms : ResolvedPermit(at[x.arms[i]])}
               k == Permits(x, at)
    <2>1. k = Kept(x.arms, I) BY DEF Permits
    <2>2. \A i \in DOMAIN x.arms : i \in I <=> ResolvedPermit(at[x.arms[i]]) OBVIOUS
    <2> HIDE DEF I, k
    <2>3. /\ ArmsBefore(k, n)
          /\ \A j \in DOMAIN k : \E i \in DOMAIN x.arms : i \in I /\ k[j] = x.arms[i]
          /\ \A i \in DOMAIN x.arms : i \in I => \E j \in DOMAIN k : k[j] = x.arms[i]
      BY <2>1, KeptPositions
    <2>4. KeptArms(x, at, ResolvedPermit, k, n) BY <2>2, <2>3 DEF KeptArms
    <2> QED BY <2>4 DEF k
  <1>2. KeptArms(x, at, ResolvedDeny, Denials(x, at), n)
    <2> DEFINE I == {i \in DOMAIN x.arms : ResolvedDeny(at[x.arms[i]])}
               k == Denials(x, at)
    <2>1. k = Kept(x.arms, I) BY DEF Denials
    <2>2. \A i \in DOMAIN x.arms : i \in I <=> ResolvedDeny(at[x.arms[i]]) OBVIOUS
    <2> HIDE DEF I, k
    <2>3. /\ ArmsBefore(k, n)
          /\ \A j \in DOMAIN k : \E i \in DOMAIN x.arms : i \in I /\ k[j] = x.arms[i]
          /\ \A i \in DOMAIN x.arms : i \in I => \E j \in DOMAIN k : k[j] = x.arms[i]
      BY <2>1, KeptPositions
    <2>4. KeptArms(x, at, ResolvedDeny, k, n) BY <2>2, <2>3 DEF KeptArms
    <2> QED BY <2>4 DEF k
  <1>3. KeptArms(x, at, Unresolved, StillPending(x, at), n)
    <2> DEFINE I == {i \in DOMAIN x.arms : ~at[x.arms[i]].resolved}
               k == StillPending(x, at)
    <2>1. k = Kept(x.arms, I) BY DEF StillPending
    <2>2. \A i \in DOMAIN x.arms : i \in I <=> ~at[x.arms[i]].resolved OBVIOUS
    <2> HIDE DEF I, k
    <2>3. /\ ArmsBefore(k, n)
          /\ \A j \in DOMAIN k : \E i \in DOMAIN x.arms : i \in I /\ k[j] = x.arms[i]
          /\ \A i \in DOMAIN x.arms : i \in I => \E j \in DOMAIN k : k[j] = x.arms[i]
      BY <2>1, KeptPositions
    <2>4. KeptArms(x, at, Unresolved, k, n) BY <2>2, <2>3 DEF KeptArms, Unresolved
    <2> QED BY <2>4 DEF k
  <1> QED BY <1>1, <1>2, <1>3

\* The arms a disjunction puts first are resolved, and every permit is one.
LEMMA FirstAre ==
  ASSUME NEW x, NEW n, ArmsBefore(x.arms, n), NEW at
  PROVE  /\ ArmsBefore(FirstArms(x, at), n)
         /\ \A j \in DOMAIN FirstArms(x, at) :
              \E i \in DOMAIN x.arms : at[x.arms[i]].resolved /\ FirstArms(x, at)[j] = x.arms[i]
         /\ \A i \in DOMAIN x.arms : ResolvedPermit(at[x.arms[i]]) =>
              \E j \in DOMAIN FirstArms(x, at) : FirstArms(x, at)[j] = x.arms[i]
  <1> DEFINE first == FirstArms(x, at)
             permits == Permits(x, at)
             denials == Denials(x, at)
  <1>1. KeptArms(x, at, ResolvedPermit, permits, n) /\ KeptArms(x, at, ResolvedDeny, denials, n) BY WhereArmsGo
  <1>2. /\ permits = <<>> /\ denials # <<>> => first = <<denials[1]>>
        /\ ~(permits = <<>> /\ denials # <<>>) => first = permits
    BY Zenon DEF FirstArms
  <1> HIDE DEF first, permits, denials
  <1> SUFFICES /\ ArmsBefore(first, n)
               /\ \A j \in DOMAIN first : \E i \in DOMAIN x.arms : at[x.arms[i]].resolved /\ first[j] = x.arms[i]
               /\ \A i \in DOMAIN x.arms : ResolvedPermit(at[x.arms[i]]) => \E j \in DOMAIN first : first[j] = x.arms[i]
    BY DEF first
  <1>3. CASE ~(permits = <<>> /\ denials # <<>>)
    <2>1. first = permits BY <1>2, <1>3
    <2> QED BY <1>1, <2>1 DEF KeptArms, ResolvedPermit
  <1>4. CASE permits = <<>> /\ denials # <<>>
    <2>1. first = <<denials[1]>> BY <1>2, <1>4
    <2>2. ArmsBefore(permits, n) /\ ArmsBefore(denials, n) BY <1>1 DEF KeptArms
    <2>3. DOMAIN permits = {} /\ 1 \in DOMAIN denials
      <3>1. denials \in Seq(Nat) BY <2>2 DEF ArmsBefore
      <3>2. 1 \in DOMAIN denials BY <1>4, <3>1
      <3> QED BY <1>4, <2>2, <3>2, EmptyArms
    <2>4. \A i \in DOMAIN x.arms : ~ResolvedPermit(at[x.arms[i]]) BY <1>1, <2>3 DEF KeptArms
    <2>5. PICK i \in DOMAIN x.arms : ResolvedDeny(at[x.arms[i]]) /\ denials[1] = x.arms[i]
      BY <1>1, <2>3 DEF KeptArms
    <2>6. DOMAIN first = {1} /\ first[1] = x.arms[i] /\ first \in Seq(Nat)
      <3>1. x.arms[i] \in Nat BY DEF ArmsBefore
      <3> QED BY <2>1, <2>5, <3>1
    <2>7. ArmsBefore(first, n) BY <2>6 DEF ArmsBefore
    <2> QED BY <2>4, <2>5, <2>6, <2>7 DEF ResolvedDeny
  <1> QED BY <1>3, <1>4

LEMMA AnyShape ==
  ASSUME NEW x, NEW n, ArmsBefore(x.arms, n), NEW at,
         \A i \in DOMAIN x.arms : ReducedPolicy(at[x.arms[i]], x.arms[i])
  PROVE  AnyReduced(x, at, ReduceAny(x, at), n) /\ ReducedPolicy(ReduceAny(x, at), n)
  <1> DEFINE arms == At(at, x.arms)
             K == Consulted(arms, DOMAIN arms)
             y == ReduceAny(x, at)
             first == FirstArms(x, at)
             pending == StillPending(x, at)
             E == {at[x.arms[i]].decision.effect : i \in DOMAIN x.arms}
  <1>1. AnyCases(x, at, y, first, K) BY ReduceAnyCases
  <1>2. K \subseteq Facts /\ \A i \in DOMAIN x.arms : at[x.arms[i]].consulted \subseteq K
    <2>1. DOMAIN arms = DOMAIN x.arms /\ \A i \in DOMAIN x.arms : arms[i] = at[x.arms[i]] BY DEF At
    <2> HIDE DEF arms
    <2> QED BY <2>1 DEF Consulted, ReducedPolicy
  <1>3. /\ ArmsBefore(first, n)
        /\ \A j \in DOMAIN first : \E i \in DOMAIN x.arms : at[x.arms[i]].resolved /\ first[j] = x.arms[i]
        /\ \A i \in DOMAIN x.arms : ResolvedPermit(at[x.arms[i]]) => \E j \in DOMAIN first : first[j] = x.arms[i]
    BY FirstAre
  <1>4. KeptArms(x, at, Unresolved, pending, n) BY WhereArmsGo
  <1>5. ArmsBefore(pending, n) BY <1>4 DEF KeptArms
  <1> HIDE DEF K, y, first, pending
  <1> SUFFICES AnyReduced(x, at, y, n) /\ ReducedPolicy(y, n) BY DEF y
  <1>6. CASE pending = <<>>
    <2> DEFINE e == EvalAny(Constants(at, first))
               d == WithConsulted(e, K)
    <2>1. y = Resolved(d) BY <1>1, <1>6 DEF AnyCases, pending
    <2>2. \A i \in DOMAIN x.arms : at[x.arms[i]].resolved
      <3>1. DOMAIN pending = {} BY <1>5, <1>6, EmptyArms
      <3> QED BY <1>4, <3>1 DEF KeptArms, Unresolved
    <2>3. \A j \in DOMAIN first : at[first[j]].decision \in Auditable BY <1>3 DEF ReducedPolicy
    <2>4. e \in Auditable /\ e.effect = AnyEffect(E)
      <3> DEFINE F == {at[first[j]].decision.effect : j \in DOMAIN first}
      <3>1. /\ IsArms(Constants(at, first))
            /\ \A i \in DOMAIN Constants(at, first) : Constants(at, first)[i] \in Auditable
            /\ Effects(Constants(at, first)) = F
        BY <1>3, <2>3, ConstantsAre
      <3>2. F \subseteq E BY <1>3
      <3>3. E \ {Denied} \subseteq F
        <4> SUFFICES ASSUME NEW i \in DOMAIN x.arms, at[x.arms[i]].decision.effect # Denied
                     PROVE  at[x.arms[i]].decision.effect \in F
          OBVIOUS
        <4>1. ResolvedPermit(at[x.arms[i]]) BY <2>2 DEF ResolvedPermit, IsPermit
        <4> QED BY <1>3, <4>1
      <3> HIDE DEF E, F
      <3>4. F \ {Denied} = E \ {Denied} BY <3>2, <3>3
      <3>5. AnyEffect(F) = AnyEffect(E) BY <3>4 DEF AnyEffect
      <3> QED BY <3>1, <3>5, AnyDecides
    <2> HIDE DEF e
    <2>5. d \in Auditable /\ d.effect = AnyEffect(E) /\ d.consulted = K BY <1>2, <2>4, WithConsultedType
    <2> HIDE DEF d
    <2>6. y.resolved = TRUE /\ y.decision = d /\ y.consulted = K BY <2>1, <2>5, ResolvedIs
    <2>7. AnyReduced(x, at, y, n) BY <1>2, <2>2, <2>5, <2>6 DEF AnyReduced
    <2> QED BY <1>2, <2>5, <2>6, <2>7 DEF ReducedPolicy
  <1>7. CASE pending # <<>>
    <2> DEFINE z == first \o pending
    <2>1. y = Pending(AnyOf(z), K) BY <1>1, <1>7 DEF AnyCases, pending
    <2>2. ArmsBefore(z, n) /\ Together(z, first, pending) BY <1>3, <1>5, ArmsTogether, Zenon
    <2> HIDE DEF z
    <2>3. \A j \in DOMAIN z : \E i \in DOMAIN x.arms : z[j] = x.arms[i] BY <1>3, <1>4, <2>2 DEF Together, KeptArms
    <2>4. \A i \in DOMAIN x.arms : ResolvedDeny(at[x.arms[i]]) \/ \E j \in DOMAIN z : z[j] = x.arms[i]
      <3> SUFFICES ASSUME NEW i \in DOMAIN x.arms, ~ResolvedDeny(at[x.arms[i]]) PROVE \E j \in DOMAIN z : z[j] = x.arms[i]
        OBVIOUS
      <3>1. CASE ~at[x.arms[i]].resolved BY <1>4, <2>2, <3>1 DEF Together, KeptArms, Unresolved
      <3>2. CASE ResolvedPermit(at[x.arms[i]]) BY <1>3, <2>2, <3>2 DEF Together
      <3> QED BY <3>1, <3>2 DEF ResolvedPermit, ResolvedDeny
    <2>5. \E i \in DOMAIN x.arms : ~at[x.arms[i]].resolved
      <3>1. DOMAIN pending # {} BY <1>5, <1>7, EmptyArms
      <3> QED BY <1>4, <3>1 DEF KeptArms, Unresolved
    <2>6. y.resolved = FALSE /\ y.residual = AnyOf(z) /\ y.consulted = K BY <2>1, PendingIs
    <2>7. y.residual.kind = "any" /\ y.residual.arms = z BY <2>6 DEF AnyOf
    <2>8. IsPolicyNode(y.residual, n) BY <2>2, <2>7 DEF IsPolicyNode
    <2>9. AnyReduced(x, at, y, n) BY <1>2, <2>2, <2>3, <2>4, <2>5, <2>6, <2>7 DEF AnyReduced
    <2> QED BY <1>2, <2>6, <2>8, <2>9 DEF ReducedPolicy
  <1> QED BY <1>6, <1>7

\* The grant's condition, reduced
Reduced(x, pf) == ReduceConditionTable(x.condition, pf)[Len(x.condition)]

\* A grant is resolved when its condition is known; otherwise what is left of
\* the condition guards it.
GrantReduced(x, y, pf) ==
  /\ y.consulted = Reduced(x, pf).consulted
  /\ \/ /\ Reduced(x, pf).known /\ y.resolved /\ y.decision \in Auditable
        /\ y.decision.effect = IF Reduced(x, pf).satisfied THEN x.outcome ELSE Denied
     \/ /\ ~Reduced(x, pf).known /\ ~y.resolved /\ y.residual.kind = "grant" /\ GrantNode(y.residual)
        /\ y.residual.outcome = x.outcome /\ y.residual.condition = ResidualCondition(x.condition, pf)

LEMMA PresentCompletes ==
  ASSUME NEW pf
  PROVE  Present(pf) \in Completions(pf)
  <1>1. Present(pf) = Present(pf) \union {} OBVIOUS
  <1>2. {} \in SUBSET Unknown(pf) OBVIOUS
  <1> QED BY <1>1, <1>2 DEF Completions

LEMMA ReduceGrantCases ==
  ASSUME NEW x, NEW pf
  PROVE  /\ Reduced(x, pf).known =>
              ReduceGrant(x, pf) = Resolved(WithConsulted(EvalGrant(x, Present(pf)), Reduced(x, pf).consulted))
         /\ ~Reduced(x, pf).known =>
              ReduceGrant(x, pf) =
                Pending(Grant(x.outcome, ResidualCondition(x.condition, pf), x.obligations, x.label),
                        Reduced(x, pf).consulted)
  BY Zenon DEF ReduceGrant, Reduced, Root

LEMMA GrantShape ==
  ASSUME NEW x, GrantNode(x), NEW n, NEW pf
  PROVE  GrantReduced(x, ReduceGrant(x, pf), pf) /\ ReducedPolicy(ReduceGrant(x, pf), n)
  <1> DEFINE c == x.condition
             N == Len(c)
             r == Reduced(x, pf)
             y == ReduceGrant(x, pf)
             K == r.consulted
  <1>1. IsCondition(c) /\ N \in 1 .. Len(c) BY Trees DEF GrantNode
  <1>2. ReducedCondition(r, N, pf) BY <1>1, ReducedConditionType DEF Reduced
  <1>3. K \subseteq Facts /\ r.known \in BOOLEAN BY <1>2 DEF ReducedCondition
  <1>4. /\ r.known => y = Resolved(WithConsulted(EvalGrant(x, Present(pf)), K))
        /\ ~r.known => y = Pending(Grant(x.outcome, ResidualCondition(c, pf), x.obligations, x.label), K)
    BY ReduceGrantCases, Zenon
  <1>5. CASE r.known
    <2> DEFINE S == Present(pf)
               e == EvalGrant(x, S)
               d == WithConsulted(e, K)
    <2>1. e \in Auditable /\ e.effect = IF EvalCondition(c, S).satisfied THEN x.outcome ELSE Denied BY GrantType
    <2>2. EvalCondition(c, S).satisfied = r.satisfied
      <3>1. S \in Completions(pf) BY PresentCompletes
      <3>2. \A X : Agree(S, S, X) BY DEF Agree
      <3>3. ConditionTable(c, S)[N].satisfied = ReducedValue(r, ConditionTable(ResidualCondition(c, pf), S)[N])
        <4> DEFINE R == ReduceConditionTable(c, pf)
                   V == ConditionTable(ResidualCondition(c, pf), S)
                   W == ConditionTable(c, S)
        <4>1. \A i \in 1 .. Len(c) : Agree(S, S, R[i].consulted \union V[i].consulted) =>
                 W[i].satisfied = ReducedValue(R[i], V[i])
          BY <1>1, <3>1, ConditionPreserved
        <4>2. r = R[N] BY DEF Reduced
        <4> HIDE DEF R, V, W, S, N, r
        <4>3. W[N].satisfied = ReducedValue(R[N], V[N]) BY <1>1, <3>2, <4>1
        <4> QED BY <4>2, <4>3 DEF V, W
      <3>4. EvalCondition(c, S) = ConditionTable(c, S)[N] BY DEF EvalCondition, Root
      <3> HIDE DEF S, c, N, r
      <3> QED BY <1>5, <3>3, <3>4 DEF ReducedValue
    <2> HIDE DEF e, S, K
    <2>3. d \in Auditable /\ d.effect = e.effect /\ d.consulted = K BY <1>3, <2>1, WithConsultedType
    <2>4. y = Resolved(d) BY <1>4, <1>5 DEF e, S
    <2> HIDE DEF d, y, r, c
    <2>5. y.resolved = TRUE /\ y.decision = d /\ y.consulted = K BY <2>3, <2>4, ResolvedIs
    <2>6. y.decision.effect = IF r.satisfied THEN x.outcome ELSE Denied BY <2>1, <2>2, <2>3, <2>5
    <2>7. GrantReduced(x, y, pf) BY <1>5, <2>3, <2>5, <2>6 DEF GrantReduced, r, K
    <2>8. ReducedPolicy(y, n) BY <1>3, <2>3, <2>5 DEF ReducedPolicy
    <2> QED BY <2>7, <2>8 DEF y
  <1>6. CASE ~r.known
    <2> DEFINE q == ResidualCondition(c, pf)
               z == Grant(x.outcome, q, x.obligations, x.label)
    <2>1. IsCondition(q) BY <1>1, ResidualConditionType
    <2>2. y = Pending(z, K) BY <1>4, <1>6
    <2> HIDE DEF q, y, r, K, c
    <2>3. /\ z.kind = "grant" /\ z.outcome = x.outcome /\ z.condition = q
          /\ z.obligations = x.obligations /\ z.label = x.label
      BY DEF Grant
    <2> HIDE DEF z
    <2>4. GrantNode(z) BY <2>1, <2>3 DEF GrantNode
    <2>5. IsPolicyNode(z, n) BY <2>3, <2>4 DEF IsPolicyNode, GrantNode
    <2>6. y.resolved = FALSE /\ y.residual = z /\ y.consulted = K BY <2>2, PendingIs
    <2>7. GrantReduced(x, y, pf) BY <1>6, <2>3, <2>4, <2>6 DEF GrantReduced, r, K, q, c
    <2>8. ReducedPolicy(y, n) BY <1>3, <2>5, <2>6 DEF ReducedPolicy
    <2> QED BY <2>7, <2>8 DEF y
  <1> QED BY <1>5, <1>6

\* reduce_or_else
OrElseReduced(x, at, y) ==
  \/ ResolvedPermit(at[x.primary]) /\ y = at[x.primary]
  \/ /\ ~at[x.primary].resolved /\ ~y.resolved /\ y.residual = x
     /\ y.consulted = at[x.primary].consulted \union at[x.fallback].consulted
  \/ /\ ResolvedDeny(at[x.primary]) /\ at[x.fallback].resolved
     /\ y.resolved /\ y.decision \in Auditable /\ y.decision.effect = at[x.fallback].decision.effect
     /\ y.consulted = at[x.primary].consulted \union at[x.fallback].consulted
  \/ /\ ResolvedDeny(at[x.primary]) /\ ~at[x.fallback].resolved
     /\ ~y.resolved /\ y.residual = at[x.fallback].residual
     /\ y.consulted = at[x.primary].consulted \union at[x.fallback].consulted

OrElseCases(p, y, primary, fallback, consulted) ==
  /\ ResolvedPermit(primary) => y = primary
  /\ ~primary.resolved => y = Pending(p, consulted)
  /\ ResolvedDeny(primary) /\ fallback.resolved => y = Resolved(WithConsulted(fallback.decision, consulted))
  /\ ResolvedDeny(primary) /\ ~fallback.resolved => y = Pending(fallback.residual, consulted)

LEMMA ReduceOrElseCases ==
  ASSUME NEW p, NEW at
  PROVE  OrElseCases(p, ReduceOrElse(p, at), at[p.primary], at[p.fallback],
                     at[p.primary].consulted \union at[p.fallback].consulted)
  BY Zenon DEF ReduceOrElse, OrElseCases, ResolvedPermit, ResolvedDeny

LEMMA LaterPolicyNode ==
  ASSUME NEW x, NEW m, NEW n \in Nat, IsPolicyNode(x, m), Before(m, n)
  PROVE  IsPolicyNode(x, n)
  BY DEF IsPolicyNode, ArmsBefore, Before

LEMMA OrElseShape ==
  ASSUME NEW x, NEW n \in Nat, x.kind = "or_else", Before(x.primary, n), Before(x.fallback, n), NEW at,
         ReducedPolicy(at[x.primary], x.primary), ReducedPolicy(at[x.fallback], x.fallback)
  PROVE  OrElseReduced(x, at, ReduceOrElse(x, at)) /\ ReducedPolicy(ReduceOrElse(x, at), n)
  <1> DEFINE a == at[x.primary]
             b == at[x.fallback]
             K == a.consulted \union b.consulted
             y == ReduceOrElse(x, at)
  <1>1. OrElseCases(x, y, a, b, K) BY ReduceOrElseCases
  <1>2. K \subseteq Facts BY DEF ReducedPolicy
  <1>3. IsPolicyNode(x, n) BY DEF IsPolicyNode
  <1>4. ReducedPolicy(a, x.primary) /\ ReducedPolicy(b, x.fallback) OBVIOUS
  <1> SUFFICES OrElseReduced(x, at, y) /\ ReducedPolicy(y, n) OBVIOUS
  <1> HIDE DEF y, a, b, K
  <1>5. CASE ResolvedPermit(a)
    <2>1. y = a BY <1>1, <1>5 DEF OrElseCases
    <2>2. ReducedPolicy(y, n) BY <1>4, <1>5, <2>1 DEF ReducedPolicy, ResolvedPermit
    <2> QED BY <1>5, <2>1, <2>2 DEF OrElseReduced, a
  <1>6. CASE ~a.resolved
    <2>1. y = Pending(x, K) BY <1>1, <1>6 DEF OrElseCases
    <2>2. y.resolved = FALSE /\ y.residual = x /\ y.consulted = K BY <2>1, PendingIs
    <2>3. ReducedPolicy(y, n) BY <1>2, <1>3, <2>2 DEF ReducedPolicy
    <2> QED BY <1>6, <2>2, <2>3 DEF OrElseReduced, a, b, K
  <1>7. CASE ResolvedDeny(a) /\ b.resolved
    <2> DEFINE d == WithConsulted(b.decision, K)
    <2>1. y = Resolved(d) BY <1>1, <1>7 DEF OrElseCases
    <2>2. d \in Auditable /\ d.effect = b.decision.effect /\ d.consulted = K
      <3>1. b.decision \in Auditable BY <1>4, <1>7 DEF ReducedPolicy
      <3> QED BY <1>2, <3>1, WithConsultedType
    <2> HIDE DEF d
    <2>3. y.resolved = TRUE /\ y.decision = d /\ y.consulted = K BY <2>1, <2>2, ResolvedIs
    <2>4. ReducedPolicy(y, n) BY <1>2, <2>2, <2>3 DEF ReducedPolicy
    <2> QED BY <1>7, <2>2, <2>3, <2>4 DEF OrElseReduced, a, b, K
  <1>8. CASE ResolvedDeny(a) /\ ~b.resolved
    <2>1. y = Pending(b.residual, K) BY <1>1, <1>8 DEF OrElseCases
    <2>2. y.resolved = FALSE /\ y.residual = b.residual /\ y.consulted = K BY <2>1, PendingIs
    <2>3. IsPolicyNode(b.residual, x.fallback) BY <1>4, <1>8 DEF ReducedPolicy
    <2>4. IsPolicyNode(b.residual, n)
      <3> DEFINE z == b.residual
                 m == x.fallback
      <3>1. IsPolicyNode(z, m) /\ Before(m, n) BY <2>3
      <3> HIDE DEF z, m
      <3>2. IsPolicyNode(z, n) BY <3>1, LaterPolicyNode
      <3> QED BY <3>2 DEF z
    <2>5. ReducedPolicy(y, n) BY <1>2, <2>2, <2>4 DEF ReducedPolicy
    <2> QED BY <1>8, <2>2, <2>5 DEF OrElseReduced, a, b, K
  <1> QED BY <1>5, <1>6, <1>7, <1>8 DEF ResolvedPermit, ResolvedDeny

LEMMA ReduceKinds ==
  ASSUME NEW p, NEW at, NEW pf
  PROVE  /\ p.kind \in {"permit", "deny"} => ReduceNode(p, at, pf) = Resolved(EvalNode(p, <<>>, Present(pf)))
         /\ p.kind = "grant" => ReduceNode(p, at, pf) = ReduceGrant(p, pf)
         /\ p.kind = "all" => ReduceNode(p, at, pf) = ReduceAll(p, at)
         /\ p.kind = "any" => ReduceNode(p, at, pf) = ReduceAny(p, at)
         /\ p.kind = "or_else" => ReduceNode(p, at, pf) = ReduceOrElse(p, at)
  BY Zenon DEF ReduceNode

LEMMA ReduceSame ==
  ASSUME NEW x, NEW n, ArmsBefore(x.arms, n), NEW u, NEW v, Same(u, v, n)
  PROVE  ReduceAll(x, u) = ReduceAll(x, v) /\ ReduceAny(x, u) = ReduceAny(x, v)
  <1>1. At(u, x.arms) = At(v, x.arms) /\ \A i \in DOMAIN x.arms : u[x.arms[i]] = v[x.arms[i]] BY SameArms
  <1>2. Permits(x, u) = Permits(x, v)
    <2>1. {i \in DOMAIN x.arms : ResolvedPermit(u[x.arms[i]])} = {i \in DOMAIN x.arms : ResolvedPermit(v[x.arms[i]])}
      BY <1>1
    <2> QED BY <2>1 DEF Permits
  <1>3. Denials(x, u) = Denials(x, v)
    <2>1. {i \in DOMAIN x.arms : ResolvedDeny(u[x.arms[i]])} = {i \in DOMAIN x.arms : ResolvedDeny(v[x.arms[i]])}
      BY <1>1
    <2> QED BY <2>1 DEF Denials
  <1>4. StillPending(x, u) = StillPending(x, v)
    <2>1. {i \in DOMAIN x.arms : ~u[x.arms[i]].resolved} = {i \in DOMAIN x.arms : ~v[x.arms[i]].resolved}
      BY <1>1
    <2> QED BY <2>1 DEF StillPending
  <1>5. \A a : ArmsBefore(a, n) => Constants(u, a) = Constants(v, a) BY DEF ArmsBefore, Same, Constants
  <1>6. ArmsBefore(Permits(x, u), n) /\ ArmsBefore(FirstArms(x, u), n) BY WhereArmsGo, FirstAre DEF KeptArms
  <1>7. FirstArms(x, u) = FirstArms(x, v) BY <1>2, <1>3 DEF FirstArms
  <1>8. ReduceAll(x, u) = ReduceAll(x, v)
    <2> DEFINE arms == At(u, x.arms)
               D == {i \in DOMAIN arms : ResolvedDeny(arms[i])}
               K == Consulted(arms, Visited(arms, D))
    <2>1. AllCases(x, u, ReduceAll(x, u), arms, D, K) BY ReduceAllCases
    <2>2. AllCases(x, v, ReduceAll(x, v), arms, D, K) BY <1>1, ReduceAllCases
    <2>3. Constants(u, Permits(x, u)) = Constants(v, Permits(x, u)) BY <1>5, <1>6
    <2> HIDE DEF arms, D, K
    <2> QED BY <1>2, <1>4, <2>1, <2>2, <2>3 DEF AllCases
  <1>9. ReduceAny(x, u) = ReduceAny(x, v)
    <2> DEFINE K == Consulted(At(u, x.arms), DOMAIN At(u, x.arms))
    <2>1. AnyCases(x, u, ReduceAny(x, u), FirstArms(x, u), K) BY ReduceAnyCases
    <2>2. AnyCases(x, v, ReduceAny(x, v), FirstArms(x, v), K) BY <1>1, ReduceAnyCases
    <2>3. Constants(u, FirstArms(x, u)) = Constants(v, FirstArms(x, u)) BY <1>5, <1>6
    <2> HIDE DEF K
    <2> QED BY <1>4, <1>7, <2>1, <2>2, <2>3 DEF AnyCases
  <1> QED BY <1>8, <1>9

LEMMA ReduceLocal ==
  ASSUME NEW p, IsPolicy(p), NEW n \in 1 .. Len(p), NEW pf, NEW u, NEW v, Same(u, v, n)
  PROVE  ReduceNode(p[n], u, pf) = ReduceNode(p[n], v, pf)
  <1> DEFINE x == p[n]
  <1> SUFFICES ReduceNode(x, u, pf) = ReduceNode(x, v, pf) OBVIOUS
  <1>1. CASE x.kind \in {"permit", "deny", "grant"}
    <2> HIDE DEF x
    <2> QED BY <1>1, ReduceKinds, Zenon
  <1>2. CASE x.kind = "or_else" /\ Before(x.primary, n) /\ Before(x.fallback, n)
    <2> HIDE DEF x
    <2>1. u[x.primary] = v[x.primary] /\ u[x.fallback] = v[x.fallback] BY <1>2 DEF Same
    <2>2. ReduceOrElse(x, u) = ReduceOrElse(x, v) BY <2>1, Zenon DEF ReduceOrElse
    <2> QED BY <1>2, <2>2, ReduceKinds, ZenonT(60)
  <1>3. CASE x.kind \in {"all", "any"} /\ ArmsBefore(x.arms, n)
    <2> HIDE DEF x
    <2>1. ReduceAll(x, u) = ReduceAll(x, v) /\ ReduceAny(x, u) = ReduceAny(x, v) BY <1>3, ReduceSame
    <2>2. CASE x.kind = "all"
      <3>1. ReduceNode(x, u, pf) = ReduceAll(x, u) /\ ReduceNode(x, v, pf) = ReduceAll(x, v)
        BY <2>2, ReduceKinds
      <3> QED BY <2>1, <3>1
    <2>3. CASE x.kind = "any"
      <3>1. ReduceNode(x, u, pf) = ReduceAny(x, u) /\ ReduceNode(x, v, pf) = ReduceAny(x, v)
        BY <2>3, ReduceKinds
      <3> QED BY <2>1, <3>1
    <2> QED BY <1>3, <2>2, <2>3
  <1> QED BY <1>1, <1>2, <1>3, PolicyKinds

ReduceStep(env, at, n) == ReduceNode(env[1][n], at, env[2])
ReduceRec == INSTANCE Recursion WITH Step <- ReduceStep

LEMMA ReduceTableRec ==
  ASSUME NEW p, IsPolicy(p), NEW pf
  PROVE  \A n \in 1 .. Len(p) : ReduceTable(p, pf)[n] = ReduceNode(p[n], ReduceTable(p, pf), pf)
  <1> DEFINE env == <<p, pf>>
             t == ReduceRec!Table(env, Len(p))
  <1>1. ReduceTable(p, pf) = t
    BY Zenon DEF ReduceTable, ReduceRec!Table, ReduceStep
  <1>2. \A n, u : ReduceStep(env, u, n) = ReduceNode(p[n], u, pf)
    BY Zenon DEF ReduceStep
  <1> HIDE DEF env
  <1>3. ReduceRec!Local(env, Len(p))
    BY <1>2, ReduceLocal DEF ReduceRec!Local, ReduceRec!Below, Same, Before
  <1>4. t = [n \in 1 .. Len(p) |-> ReduceStep(env, t, n)]
    BY <1>3, PolicyIsTree, TreePositions, ReduceRec!TableEquation
  <1> HIDE DEF t
  <1> QED BY <1>1, <1>2, <1>4

\* What a node of the policy was reduced to
NodeReduced(x, at, y, n, pf) ==
  /\ x.kind = "permit" => y.resolved /\ y.decision.effect = x.outcome
  /\ x.kind = "deny" => y.resolved /\ y.decision.effect = Denied
  /\ x.kind = "grant" => GrantReduced(x, y, pf)
  /\ x.kind = "all" => AllReduced(x, at, y, n)
  /\ x.kind = "any" => AnyReduced(x, at, y, n)
  /\ x.kind = "or_else" => OrElseReduced(x, at, y)

LEMMA ReducedShapes ==
  ASSUME NEW p, IsPolicy(p), NEW pf
  PROVE  \A n \in 1 .. Len(p) : /\ ReducedPolicy(ReduceTable(p, pf)[n], n)
                                /\ NodeReduced(p[n], ReduceTable(p, pf), ReduceTable(p, pf)[n], n, pf)
  <1> DEFINE N == Len(p)
             r == ReduceTable(p, pf)
             G == {n \in 1 .. N : ReducedPolicy(r[n], n) /\ NodeReduced(p[n], r, r[n], n, pf)}
  <1>1. N \in Nat /\ \A n \in 1 .. N : r[n] = ReduceNode(p[n], r, pf)
    BY PolicyIsTree, TreePositions, ReduceTableRec
  <1>2. ASSUME NEW n \in 1 .. N, \A m \in Nat : 1 <= m /\ m < n => m \in G PROVE n \in G
    <2>1. \A m : Before(m, n) => ReducedPolicy(r[m], m) BY <1>2 DEF Before
    <2> DEFINE x == p[n]
               y == r[n]
    <2>2. y = ReduceNode(x, r, pf) BY <1>1
    <2>3. n \in Nat BY <1>1
    <2> SUFFICES ReducedPolicy(y, n) /\ NodeReduced(x, r, y, n, pf) OBVIOUS
    <2>4. \/ x.kind = "permit" /\ x.outcome \in Outcomes
          \/ x.kind = "deny"
          \/ x.kind = "grant" /\ GrantNode(x)
          \/ x.kind = "all" /\ ArmsBefore(x.arms, n)
          \/ x.kind = "any" /\ ArmsBefore(x.arms, n)
          \/ x.kind = "or_else" /\ Before(x.primary, n) /\ Before(x.fallback, n)
      BY PolicyKinds
    <2> HIDE DEF N, r, x, y
    <2>5. CASE x.kind = "permit" /\ x.outcome \in Outcomes
      <3> DEFINE d == Decision(x.outcome, {}, "permit", {}, NoLabel)
      <3>1. y = Resolved(d) BY <2>2, <2>5, ReduceKinds, EvalKinds
      <3>2. d \in PermitDecisions /\ d.effect = x.outcome BY <2>5, LabelAssumption, DecisionType
      <3> HIDE DEF d
      <3>3. d \in Auditable /\ d.consulted \subseteq Facts BY <3>2, Auditing DEF PermitDecisions
      <3>4. y.resolved = TRUE /\ y.decision = d /\ y.consulted = d.consulted BY <3>1, ResolvedIs
      <3> QED BY <2>5, <3>2, <3>3, <3>4 DEF ReducedPolicy, NodeReduced
    <2>6. CASE x.kind = "deny"
      <3> DEFINE d == GenericDeny
      <3>1. y = Resolved(d) BY <2>2, <2>6, ReduceKinds, EvalKinds
      <3>2. d \in Auditable /\ d.effect = Denied /\ d.consulted = {} BY GenericDenyType
      <3> HIDE DEF d
      <3>3. y.resolved = TRUE /\ y.decision = d /\ y.consulted = d.consulted BY <3>1, ResolvedIs
      <3> QED BY <2>6, <3>2, <3>3 DEF ReducedPolicy, NodeReduced
    <2>7. CASE x.kind = "grant" /\ GrantNode(x)
      <3>1. y = ReduceGrant(x, pf) BY <2>2, <2>7, ReduceKinds
      <3>2. GrantReduced(x, y, pf) /\ ReducedPolicy(y, n) BY <2>7, <3>1, GrantShape
      <3> QED BY <2>7, <3>2 DEF NodeReduced
    <2>8. CASE x.kind = "all" /\ ArmsBefore(x.arms, n)
      <3>1. y = ReduceAll(x, r) BY <2>2, <2>8, ReduceKinds
      <3>2. \A i \in DOMAIN x.arms : ReducedPolicy(r[x.arms[i]], x.arms[i]) BY <2>1, <2>8 DEF ArmsBefore
      <3>3. AllReduced(x, r, y, n) /\ ReducedPolicy(y, n) BY <2>8, <3>1, <3>2, AllShape
      <3> QED BY <2>8, <3>3 DEF NodeReduced
    <2>9. CASE x.kind = "any" /\ ArmsBefore(x.arms, n)
      <3>1. y = ReduceAny(x, r) BY <2>2, <2>9, ReduceKinds
      <3>2. \A i \in DOMAIN x.arms : ReducedPolicy(r[x.arms[i]], x.arms[i]) BY <2>1, <2>9 DEF ArmsBefore
      <3>3. AnyReduced(x, r, y, n) /\ ReducedPolicy(y, n) BY <2>9, <3>1, <3>2, AnyShape
      <3> QED BY <2>9, <3>3 DEF NodeReduced
    <2>10. CASE x.kind = "or_else" /\ Before(x.primary, n) /\ Before(x.fallback, n)
      <3>1. y = ReduceOrElse(x, r) BY <2>2, <2>10, ReduceKinds
      <3>2. ReducedPolicy(r[x.primary], x.primary) /\ ReducedPolicy(r[x.fallback], x.fallback) BY <2>1, <2>10
      <3>3. OrElseReduced(x, r, y) /\ ReducedPolicy(y, n) BY <2>3, <2>10, <3>1, <3>2, OrElseShape
      <3> QED BY <2>10, <3>3 DEF NodeReduced
    <2> QED BY <2>4, <2>5, <2>6, <2>7, <2>8, <2>9, <2>10
  <1> HIDE DEF G, N
  <1>3. 1 .. N \subseteq G BY <1>1, <1>2, ReduceRec!Positions
  <1> QED BY <1>3 DEF G, N

\* What is left of the policy, with a constant for every resolved node
Residue(p, pf) == [n \in 1 .. Len(p) |-> ResidualNode(ReduceTable(p, pf)[n])]

LEMMA ResidueIs ==
  ASSUME NEW p, IsPolicy(p), NEW pf
  PROVE  /\ IsTree(Residue(p, pf)) /\ Len(Residue(p, pf)) = Len(p)
         /\ \A n \in 1 .. Len(p) :
              /\ ReduceTable(p, pf)[n].resolved =>
                   /\ Residue(p, pf)[n].kind \in {"permit_trace", "deny_trace"}
                   /\ Residue(p, pf)[n].decision.effect = ReduceTable(p, pf)[n].decision.effect
                   /\ Residue(p, pf)[n].decision.consulted = {}
              /\ ~ReduceTable(p, pf)[n].resolved =>
                   /\ Residue(p, pf)[n] = ReduceTable(p, pf)[n].residual
                   /\ Residue(p, pf)[n].kind \notin {"permit_trace", "deny_trace"}
  <1> DEFINE N == Len(p)
             r == ReduceTable(p, pf)
             q == Residue(p, pf)
  <1>1. N \in Nat /\ N # 0 BY DEF IsPolicy
  <1>2. q = [n \in 1 .. N |-> ResidualNode(r[n])] BY DEF Residue
  <1>3. \A n \in 1 .. N : ReducedPolicy(r[n], n) BY ReducedShapes
  <1> HIDE DEF r, q, N
  <1>4. DOMAIN q = 1 .. N /\ Len(q) = N
    <2>1. q \in Seq({q[n] : n \in 1 .. N}) /\ DOMAIN q = 1 .. N BY <1>1, <1>2
    <2> QED BY <1>1, <2>1
  <1>5. \A n \in 1 .. N : /\ r[n].resolved => q[n] = FromResolved(r[n])
                          /\ ~r[n].resolved => q[n] = r[n].residual
    BY <1>2 DEF ResidualNode
  <1>6. ASSUME NEW n \in 1 .. N, r[n].resolved
        PROVE  /\ q[n].kind \in {"permit_trace", "deny_trace"} /\ q[n].decision.effect = r[n].decision.effect
               /\ q[n].decision.consulted = {} /\ IsTraceNode(q[n])
    <2>1. r[n].decision \in Auditable BY <1>3, <1>6 DEF ReducedPolicy
    <2> QED BY <1>5, <1>6, <2>1, ConstantIs
  <1>7. ASSUME NEW n \in 1 .. N, ~r[n].resolved
        PROVE  IsPolicyNode(q[n], n) /\ q[n].kind \notin {"permit_trace", "deny_trace"}
    <2>1. IsPolicyNode(q[n], n) BY <1>3, <1>5, <1>7 DEF ReducedPolicy
    <2> QED BY <2>1 DEF IsPolicyNode
  <1>8. IsTree(q) BY <1>1, <1>4, <1>6, <1>7 DEF IsTree
  <1> QED BY <1>4, <1>5, <1>6, <1>7, <1>8 DEF N, r, q

\* What a node of a tree consulted, in terms of its arms
ConsultedOfNode(x, t, n, S) ==
  /\ x.kind \in {"permit_trace", "deny_trace"} => t[n] = x.decision
  /\ x.kind = "grant" => t[n].consulted = EvalCondition(x.condition, S).consulted
  /\ x.kind = "all" =>
       \/ \E i \in DOMAIN x.arms : t[x.arms[i]].effect = Denied /\ t[x.arms[i]].consulted \subseteq t[n].consulted
       \/ \A i \in DOMAIN x.arms : t[x.arms[i]].effect # Denied /\ t[x.arms[i]].consulted \subseteq t[n].consulted
  /\ x.kind = "any" => \A i \in DOMAIN x.arms : t[x.arms[i]].consulted \subseteq t[n].consulted
  /\ x.kind = "or_else" =>
       /\ t[x.primary].consulted \subseteq t[n].consulted
       /\ t[x.primary].effect = Denied => t[x.fallback].consulted \subseteq t[n].consulted

LEMMA NodeConsults ==
  ASSUME NEW p, IsTree(p), NEW S, NEW n \in 1 .. Len(p)
  PROVE  ConsultedOfNode(p[n], EvalTable(p, S), n, S)
  <1> DEFINE t == EvalTable(p, S)
             x == p[n]
  <1>1. /\ t \in [1 .. Len(p) -> Auditable] /\ t[n] = EvalNode(x, t, S)
    BY EvalTableRec
  <1>2. \A m : Before(m, n) => t[m] \in Auditable BY <1>1, TreePositions
  <1>3. \/ x.kind = "permit" /\ x.outcome \in Outcomes
        \/ x.kind = "deny"
        \/ x.kind \in {"permit_trace", "deny_trace"} /\ x.decision \in Auditable
        \/ x.kind = "grant" /\ GrantNode(x)
        \/ x.kind = "all" /\ ArmsBefore(x.arms, n)
        \/ x.kind = "any" /\ ArmsBefore(x.arms, n)
        \/ x.kind = "or_else" /\ Before(x.primary, n) /\ Before(x.fallback, n)
    BY TreeKinds
  <1> SUFFICES ConsultedOfNode(x, t, n, S) OBVIOUS
  <1> HIDE DEF t, x
  <1>4. CASE x.kind \in {"permit", "deny"} BY <1>4 DEF ConsultedOfNode
  <1>5. CASE x.kind \in {"permit_trace", "deny_trace"}
    <2>1. t[n] = x.decision BY <1>1, <1>5, EvalKinds
    <2> QED BY <1>5, <2>1 DEF ConsultedOfNode
  <1>6. CASE x.kind = "grant" /\ GrantNode(x)
    <2>1. t[n] = EvalGrant(x, S) BY <1>1, <1>6, EvalKinds
    <2>2. t[n].consulted = EvalCondition(x.condition, S).consulted BY <1>6, <2>1, GrantType
    <2> QED BY <1>6, <2>2 DEF ConsultedOfNode
  <1>7. CASE x.kind = "all" /\ ArmsBefore(x.arms, n)
    <2> DEFINE a == At(t, x.arms)
               R == Refusals(a)
    <2>1. t[n] = EvalAll(a) BY <1>1, <1>7, EvalKinds
    <2>2. DOMAIN a = DOMAIN x.arms /\ \A i \in DOMAIN x.arms : a[i] = t[x.arms[i]] BY DEF At
    <2>3. IsArms(a) BY <1>7, AtIsArms
    <2>4. DOMAIN x.arms \subseteq Nat BY <1>7, EmptyArms
    <2> HIDE DEF a
    <2>5. \A i \in DOMAIN a : a[i] \in Auditable BY <1>2, <1>7, <2>2 DEF ArmsBefore
    <2>6. \A i \in Visited(a, R) : a[i].consulted \subseteq t[n].consulted BY <2>1, <2>3, <2>5, AllConsults
    <2>7. R \subseteq DOMAIN a /\ \A i \in DOMAIN a : i \in R <=> a[i].effect = Denied
      BY DEF Refusals, IsPermit
    <2> HIDE DEF R
    <2>8. CASE R = {}
      <3>1. \A i \in DOMAIN a : i \in Visited(a, R) BY <2>8 DEF Visited
      <3>2. \A i \in DOMAIN x.arms : t[x.arms[i]].effect # Denied /\ t[x.arms[i]].consulted \subseteq t[n].consulted
        BY <2>2, <2>6, <2>7, <2>8, <3>1
      <3> QED BY <1>7, <3>2 DEF ConsultedOfNode
    <2>9. CASE R # {}
      <3>1. R \subseteq Nat BY <2>2, <2>4, <2>7
      <3>2. PICK k \in R : \A j \in R : k <= j BY <2>9, <3>1, EvalRec!Least
      <3>3. k \in Visited(a, R) BY <2>7, <3>2 DEF Visited
      <3>4. k \in DOMAIN x.arms /\ t[x.arms[k]].effect = Denied /\ t[x.arms[k]].consulted \subseteq t[n].consulted
        BY <2>2, <2>6, <2>7, <3>2, <3>3
      <3> QED BY <1>7, <3>4 DEF ConsultedOfNode
    <2> QED BY <2>8, <2>9
  <1>8. CASE x.kind = "any" /\ ArmsBefore(x.arms, n)
    <2> DEFINE a == At(t, x.arms)
    <2>1. t[n] = EvalAny(a) BY <1>1, <1>8, EvalKinds
    <2>2. DOMAIN a = DOMAIN x.arms /\ \A i \in DOMAIN x.arms : a[i] = t[x.arms[i]] BY DEF At
    <2>3. IsArms(a) BY <1>8, AtIsArms
    <2> HIDE DEF a
    <2>4. \A i \in DOMAIN a : a[i] \in Auditable BY <1>2, <1>8, <2>2 DEF ArmsBefore
    <2>5. t[n].consulted = UNION {a[i].consulted : i \in DOMAIN a} BY <2>1, <2>3, <2>4, AnyConsults
    <2>6. \A i \in DOMAIN x.arms : t[x.arms[i]].consulted \subseteq t[n].consulted BY <2>2, <2>5
    <2> QED BY <1>8, <2>6 DEF ConsultedOfNode
  <1>9. CASE x.kind = "or_else" /\ Before(x.primary, n) /\ Before(x.fallback, n)
    <2> DEFINE d == t[x.primary]
               e == t[x.fallback]
    <2>1. t[n] = EvalOrElse(d, e) BY <1>1, <1>9, EvalKinds
    <2>2. d \in Auditable /\ e \in Auditable BY <1>2, <1>9
    <2> HIDE DEF d, e
    <2>3. /\ d.effect # Denied => t[n].consulted = d.consulted
          /\ d.effect = Denied => t[n].consulted = d.consulted \union e.consulted
      BY <2>1, <2>2, OrElseDecides
    <2>4. /\ d.consulted \subseteq t[n].consulted
          /\ d.effect = Denied => e.consulted \subseteq t[n].consulted
      BY <2>3
    <2> QED BY <1>9, <2>4 DEF ConsultedOfNode, d, e
  <1> QED BY <1>3, <1>4, <1>5, <1>6, <1>7, <1>8, <1>9

\* What is left of a policy has the effect of the policy, for every choice of
\* the facts that agrees on what the reduction and the residual consulted.
LEMMA PolicyPreserved ==
  ASSUME NEW p, IsPolicy(p), NEW pf, NEW S \in Completions(pf), NEW T
  PROVE  \A n \in 1 .. Len(p) :
           Agree(S, T, ReduceTable(p, pf)[n].consulted \union EvalTable(Residue(p, pf), S)[n].consulted) =>
             EvalTable(p, T)[n].effect = EvalTable(Residue(p, pf), S)[n].effect
  <1> DEFINE N == Len(p)
             r == ReduceTable(p, pf)
             q == Residue(p, pf)
             v == EvalTable(q, S)
             u == EvalTable(p, T)
             Good(n) == Agree(S, T, r[n].consulted \union v[n].consulted) => u[n].effect = v[n].effect
             G == {n \in 1 .. N : Good(n)}
  <1>1. N \in Nat /\ IsTree(p) /\ IsTree(q) /\ Len(q) = N BY PolicyIsTree, TreePositions, ResidueIs
  <1>2. \A n \in 1 .. N : NodeReduced(p[n], r, r[n], n, pf) BY ReducedShapes
  <1>3. \A n \in 1 .. N : EffectOfNode(p[n], u, n, T) BY <1>1, NodeEffects
  <1>4. \A n \in 1 .. N : EffectOfNode(q[n], v, n, S) /\ ConsultedOfNode(q[n], v, n, S) BY <1>1, NodeEffects, NodeConsults
  <1>5. \A n \in 1 .. N :
          /\ r[n].resolved => /\ q[n].kind \in {"permit_trace", "deny_trace"}
                              /\ q[n].decision.effect = r[n].decision.effect /\ q[n].decision.consulted = {}
          /\ ~r[n].resolved => q[n] = r[n].residual
    BY ResidueIs
  <1>6. \A n \in 1 .. N : r[n].resolved => v[n].effect = r[n].decision.effect /\ v[n].consulted = {}
    <2> SUFFICES ASSUME NEW n \in 1 .. N, r[n].resolved PROVE v[n].effect = r[n].decision.effect /\ v[n].consulted = {}
      OBVIOUS
    <2>1. v[n] = q[n].decision
      <3>1. ConsultedOfNode(q[n], v, n, S) /\ q[n].kind \in {"permit_trace", "deny_trace"} BY <1>4, <1>5
      <3> HIDE DEF q, v, r
      <3> QED BY <3>1 DEF ConsultedOfNode
    <2> HIDE DEF q, v, r
    <2> QED BY <1>5, <2>1
  <1>7. \A n \in 1 .. N : v[n] = EvalNode(q[n], v, S) BY <1>1, EvalTableRec
  <1>8. ASSUME NEW n \in 1 .. N, \A m \in Nat : 1 <= m /\ m < n => m \in G PROVE n \in G
    <2>1. \A m : Before(m, n) => Good(m) /\ m \in 1 .. N BY <1>1, <1>8 DEF Before
    <2> DEFINE x == p[n]
               y == r[n]
    <2>2. \/ x.kind = "permit" /\ x.outcome \in Outcomes
          \/ x.kind = "deny"
          \/ x.kind = "grant" /\ GrantNode(x)
          \/ x.kind = "all" /\ ArmsBefore(x.arms, n)
          \/ x.kind = "any" /\ ArmsBefore(x.arms, n)
          \/ x.kind = "or_else" /\ Before(x.primary, n) /\ Before(x.fallback, n)
      BY PolicyKinds
    <2>3. NodeReduced(x, r, y, n, pf) /\ EffectOfNode(x, u, n, T) BY <1>2, <1>3
    <2>4. ~y.resolved => EffectOfNode(y.residual, v, n, S) /\ ConsultedOfNode(y.residual, v, n, S) BY <1>4, <1>5
    <2>5. y.resolved => v[n].effect = y.decision.effect /\ v[n].consulted = {} BY <1>6
    <2> SUFFICES ASSUME Agree(S, T, y.consulted \union v[n].consulted) PROVE u[n].effect = v[n].effect
      OBVIOUS
    <2>6. ASSUME NEW m, Before(m, n), r[m].consulted \subseteq y.consulted,
                 ~r[m].resolved => v[m].consulted \subseteq v[n].consulted
          PROVE  u[m].effect = v[m].effect
      <3>1. Good(m) /\ m \in 1 .. N BY <2>1, <2>6
      <3>2. r[m].resolved => v[m].consulted = {} BY <1>6, <3>1
      <3> HIDE DEF r, v, u, y
      <3>3. r[m].consulted \union v[m].consulted \subseteq y.consulted \union v[n].consulted BY <2>6, <3>2
      <3>4. Agree(S, T, r[m].consulted \union v[m].consulted) BY <3>3, AgreeOnPart
      <3> QED BY <3>1, <3>4
    <2>7. \A m : Before(m, n) => (r[m].resolved => v[m].effect = r[m].decision.effect /\ v[m].consulted = {})
      BY <1>6, <2>1
    <2> HIDE DEF N, r, q, v, u, x, y
    <2>8. CASE x.kind = "permit"
      <3>1. u[n].effect = x.outcome BY <2>3, <2>8 DEF EffectOfNode
      <3>2. y.resolved /\ y.decision.effect = x.outcome BY <2>3, <2>8 DEF NodeReduced
      <3> QED BY <2>5, <3>1, <3>2
    <2>9. CASE x.kind = "deny"
      <3>1. u[n].effect = Denied BY <2>3, <2>9 DEF EffectOfNode
      <3>2. y.resolved /\ y.decision.effect = Denied BY <2>3, <2>9 DEF NodeReduced
      <3> QED BY <2>5, <3>1, <3>2
    <2>10. CASE x.kind = "grant" /\ GrantNode(x)
      <3> DEFINE c == x.condition
                 k == Len(c)
                 R == ReduceConditionTable(c, pf)
                 V == ConditionTable(ResidualCondition(c, pf), S)
                 W == ConditionTable(c, T)
      <3>1. IsCondition(c) /\ k \in 1 .. Len(c) BY <2>10, Trees DEF GrantNode
      <3>2. \A i \in 1 .. Len(c) : Agree(S, T, R[i].consulted \union V[i].consulted) =>
               W[i].satisfied = ReducedValue(R[i], V[i])
        <4>1. S \in Completions(pf) OBVIOUS
        <4> HIDE DEF c
        <4> QED BY <3>1, <4>1, ConditionPreserved
      <3>3. EvalCondition(c, T) = W[k] /\ Reduced(x, pf) = R[k] BY DEF EvalCondition, Root, Reduced
      <3>4. EvalCondition(ResidualCondition(c, pf), S) = V[k]
        BY <3>1, ResidualConditionType DEF EvalCondition, Root
      <3>5. u[n].effect = IF W[k].satisfied THEN x.outcome ELSE Denied BY <2>3, <2>10, <3>3 DEF EffectOfNode
      <3>6. GrantReduced(x, y, pf) BY <2>3, <2>10 DEF NodeReduced
      <3>7. R[k].known => V[k].consulted = {}
        <4> SUFFICES ASSUME R[k].known PROVE V[k].consulted = {} OBVIOUS
        <4> DEFINE w == ResidualCondition(c, pf)
        <4>1. w[k] = Never /\ IsCondition(w) /\ Len(w) = Len(c) BY <3>1, ResidualConditionType
        <4>2. V[k] = EvalConditionNode(Never, V, S) BY <3>1, <4>1, ConditionTableRec
        <4>3. V[k] = ConditionEval(FALSE, {}, {}) BY <4>2, EvalConditionKinds DEF Never
        <4> QED BY <4>3 DEF ConditionEval
      <3> DEFINE qc == ResidualCondition(c, pf)
      <3> HIDE DEF R, V, W, qc, k
      <3>8. CASE R[k].known
        <4>1. y.resolved /\ y.decision.effect = IF R[k].satisfied THEN x.outcome ELSE Denied
          BY <3>3, <3>6, <3>8 DEF GrantReduced
        <4>2. y.consulted = R[k].consulted BY <3>3, <3>6 DEF GrantReduced
        <4>3. R[k].consulted \union V[k].consulted \subseteq y.consulted \union v[n].consulted BY <3>7, <3>8, <4>2
        <4>4. Agree(S, T, R[k].consulted \union V[k].consulted) BY <4>3, AgreeOnPart
        <4>5. W[k].satisfied = R[k].satisfied BY <3>1, <3>2, <3>8, <4>4 DEF ReducedValue
        <4> QED BY <2>5, <3>5, <4>1, <4>5
      <3>9. CASE ~R[k].known
        <4> DEFINE z == y.residual
        <4>1. ~y.resolved /\ z.kind = "grant" /\ z.outcome = x.outcome /\ z.condition = qc
          BY <3>3, <3>6, <3>9 DEF GrantReduced, qc
        <4>2. y.consulted = R[k].consulted BY <3>3, <3>6 DEF GrantReduced
        <4>3. EffectOfNode(z, v, n, S) /\ ConsultedOfNode(z, v, n, S) BY <2>4, <4>1
        <4> HIDE DEF z
        <4>4. EvalCondition(z.condition, S) = V[k] BY <3>4, <4>1 DEF qc
        <4>5. v[n].consulted = V[k].consulted BY <4>1, <4>3, <4>4 DEF ConsultedOfNode
        <4>6. v[n].effect = IF V[k].satisfied THEN x.outcome ELSE Denied BY <4>1, <4>3, <4>4 DEF EffectOfNode
        <4>7. R[k].consulted \union V[k].consulted \subseteq y.consulted \union v[n].consulted BY <4>2, <4>5
        <4>8. Agree(S, T, R[k].consulted \union V[k].consulted) BY <4>7, AgreeOnPart
        <4>9. W[k].satisfied = V[k].satisfied BY <3>1, <3>2, <3>9, <4>8 DEF ReducedValue
        <4> QED BY <3>5, <4>6, <4>9
      <3> QED BY <3>8, <3>9
    <2>11. CASE x.kind = "all" /\ ArmsBefore(x.arms, n)
      <3> DEFINE U == {u[x.arms[i]].effect : i \in DOMAIN x.arms}
      <3>1. u[n].effect = AllEffect(U) BY <2>3, <2>11 DEF EffectOfNode
      <3>2. \A i \in DOMAIN x.arms : Before(x.arms[i], n) BY <2>11 DEF ArmsBefore
      <3>3. AllReduced(x, r, y, n) BY <2>3, <2>11 DEF NodeReduced
      <3>4. CASE /\ y.resolved /\ y.decision \in Auditable /\ y.decision.effect = Denied
                 /\ \E i \in DOMAIN x.arms : ResolvedDeny(r[x.arms[i]]) /\ r[x.arms[i]].consulted \subseteq y.consulted
        <4>1. PICK i \in DOMAIN x.arms : ResolvedDeny(r[x.arms[i]]) /\ r[x.arms[i]].consulted \subseteq y.consulted
          BY <3>4
        <4>2. r[x.arms[i]].resolved /\ r[x.arms[i]].decision.effect = Denied BY <4>1 DEF ResolvedDeny, IsPermit
        <4>3. u[x.arms[i]].effect = Denied BY <2>6, <2>7, <3>2, <4>1, <4>2
        <4>4. Denied \in U BY <4>3
        <4> QED BY <2>5, <3>1, <3>4, <4>4 DEF AllEffect
      <3>5. CASE /\ y.resolved /\ y.decision \in Auditable
                 /\ y.decision.effect = AllEffect({r[x.arms[i]].decision.effect : i \in DOMAIN x.arms})
                 /\ \A i \in DOMAIN x.arms : r[x.arms[i]].resolved /\ r[x.arms[i]].consulted \subseteq y.consulted
        <4>1. \A i \in DOMAIN x.arms : u[x.arms[i]].effect = r[x.arms[i]].decision.effect
          BY <2>6, <2>7, <3>2, <3>5
        <4>2. U = {r[x.arms[i]].decision.effect : i \in DOMAIN x.arms} BY <4>1
        <4> QED BY <2>5, <3>1, <3>5, <4>2
      <3>6. CASE /\ ~y.resolved /\ y.residual.kind = "all" /\ ArmsBefore(y.residual.arms, n)
                 /\ \A i \in DOMAIN x.arms : r[x.arms[i]].consulted \subseteq y.consulted
                 /\ \A j \in DOMAIN y.residual.arms : \E i \in DOMAIN x.arms : y.residual.arms[j] = x.arms[i]
                 /\ \A i \in DOMAIN x.arms : \E j \in DOMAIN y.residual.arms : y.residual.arms[j] = x.arms[i]
        <4> DEFINE z == y.residual
                   E == {v[z.arms[j]].effect : j \in DOMAIN z.arms}
        <4>1. EffectOfNode(z, v, n, S) /\ ConsultedOfNode(z, v, n, S) /\ z.kind = "all" BY <2>4, <3>6
        <4>2. /\ \A j \in DOMAIN z.arms : \E i \in DOMAIN x.arms : z.arms[j] = x.arms[i]
              /\ \A i \in DOMAIN x.arms : \E j \in DOMAIN z.arms : z.arms[j] = x.arms[i]
          BY <3>6
        <4> HIDE DEF z
        <4>3. v[n].effect = AllEffect(E) BY <4>1 DEF EffectOfNode
        <4>4. CASE \E j \in DOMAIN z.arms : v[z.arms[j]].effect = Denied /\ v[z.arms[j]].consulted \subseteq v[n].consulted
          <5>1. PICK j \in DOMAIN z.arms : v[z.arms[j]].effect = Denied /\ v[z.arms[j]].consulted \subseteq v[n].consulted
            BY <4>4
          <5>2. PICK i \in DOMAIN x.arms : z.arms[j] = x.arms[i] BY <4>2
          <5>3. u[x.arms[i]].effect = Denied BY <2>6, <3>2, <3>6, <5>1, <5>2
          <5>4. Denied \in U /\ Denied \in E BY <5>1, <5>3
          <5> QED BY <3>1, <4>3, <5>4 DEF AllEffect
        <4>5. CASE \A j \in DOMAIN z.arms : v[z.arms[j]].effect # Denied /\ v[z.arms[j]].consulted \subseteq v[n].consulted
          <5>1. \A i \in DOMAIN x.arms : u[x.arms[i]].effect = v[x.arms[i]].effect
            BY <2>6, <3>2, <3>6, <4>2, <4>5
          <5>2. U = E BY <4>2, <5>1
          <5> QED BY <3>1, <4>3, <5>2
        <4> QED BY <4>1, <4>4, <4>5 DEF ConsultedOfNode
      <3> QED BY <3>3, <3>4, <3>5, <3>6 DEF AllReduced
    <2>12. CASE x.kind = "any" /\ ArmsBefore(x.arms, n)
      <3> DEFINE U == {u[x.arms[i]].effect : i \in DOMAIN x.arms}
      <3>1. u[n].effect = AnyEffect(U) BY <2>3, <2>12 DEF EffectOfNode
      <3>2. \A i \in DOMAIN x.arms : Before(x.arms[i], n) BY <2>12 DEF ArmsBefore
      <3>3. AnyReduced(x, r, y, n) BY <2>3, <2>12 DEF NodeReduced
      <3>4. \A i \in DOMAIN x.arms : r[x.arms[i]].consulted \subseteq y.consulted BY <3>3 DEF AnyReduced
      <3>5. CASE /\ y.resolved /\ y.decision \in Auditable
                 /\ y.decision.effect = AnyEffect({r[x.arms[i]].decision.effect : i \in DOMAIN x.arms})
                 /\ \A i \in DOMAIN x.arms : r[x.arms[i]].resolved
        <4>1. \A i \in DOMAIN x.arms : u[x.arms[i]].effect = r[x.arms[i]].decision.effect
          BY <2>6, <2>7, <3>2, <3>4, <3>5
        <4>2. U = {r[x.arms[i]].decision.effect : i \in DOMAIN x.arms} BY <4>1
        <4> QED BY <2>5, <3>1, <3>5, <4>2
      <3>6. CASE /\ ~y.resolved /\ y.residual.kind = "any" /\ ArmsBefore(y.residual.arms, n)
                 /\ \A j \in DOMAIN y.residual.arms : \E i \in DOMAIN x.arms : y.residual.arms[j] = x.arms[i]
                 /\ \A i \in DOMAIN x.arms : \/ ResolvedDeny(r[x.arms[i]])
                                             \/ \E j \in DOMAIN y.residual.arms : y.residual.arms[j] = x.arms[i]
        <4> DEFINE z == y.residual
                   E == {v[z.arms[j]].effect : j \in DOMAIN z.arms}
        <4>1. EffectOfNode(z, v, n, S) /\ ConsultedOfNode(z, v, n, S) /\ z.kind = "any" BY <2>4, <3>6
        <4>2. /\ \A j \in DOMAIN z.arms : \E i \in DOMAIN x.arms : z.arms[j] = x.arms[i]
              /\ \A i \in DOMAIN x.arms : ResolvedDeny(r[x.arms[i]]) \/ \E j \in DOMAIN z.arms : z.arms[j] = x.arms[i]
          BY <3>6
        <4> HIDE DEF z
        <4>3. v[n].effect = AnyEffect(E) BY <4>1 DEF EffectOfNode
        <4>4. \A j \in DOMAIN z.arms : v[z.arms[j]].consulted \subseteq v[n].consulted BY <4>1 DEF ConsultedOfNode
        <4>5. \A j \in DOMAIN z.arms : u[z.arms[j]].effect = v[z.arms[j]].effect
          BY <2>6, <3>2, <3>4, <4>2, <4>4
        <4>6. \A i \in DOMAIN x.arms : ResolvedDeny(r[x.arms[i]]) => u[x.arms[i]].effect = Denied
          <5> SUFFICES ASSUME NEW i \in DOMAIN x.arms, ResolvedDeny(r[x.arms[i]]) PROVE u[x.arms[i]].effect = Denied
            OBVIOUS
          <5>1. r[x.arms[i]].resolved /\ r[x.arms[i]].decision.effect = Denied BY DEF ResolvedDeny, IsPermit
          <5> QED BY <2>6, <2>7, <3>2, <3>4, <5>1
        <4>7. E \subseteq U BY <4>2, <4>5
        <4>8. U \ {Denied} \subseteq E BY <4>2, <4>5, <4>6
        <4> HIDE DEF U, E
        <4>9. U \ {Denied} = E \ {Denied} BY <4>7, <4>8
        <4>10. AnyEffect(U) = AnyEffect(E) BY <4>9 DEF AnyEffect
        <4> QED BY <3>1, <4>3, <4>10
      <3> QED BY <3>3, <3>5, <3>6 DEF AnyReduced
    <2>13. CASE x.kind = "or_else" /\ Before(x.primary, n) /\ Before(x.fallback, n)
      <3> DEFINE a == x.primary
                 b == x.fallback
      <3>1. u[n].effect = IF u[a].effect # Denied THEN u[a].effect ELSE u[b].effect BY <2>3, <2>13 DEF EffectOfNode
      <3>2. OrElseReduced(x, r, y) BY <2>3, <2>13 DEF NodeReduced
      <3>3. Before(a, n) /\ Before(b, n) BY <2>13
      <3> HIDE DEF a, b
      <3>4. CASE ResolvedPermit(r[a]) /\ y = r[a]
        <4>1. r[a].resolved /\ r[a].decision.effect # Denied BY <3>4 DEF ResolvedPermit, IsPermit
        <4>2. u[a].effect = v[a].effect BY <2>6, <3>3, <3>4, <4>1
        <4>3. v[a].effect = r[a].decision.effect BY <2>7, <3>3, <4>1
        <4> QED BY <2>5, <3>1, <3>4, <4>1, <4>2, <4>3
      <3>5. CASE /\ ~r[a].resolved /\ ~y.resolved /\ y.residual = x
                 /\ y.consulted = r[a].consulted \union r[b].consulted
        <4>1. EffectOfNode(x, v, n, S) /\ ConsultedOfNode(x, v, n, S) BY <2>4, <3>5
        <4>2. /\ v[n].effect = IF v[a].effect # Denied THEN v[a].effect ELSE v[b].effect
              /\ v[a].consulted \subseteq v[n].consulted
              /\ v[a].effect = Denied => v[b].consulted \subseteq v[n].consulted
          BY <2>13, <4>1 DEF EffectOfNode, ConsultedOfNode, a, b
        <4>3. r[a].consulted \subseteq y.consulted /\ r[b].consulted \subseteq y.consulted BY <3>5
        <4>4. u[a].effect = v[a].effect BY <2>6, <3>3, <4>2, <4>3
        <4>5. v[a].effect = Denied => u[b].effect = v[b].effect BY <2>6, <3>3, <4>2, <4>3
        <4> QED BY <3>1, <4>2, <4>4, <4>5
      <3>6. CASE /\ ResolvedDeny(r[a]) /\ r[b].resolved
                 /\ y.resolved /\ y.decision \in Auditable /\ y.decision.effect = r[b].decision.effect
                 /\ y.consulted = r[a].consulted \union r[b].consulted
        <4>1. r[a].resolved /\ r[a].decision.effect = Denied BY <3>6 DEF ResolvedDeny, IsPermit
        <4>2. r[a].consulted \subseteq y.consulted /\ r[b].consulted \subseteq y.consulted BY <3>6
        <4>3. u[a].effect = Denied BY <2>6, <2>7, <3>3, <4>1, <4>2
        <4>4. u[b].effect = r[b].decision.effect BY <2>6, <2>7, <3>3, <3>6, <4>2
        <4> QED BY <2>5, <3>1, <3>6, <4>3, <4>4
      <3>7. CASE /\ ResolvedDeny(r[a]) /\ ~r[b].resolved
                 /\ ~y.resolved /\ y.residual = r[b].residual
                 /\ y.consulted = r[a].consulted \union r[b].consulted
        <4>1. r[a].resolved /\ r[a].decision.effect = Denied BY <3>7 DEF ResolvedDeny, IsPermit
        <4>2. r[a].consulted \subseteq y.consulted /\ r[b].consulted \subseteq y.consulted BY <3>7
        <4>3. u[a].effect = Denied BY <2>6, <2>7, <3>3, <4>1, <4>2
        <4>4. v[n] = v[b]
          <5>1. b \in 1 .. N BY <2>1, <3>3
          <5>2. q[n] = y.residual /\ q[b] = r[b].residual BY <1>5, <3>7, <5>1 DEF y
          <5>3. v[n] = EvalNode(q[n], v, S) /\ v[b] = EvalNode(q[b], v, S) BY <1>7, <5>1
          <5> QED BY <3>7, <5>2, <5>3
        <4>5. u[b].effect = v[b].effect BY <2>6, <3>3, <4>2, <4>4
        <4> QED BY <3>1, <4>3, <4>4, <4>5
      <3> QED BY <3>2, <3>4, <3>5, <3>6, <3>7 DEF OrElseReduced, a, b
    <2> QED BY <2>2, <2>8, <2>9, <2>10, <2>11, <2>12, <2>13
  <1> HIDE DEF G, N
  <1>9. 1 .. N \subseteq G BY <1>1, <1>8, ReduceRec!Positions
  <1> QED BY <1>9 DEF G, N

\* What is left of a policy asks for unknown facts, and for at least one.
LEMMA ResidueFacts ==
  ASSUME NEW p, IsPolicy(p), NEW pf
  PROVE  \A n \in 1 .. Len(p) :
           /\ RequiredFactsTable(Residue(p, pf))[n] \subseteq Unknown(pf)
           /\ ~ReduceTable(p, pf)[n].resolved => RequiredFactsTable(Residue(p, pf))[n] # {}
  <1> DEFINE N == Len(p)
             r == ReduceTable(p, pf)
             q == Residue(p, pf)
             f == RequiredFactsTable(q)
             Good(n) == f[n] \subseteq Unknown(pf) /\ (~r[n].resolved => f[n] # {})
             G == {n \in 1 .. N : Good(n)}
  <1>1. N \in Nat /\ IsTree(q) /\ Len(q) = N BY PolicyIsTree, TreePositions, ResidueIs
  <1>2. \A n \in 1 .. N : NodeReduced(p[n], r, r[n], n, pf) BY ReducedShapes
  <1>3. \A n \in 1 .. N : f[n] = RequiredFactsNode(q[n], f) BY <1>1, RequiredFactsTableRec
  <1>4. \A n \in 1 .. N : /\ r[n].resolved => q[n].kind \in {"permit_trace", "deny_trace"}
                          /\ ~r[n].resolved => q[n] = r[n].residual
    BY ResidueIs
  <1>5. ASSUME NEW n \in 1 .. N, \A m \in Nat : 1 <= m /\ m < n => m \in G PROVE n \in G
    <2>1. \A m : Before(m, n) => Good(m) /\ m \in 1 .. N BY <1>1, <1>5 DEF Before
    <2> SUFFICES Good(n) OBVIOUS
    <2>2. CASE r[n].resolved
      <3> DEFINE y == q[n]
      <3>1. y.kind \in {"permit_trace", "deny_trace"} /\ f[n] = RequiredFactsNode(y, f) BY <1>3, <1>4, <2>2
      <3> HIDE DEF y, f
      <3>2. f[n] = {} BY <3>1, RequiredFactsKinds
      <3> QED BY <2>2, <3>2
    <2>3. CASE ~r[n].resolved
      <3> DEFINE x == p[n]
                 y == r[n]
                 z == y.residual
      <3>1. \/ x.kind = "permit" /\ x.outcome \in Outcomes
            \/ x.kind = "deny"
            \/ x.kind = "grant" /\ GrantNode(x)
            \/ x.kind = "all" /\ ArmsBefore(x.arms, n)
            \/ x.kind = "any" /\ ArmsBefore(x.arms, n)
            \/ x.kind = "or_else" /\ Before(x.primary, n) /\ Before(x.fallback, n)
        BY PolicyKinds
      <3>2. NodeReduced(x, r, y, n, pf) /\ ~y.resolved BY <1>2, <2>3
      <3>3. f[n] = RequiredFactsNode(z, f) BY <1>3, <1>4, <2>3
      <3>4. SUFFICES f[n] \subseteq Unknown(pf) /\ f[n] # {} OBVIOUS
      <3> HIDE DEF N, r, q, f, x, y, z
      <3>5. CASE x.kind \in {"permit", "deny"} BY <3>2, <3>5 DEF NodeReduced
      <3>6. CASE x.kind = "grant" /\ GrantNode(x)
        <4> DEFINE c == x.condition
                   w == ResidualCondition(c, pf)
        <4>1. /\ z.kind = "grant" /\ z.condition = w /\ ~Reduced(x, pf).known
          BY <3>2, <3>6 DEF NodeReduced, GrantReduced, z
        <4>2. f[n] = ConditionFacts(w) BY <3>3, <4>1, RequiredFactsKinds
        <4>3. IsCondition(c) /\ Len(c) \in 1 .. Len(c) /\ Len(w) = Len(c)
          BY <3>6, Trees, ResidualConditionType DEF GrantNode
        <4>4. f[n] = ConditionFactsTable(w)[Len(c)] BY <4>2, <4>3 DEF ConditionFacts, Root
        <4>5. /\ ConditionFactsTable(w)[Len(c)] \subseteq Unknown(pf)
              /\ ~ReduceConditionTable(c, pf)[Len(c)].known => ConditionFactsTable(w)[Len(c)] # {}
          BY <4>3, ResidualConditionFacts
        <4>6. ~ReduceConditionTable(c, pf)[Len(c)].known BY <4>1 DEF Reduced
        <4> QED BY <4>4, <4>5, <4>6
      <3>7. CASE x.kind = "all" /\ ArmsBefore(x.arms, n)
        <4>1. /\ z.kind = "all" /\ ArmsBefore(z.arms, n)
              /\ \A i \in DOMAIN x.arms : \E j \in DOMAIN z.arms : z.arms[j] = x.arms[i]
              /\ \E i \in DOMAIN x.arms : ~r[x.arms[i]].resolved
          BY <3>2, <3>7 DEF NodeReduced, AllReduced, z
        <4>2. f[n] = UNION {f[z.arms[j]] : j \in DOMAIN z.arms} BY <3>3, <4>1, RequiredFactsKinds
        <4>3. \A j \in DOMAIN z.arms : Good(z.arms[j]) BY <2>1, <4>1 DEF ArmsBefore
        <4>4. PICK j \in DOMAIN z.arms : ~r[z.arms[j]].resolved BY <4>1
        <4> QED BY <4>2, <4>3, <4>4
      <3>8. CASE x.kind = "any" /\ ArmsBefore(x.arms, n)
        <4>1. /\ z.kind = "any" /\ ArmsBefore(z.arms, n)
              /\ \A i \in DOMAIN x.arms : ResolvedDeny(r[x.arms[i]]) \/ \E j \in DOMAIN z.arms : z.arms[j] = x.arms[i]
              /\ \E i \in DOMAIN x.arms : ~r[x.arms[i]].resolved
          BY <3>2, <3>8 DEF NodeReduced, AnyReduced, z
        <4>2. f[n] = UNION {f[z.arms[j]] : j \in DOMAIN z.arms} BY <3>3, <4>1, RequiredFactsKinds
        <4>3. \A j \in DOMAIN z.arms : Good(z.arms[j]) BY <2>1, <4>1 DEF ArmsBefore
        <4>4. PICK j \in DOMAIN z.arms : ~r[z.arms[j]].resolved BY <4>1 DEF ResolvedDeny
        <4> QED BY <4>2, <4>3, <4>4
      <3>9. CASE x.kind = "or_else" /\ Before(x.primary, n) /\ Before(x.fallback, n)
        <4>1. Good(x.primary) /\ Good(x.fallback) /\ x.fallback \in 1 .. N BY <2>1, <3>9
        <4>2. OrElseReduced(x, r, y) BY <3>2, <3>9 DEF NodeReduced
        <4>3. CASE ~r[x.primary].resolved /\ z = x
          <5>1. f[n] = f[x.primary] \union f[x.fallback] BY <3>3, <3>9, <4>3, RequiredFactsKinds
          <5> QED BY <4>1, <4>3, <5>1
        <4>4. CASE ~r[x.fallback].resolved /\ z = r[x.fallback].residual
          <5>1. f[x.fallback] = RequiredFactsNode(q[x.fallback], f) /\ q[x.fallback] = r[x.fallback].residual
            BY <1>3, <1>4, <4>1, <4>4
          <5>2. f[n] = f[x.fallback] BY <3>3, <4>4, <5>1
          <5> QED BY <4>1, <4>4, <5>2
        <4> QED BY <3>2, <4>2, <4>3, <4>4 DEF OrElseReduced, z, ResolvedPermit
      <3> QED BY <3>1, <3>5, <3>6, <3>7, <3>8, <3>9
    <2> QED BY <2>2, <2>3
  <1> HIDE DEF G, N
  <1>6. 1 .. N \subseteq G BY <1>1, <1>5, ReduceRec!Positions
  <1> QED BY <1>6 DEF G, N

-----------------------------------------------------------------------------
(***************************************************************************)
(* What a service holds: the residual was reduced from facts that the      *)
(* facts it knows by now extend.                                           *)
(***************************************************************************)
Extends(pf, known) == \A f \in Facts : known[f] # "unknown" => pf[f] = known[f]

LEMMA FewerCompletions ==
  ASSUME NEW pf \in PartialFacts, NEW known \in PartialFacts, Extends(pf, known)
  PROVE  Completions(pf) \subseteq Completions(known)
  <1> SUFFICES ASSUME NEW S \in Completions(pf) PROVE S \in Completions(known) OBVIOUS
  <1> DEFINE U == S \ Present(known)
  <1>1. S \subseteq Facts /\ \A f \in Facts : f \in Known(pf) => (f \in S <=> f \in Present(pf))
    BY DEF Completions, Present, Unknown, Known
  <1>2. Present(known) \subseteq S BY <1>1 DEF Extends, Present, Known
  <1>3. U \subseteq Unknown(known) BY <1>1 DEF Extends, Present, Known, Unknown
  <1>4. S = Present(known) \union U BY <1>2
  <1> QED BY <1>3, <1>4 DEF Completions

LEMMA PartialEvaluateIs ==
  ASSUME NEW p, IsPolicy(p), NEW pf
  PROVE  /\ ReduceTable(p, pf)[Len(p)].resolved => PartialEvaluate(p, pf) = ReduceTable(p, pf)[Len(p)]
         /\ ~ReduceTable(p, pf)[Len(p)].resolved =>
              PartialEvaluate(p, pf) = Pending(Residue(p, pf), ReduceTable(p, pf)[Len(p)].consulted)
  BY Zenon DEF PartialEvaluate, Residue, Root

\* A completed residual has the effect of evaluating the policy with any facts
\* that agree on what it says were consulted, and can be audited.
LEMMA Completed ==
  ASSUME NEW p, IsPolicy(p), NEW pf, NEW S \in Completions(pf), NEW T
  PROVE  /\ CompleteResidual(PartialEvaluate(p, pf), S) \in Auditable
         /\ Agree(S, T, CompleteResidual(PartialEvaluate(p, pf), S).consulted) =>
              Evaluate(p, T).effect = CompleteResidual(PartialEvaluate(p, pf), S).effect
  <1> DEFINE N == Len(p)
             R == ReduceTable(p, pf)
             r == R[N]
             q == Residue(p, pf)
             V == EvalTable(q, S)
             v == V[N]
             U == EvalTable(p, T)
             h == PartialEvaluate(p, pf)
             d == CompleteResidual(h, S)
  <1>1. N \in 1 .. N /\ IsTree(p) /\ IsTree(q) /\ Len(q) = N BY PolicyIsTree, TreePositions, ResidueIs
  <1>2. ReducedPolicy(r, N) BY <1>1, ReducedShapes
  <1>3. Agree(S, T, r.consulted \union v.consulted) => U[N].effect = v.effect
    <2>1. \A n \in 1 .. N : Agree(S, T, R[n].consulted \union V[n].consulted) => U[n].effect = V[n].effect
      BY PolicyPreserved
    <2> HIDE DEF R, V, U, N
    <2> QED BY <1>1, <2>1
  <1>4. Evaluate(p, T) = U[N] /\ Evaluate(q, S) = v BY <1>1 DEF Evaluate, Root
  <1>5. v \in Auditable BY <1>1, EvalTableRec
  <1>6. /\ r.resolved => h = r
        /\ ~r.resolved => h = Pending(q, r.consulted)
    BY PartialEvaluateIs
  <1>7. r.resolved => v.effect = r.decision.effect /\ v.consulted = {}
    <2> SUFFICES ASSUME r.resolved PROVE v.effect = r.decision.effect /\ v.consulted = {} OBVIOUS
    <2> DEFINE x == q[N]
    <2>1. /\ x.kind \in {"permit_trace", "deny_trace"}
          /\ x.decision.effect = r.decision.effect /\ x.decision.consulted = {}
      BY <1>1, ResidueIs
    <2>2. ConsultedOfNode(x, V, N, S) BY <1>1, NodeConsults
    <2> HIDE DEF x, V, N, r
    <2> QED BY <2>1, <2>2 DEF ConsultedOfNode
  <1> SUFFICES d \in Auditable /\ (Agree(S, T, d.consulted) => U[N].effect = d.effect) BY <1>4
  <1> HIDE DEF h, q, r, v, U, N
  <1>8. CASE r.resolved
    <2>1. d = r.decision BY <1>6, <1>8 DEF CompleteResidual
    <2>2. d \in Auditable /\ d.consulted = r.consulted BY <1>2, <1>8, <2>1 DEF ReducedPolicy
    <2>3. d.consulted = r.consulted \union v.consulted BY <1>7, <1>8, <2>2
    <2> QED BY <1>3, <1>7, <1>8, <2>1, <2>2, <2>3
  <1>9. CASE ~r.resolved
    <2> DEFINE K == r.consulted \union v.consulted
    <2>0. h = Pending(q, r.consulted) BY <1>6, <1>9
    <2>1. h.resolved = FALSE /\ h.residual = q /\ h.consulted = r.consulted BY <2>0, PendingIs, ZenonT(60)
    <2>2. d = WithConsulted(v, K) BY <1>4, <2>1 DEF CompleteResidual
    <2>3. K \subseteq Facts BY <1>2, <1>5, Auditing DEF ReducedPolicy
    <2> HIDE DEF K, d
    <2>4. d \in Auditable /\ d.effect = v.effect /\ d.consulted = K BY <1>5, <2>2, <2>3, WithConsultedType
    <2> QED BY <1>3, <2>4 DEF K
  <1> QED BY <1>8, <1>9

-----------------------------------------------------------------------------
(***************************************************************************)
(* lower_condition: the predicate of a condition over row facts is never   *)
(* NULL and has the value the condition has on the facts of the row.       *)
(***************************************************************************)
LEMMA LowerConditionKinds ==
  ASSUME NEW c, NEW at, NEW r
  PROVE  /\ c.kind = "always" => LowerConditionNode(c, at, r) = TRUE
         /\ c.kind = "never" => LowerConditionNode(c, at, r) = FALSE
         /\ c.kind = "has" => LowerConditionNode(c, at, r) = IsTrue(r.column[c.fact])
         /\ c.kind = "not" => LowerConditionNode(c, at, r) = SqlNot(at[c.arm])
         /\ c.kind = "all" /\ c.arms = <<>> => LowerConditionNode(c, at, r) = FALSE
         /\ c.kind = "all" /\ c.arms # <<>> => LowerConditionNode(c, at, r) = SqlAnd(Values(at, c.arms))
         /\ c.kind = "any" /\ c.arms = <<>> => LowerConditionNode(c, at, r) = FALSE
         /\ c.kind = "any" /\ c.arms # <<>> => LowerConditionNode(c, at, r) = SqlOr(Values(at, c.arms))
  BY Zenon DEF LowerConditionNode

LEMMA SameValues ==
  ASSUME NEW u, NEW v, NEW n, Same(u, v, n), NEW arms, ArmsBefore(arms, n)
  PROVE  Values(u, arms) = Values(v, arms)
  BY SameArms DEF Values

LEMMA LowerConditionLocal ==
  ASSUME NEW c, NEW n, IsConditionNode(c, n), NEW r, NEW u, NEW v, Same(u, v, n)
  PROVE  LowerConditionNode(c, u, r) = LowerConditionNode(c, v, r)
  <1>1. CASE c.kind \in {"always", "never", "has"} BY <1>1, LowerConditionKinds, Zenon
  <1>2. CASE c.kind = "not" /\ Before(c.arm, n)
    <2>1. u[c.arm] = v[c.arm] BY <1>2 DEF Same
    <2> QED BY <1>2, <2>1, LowerConditionKinds, Zenon
  <1>3. CASE c.kind \in {"all", "any"} /\ ArmsBefore(c.arms, n)
    <2>1. Values(u, c.arms) = Values(v, c.arms) BY <1>3, SameValues
    <2> QED BY <1>3, <2>1, LowerConditionKinds, Zenon
  <1> QED BY <1>1, <1>2, <1>3, ConditionKinds

LowerConditionStep(env, at, n) == LowerConditionNode(env[1][n], at, env[2])
LowerConditionRec == INSTANCE Recursion WITH Step <- LowerConditionStep

LEMMA LowerConditionTableRec ==
  ASSUME NEW c, IsCondition(c), NEW r
  PROVE  \A n \in 1 .. Len(c) :
           LowerConditionTable(c, r)[n] = LowerConditionNode(c[n], LowerConditionTable(c, r), r)
  <1> DEFINE env == <<c, r>>
             t == LowerConditionRec!Table(env, Len(c))
  <1>1. LowerConditionTable(c, r) = t
    BY Zenon DEF LowerConditionTable, LowerConditionRec!Table, LowerConditionStep
  <1>2. \A n, u : LowerConditionStep(env, u, n) = LowerConditionNode(c[n], u, r)
    BY Zenon DEF LowerConditionStep
  <1> HIDE DEF env
  <1>3. LowerConditionRec!Local(env, Len(c))
    BY <1>2, Trees, LowerConditionLocal DEF LowerConditionRec!Local, LowerConditionRec!Below, Same, Before
  <1>4. t = [n \in 1 .. Len(c) |-> LowerConditionStep(env, t, n)]
    BY <1>3, Trees, LowerConditionRec!TableEquation
  <1> HIDE DEF t
  <1> QED BY <1>1, <1>2, <1>4

\* A has-condition asks for a fact of the row, which holds as its column says.
RowCondition(c, pf) == IsCondition(c) /\ \A n \in 1 .. Len(c) : c[n].kind = "has" => c[n].fact \in Unknown(pf)

OfRow(S, r, pf) == \A f \in Unknown(pf) : f \in S <=> r.column[f] = TRUE

LEMMA SqlValues ==
  ASSUME NEW X, X \subseteq BOOLEAN
  PROVE  /\ FALSE \in X => SqlAnd(X) = FALSE
         /\ FALSE \notin X => SqlAnd(X) = TRUE
         /\ TRUE \in X => SqlOr(X) = TRUE
         /\ TRUE \notin X => SqlOr(X) = FALSE
  <1>1. Null \notin X BY NullAssumption
  <1>2. FALSE \in X => SqlAnd(X) = FALSE BY Zenon DEF SqlAnd
  <1>3. FALSE \notin X => SqlAnd(X) = TRUE BY <1>1, Zenon DEF SqlAnd
  <1>4. TRUE \in X => SqlOr(X) = TRUE BY Zenon DEF SqlOr
  <1>5. TRUE \notin X => SqlOr(X) = FALSE BY <1>1, Zenon DEF SqlOr
  <1> QED BY <1>2, <1>3, <1>4, <1>5, Zenon

LEMMA LowerConditionIs ==
  ASSUME NEW c, NEW pf, RowCondition(c, pf), NEW S, NEW r, OfRow(S, r, pf)
  PROVE  \A n \in 1 .. Len(c) : /\ LowerConditionTable(c, r)[n] \in BOOLEAN
                                /\ LowerConditionTable(c, r)[n] = ConditionTable(c, S)[n].satisfied
  <1> DEFINE N == Len(c)
             l == LowerConditionTable(c, r)
             t == ConditionTable(c, S)
             Good(n) == l[n] \in BOOLEAN /\ l[n] = t[n].satisfied
             G == {n \in 1 .. N : Good(n)}
  <1>1. N \in Nat /\ IsCondition(c) BY Trees DEF RowCondition
  <1>2. \A n \in 1 .. N : l[n] = LowerConditionNode(c[n], l, r) BY <1>1, LowerConditionTableRec
  <1>3. \A n \in 1 .. N : t[n] \in ConditionEvals /\ t[n] = EvalConditionNode(c[n], t, S) BY <1>1, ConditionTableRec
  <1>4. ASSUME NEW n \in 1 .. N, \A m \in Nat : 1 <= m /\ m < n => m \in G PROVE n \in G
    <2>1. \A m : Before(m, n) => Good(m) /\ m \in 1 .. N BY <1>1, <1>4 DEF Before
    <2> DEFINE x == c[n]
    <2>2. IsConditionNode(x, n) /\ (x.kind = "has" => x.fact \in Unknown(pf)) BY <1>1, Trees DEF RowCondition
    <2>3. l[n] = LowerConditionNode(x, l, r) /\ t[n] = EvalConditionNode(x, t, S) BY <1>2, <1>3
    <2> SUFFICES Good(n) OBVIOUS
    <2>4. \A m : Before(m, n) => t[m] \in ConditionEvals BY <1>3, <2>1
    <2> HIDE DEF N, l, t, x
    <2>5. CASE x.kind \in {"always", "never"}
      <3>1. \E b \in BOOLEAN : l[n] = b /\ t[n] = ConditionEval(b, {}, {})
        BY <2>3, <2>5, LowerConditionKinds, EvalConditionKinds
      <3> QED BY <3>1 DEF ConditionEval
    <2>6. CASE x.kind = "has"
      <3>1. l[n] = (r.column[x.fact] = TRUE) BY <2>3, <2>6, LowerConditionKinds, Zenon DEF IsTrue
      <3>2. t[n] = ConditionEval(x.fact \in S, {x.fact}, {x.fact}) BY <2>3, <2>6, EvalConditionKinds
      <3>3. t[n].satisfied = (x.fact \in S) BY <3>2 DEF ConditionEval
      <3>4. x.fact \in S <=> r.column[x.fact] = TRUE BY <2>2, <2>6 DEF OfRow
      <3> QED BY <3>1, <3>3, <3>4
    <2>7. CASE x.kind = "not" /\ Before(x.arm, n)
      <3>1. l[n] = SqlNot(l[x.arm]) BY <2>3, <2>7, LowerConditionKinds
      <3>2. t[n] = ConditionEval(~t[x.arm].satisfied, t[x.arm].decisive, t[x.arm].consulted)
        BY <2>3, <2>7, EvalConditionKinds
      <3>3. t[n].satisfied = ~t[x.arm].satisfied BY <3>2 DEF ConditionEval
      <3>4. Good(x.arm) BY <2>1, <2>7
      <3>5. l[n] = ~l[x.arm] BY <3>1, <3>4, NullAssumption DEF SqlNot
      <3> QED BY <3>3, <3>4, <3>5
    <2>8. CASE x.kind \in {"all", "any"} /\ ArmsBefore(x.arms, n)
      <3>1. PICK stop \in BOOLEAN :
              /\ t[n] = Visit(At(t, x.arms), stop)
              /\ x.kind = IF stop THEN "any" ELSE "all"
        BY <2>3, <2>8, EvalConditionKinds
      <3>2. \A i \in DOMAIN x.arms : Good(x.arms[i]) /\ t[x.arms[i]] \in ConditionEvals
        BY <2>1, <2>4, <2>8 DEF ArmsBefore
      <3>3. LoopDecides(t, x.arms, stop, t[n].satisfied) BY <2>8, <3>1, <3>2, LoopValue
      <3>4. CASE x.arms = <<>>
        <4>1. l[n] = FALSE BY <2>3, <2>8, <3>4, LowerConditionKinds
        <4>2. t[n].satisfied = FALSE BY <3>3, <3>4 DEF LoopDecides
        <4> QED BY <4>1, <4>2
      <3>5. CASE x.arms # <<>>
        <4> DEFINE X == Values(l, x.arms)
        <4>1. X \subseteq BOOLEAN BY <3>2 DEF Values
        <4>2. \A b \in BOOLEAN : b \in X <=> \E i \in DOMAIN x.arms : t[x.arms[i]].satisfied = b
          BY <3>2 DEF Values
        <4> HIDE DEF X
        <4>3. CASE stop = TRUE
          <5>1. l[n] = SqlOr(X) BY <2>3, <3>1, <3>5, <4>3, LowerConditionKinds DEF X
          <5>3. CASE TRUE \in X
            <6>1. t[n].satisfied = TRUE BY <3>3, <4>2, <4>3, <5>3 DEF LoopDecides
            <6>2. l[n] = TRUE BY <4>1, <5>1, <5>3, SqlValues
            <6> QED BY <6>1, <6>2
          <5>4. CASE TRUE \notin X
            <6>1. \A i \in DOMAIN x.arms : t[x.arms[i]].satisfied # TRUE BY <4>2, <5>4
            <6>2. t[n].satisfied = FALSE BY <3>3, <3>5, <4>3, <6>1 DEF LoopDecides
            <6>3. l[n] = FALSE BY <4>1, <5>1, <5>4, SqlValues
            <6> QED BY <6>2, <6>3
          <5> QED BY <5>3, <5>4
        <4>4. CASE stop = FALSE
          <5>1. l[n] = SqlAnd(X) BY <2>3, <3>1, <3>5, <4>4, LowerConditionKinds DEF X
          <5>3. CASE FALSE \in X
            <6>1. t[n].satisfied = FALSE BY <3>3, <4>2, <4>4, <5>3 DEF LoopDecides
            <6>2. l[n] = FALSE BY <4>1, <5>1, <5>3, SqlValues
            <6> QED BY <6>1, <6>2
          <5>4. CASE FALSE \notin X
            <6>1. \A i \in DOMAIN x.arms : t[x.arms[i]].satisfied # FALSE BY <4>2, <5>4
            <6>2. t[n].satisfied = TRUE BY <3>3, <3>5, <4>4, <6>1 DEF LoopDecides
            <6>3. l[n] = TRUE BY <4>1, <5>1, <5>4, SqlValues
            <6> QED BY <6>2, <6>3
          <5> QED BY <5>3, <5>4
        <4> QED BY <4>3, <4>4
      <3> QED BY <3>4, <3>5
    <2> QED BY <2>2, <2>5, <2>6, <2>7, <2>8, ConditionKinds
  <1> HIDE DEF G, N
  <1>5. 1 .. N \subseteq G BY <1>1, <1>4, LowerConditionRec!Positions
  <1> QED BY <1>5 DEF G, N

-----------------------------------------------------------------------------
(***************************************************************************)
(* When a conjunction or a disjunction permits, and what it then grants.   *)
(***************************************************************************)
AllBounds(d, arms) ==
  /\ d.effect # Denied <=> arms # <<>> /\ \A i \in DOMAIN arms : arms[i].effect # Denied
  /\ d.effect # Denied =>
       \A l \in Outcomes : Leq(l, d.effect) <=> \A i \in DOMAIN arms : Leq(l, arms[i].effect)

AnyBounds(d, arms) ==
  /\ d.effect # Denied <=> \E i \in DOMAIN arms : arms[i].effect # Denied
  /\ d.effect # Denied =>
       \A u \in Outcomes : Leq(d.effect, u) <=>
         \A i \in DOMAIN arms : arms[i].effect # Denied => Leq(arms[i].effect, u)

LEMMA AllBound ==
  ASSUME NEW arms, IsArms(arms), \A i \in DOMAIN arms : arms[i] \in Auditable
  PROVE  AllBounds(EvalAll(arms), arms)
  <1>1. CASE arms = <<>>
    <2>1. EvalAll(arms) = GenericDeny BY <1>1 DEF EvalAll
    <2> QED BY <1>1, <2>1, GenericDenyType DEF AllBounds
  <1>2. CASE arms # <<>> /\ Refusals(arms) = {}
    <2> DEFINE X == Consulted(arms, Visited(arms, Refusals(arms)))
               m == CommonPermit(arms)
    <2>1. EvalAll(arms) = WithConsulted(m, X) BY <1>2, EvalAllIs, Zenon
    <2>2. X \subseteq Facts BY ConsultedType DEF Visited
    <2>3. \A i \in DOMAIN arms : arms[i] \in PermitDecisions BY <1>2, Auditing DEF Refusals
    <2>4. /\ m \in PermitDecisions
          /\ \A l \in Outcomes : Leq(l, m.effect) <=> \A i \in DOMAIN arms : Leq(l, arms[i].effect)
      BY <1>2, <2>3, CommonMeets
    <2> HIDE DEF m, X
    <2>5. m \in Auditable /\ m.effect \in Outcomes BY <2>4 DEF PermitDecisions
    <2>6. EvalAll(arms).effect = m.effect BY <2>1, <2>2, <2>5, WithConsultedType
    <2>7. \A i \in DOMAIN arms : arms[i].effect # Denied BY <2>3, LatticeAssumption DEF PermitDecisions
    <2>8. EvalAll(arms).effect # Denied BY <2>5, <2>6, LatticeAssumption
    <2> QED BY <1>2, <2>4, <2>6, <2>7, <2>8 DEF AllBounds
  <1>3. CASE arms # <<>> /\ Refusals(arms) # {}
    <2> DEFINE X == Consulted(arms, Visited(arms, Refusals(arms)))
               k == Min(Refusals(arms))
    <2>1. EvalAll(arms) = WithConsulted(arms[k], X) BY <1>3, EvalAllIs, Zenon
    <2>2. X \subseteq Facts BY ConsultedType DEF Visited
    <2>3. k \in Refusals(arms)
      <3>1. Refusals(arms) \subseteq Nat BY DEF Refusals, IsArms
      <3> QED BY <1>3, <3>1, MinOf
    <2> HIDE DEF k, X
    <2>4. k \in DOMAIN arms /\ arms[k] \in Auditable /\ arms[k].effect = Denied
      BY <2>3 DEF Refusals, IsPermit
    <2>5. EvalAll(arms).effect = Denied BY <2>1, <2>2, <2>4, WithConsultedType
    <2> QED BY <2>4, <2>5 DEF AllBounds
  <1> QED BY <1>1, <1>2, <1>3

LEMMA AnyBound ==
  ASSUME NEW arms, IsArms(arms), \A i \in DOMAIN arms : arms[i] \in Auditable
  PROVE  AnyBounds(EvalAny(arms), arms)
  <1>1. CASE arms = <<>>
    <2>1. EvalAny(arms) = GenericDeny BY <1>1 DEF EvalAny
    <2>2. DOMAIN arms = {} BY <1>1 DEF IsArms
    <2> QED BY <2>1, <2>2, GenericDenyType DEF AnyBounds
  <1>2. CASE arms # <<>>
    <2> DEFINE X == Consulted(arms, DOMAIN arms)
               m == WinningPermit(arms)
    <2>1. EvalAny(arms) = WithConsulted(m, X) BY <1>2 DEF EvalAny
    <2>2. X \subseteq Facts BY ConsultedType
    <2>3. /\ m \in Auditable
          /\ IsPermit(m) <=> \E i \in DOMAIN arms : IsPermit(arms[i])
          /\ IsPermit(m) =>
               \A u \in Outcomes : Leq(m.effect, u) <=>
                 \A i \in DOMAIN arms : IsPermit(arms[i]) => Leq(arms[i].effect, u)
      BY <1>2, WinningJoins
    <2> HIDE DEF m, X
    <2>4. EvalAny(arms).effect = m.effect BY <2>1, <2>2, <2>3, WithConsultedType
    <2> QED BY <2>3, <2>4 DEF AnyBounds, IsPermit
  <1> QED BY <1>1, <1>2

LEMMA NodeBounds ==
  ASSUME NEW p, IsTree(p), NEW S, NEW n \in 1 .. Len(p), ArmsBefore(p[n].arms, n)
  PROVE  /\ p[n].kind = "all" => AllBounds(EvalTable(p, S)[n], At(EvalTable(p, S), p[n].arms))
         /\ p[n].kind = "any" => AnyBounds(EvalTable(p, S)[n], At(EvalTable(p, S), p[n].arms))
  <1> DEFINE t == EvalTable(p, S)
             x == p[n]
             arms == At(t, x.arms)
  <1>1. t \in [1 .. Len(p) -> Auditable] /\ t[n] = EvalNode(x, t, S) BY EvalTableRec
  <1>2. \A m : Before(m, n) => t[m] \in Auditable BY <1>1, TreePositions
  <1>3. \A i \in DOMAIN arms : arms[i] \in Auditable BY <1>2 DEF At, ArmsBefore
  <1>4. IsArms(arms) BY AtIsArms
  <1>5. x.kind = "all" => t[n] = EvalAll(arms) BY <1>1, EvalKinds
  <1>6. x.kind = "any" => t[n] = EvalAny(arms) BY <1>1, EvalKinds
  <1> HIDE DEF arms, t, x
  <1>7. AllBounds(EvalAll(arms), arms) /\ AnyBounds(EvalAny(arms), arms) BY <1>3, <1>4, AllBound, AnyBound
  <1> QED BY <1>5, <1>6, <1>7 DEF arms, t, x

-----------------------------------------------------------------------------
(***************************************************************************)
(* lower_node, lower_filter_node and the traits, node by node.             *)
(***************************************************************************)
LowerCases(p, at, obliged, r, nulls, y) ==
  /\ p.kind = "permit" => y = Plan(TRUE, Ordinal(p.outcome))
  /\ p.kind = "permit_trace" =>
       y = Plan(TRUE, Ordinal(p.decision.effect))
  /\ p.kind \in {"deny", "deny_trace"} => y = Plan(FALSE, Null)
  /\ p.kind = "grant" =>
       y =
         Plan(LowerCondition(p.condition, r), CaseWhen(LowerCondition(p.condition, r), Ordinal(p.outcome), Null))
  /\ p.kind \in {"all", "any"} /\ p.arms = <<>> => y = Plan(FALSE, Null)
  /\ p.kind = "all" /\ p.arms # <<>> =>
       y =
         Plan(SqlAnd(Filters(At(at, p.arms))), GradeSet("min", Field(At(at, p.arms), "grade"), nulls))
  /\ p.kind = "any" /\ p.arms # <<>> =>
       y =
         Plan(SqlOr(Filters(At(at, p.arms))), GradeSet("max", Field(At(at, p.arms), "grade"), nulls))
  /\ p.kind = "or_else" /\ Pruned(p, obliged) => y = at[p.primary]
  /\ p.kind = "or_else" /\ ~Pruned(p, obliged) =>
       y =
         Plan(SqlOr({at[p.primary].filter, at[p.fallback].filter}),
              CaseWhen(at[p.primary].filter, at[p.primary].grade, at[p.fallback].grade))

LEMMA LowerKinds ==
  ASSUME NEW p, NEW at, NEW obliged, NEW r, NEW nulls
  PROVE  LowerCases(p, at, obliged, r, nulls, LowerNode(p, at, obliged, r, nulls))
  <1>1. p.kind = "permit" => LowerNode(p, at, obliged, r, nulls) = Plan(TRUE, Ordinal(p.outcome))
    BY Zenon DEF LowerNode
  <1>2. p.kind = "permit_trace" =>
          LowerNode(p, at, obliged, r, nulls) = Plan(TRUE, Ordinal(p.decision.effect))
    BY Zenon DEF LowerNode
  <1>3. p.kind \in {"deny", "deny_trace"} => LowerNode(p, at, obliged, r, nulls) = Plan(FALSE, Null)
    BY Zenon DEF LowerNode
  <1>4. p.kind = "grant" =>
          LowerNode(p, at, obliged, r, nulls) =
            Plan(LowerCondition(p.condition, r), CaseWhen(LowerCondition(p.condition, r), Ordinal(p.outcome), Null))
    BY Zenon DEF LowerNode
  <1>5. p.kind \in {"all", "any"} /\ p.arms = <<>> => LowerNode(p, at, obliged, r, nulls) = Plan(FALSE, Null)
    BY Zenon DEF LowerNode
  <1>6. p.kind = "all" /\ p.arms # <<>> =>
          LowerNode(p, at, obliged, r, nulls) =
            Plan(SqlAnd(Filters(At(at, p.arms))), GradeSet("min", Field(At(at, p.arms), "grade"), nulls))
    BY Zenon DEF LowerNode
  <1>7. p.kind = "any" /\ p.arms # <<>> =>
          LowerNode(p, at, obliged, r, nulls) =
            Plan(SqlOr(Filters(At(at, p.arms))), GradeSet("max", Field(At(at, p.arms), "grade"), nulls))
    BY Zenon DEF LowerNode
  <1>8. p.kind = "or_else" /\ Pruned(p, obliged) => LowerNode(p, at, obliged, r, nulls) = at[p.primary]
    BY Zenon DEF LowerNode
  <1>9. p.kind = "or_else" /\ ~Pruned(p, obliged) =>
          LowerNode(p, at, obliged, r, nulls) =
            Plan(SqlOr({at[p.primary].filter, at[p.fallback].filter}),
                 CaseWhen(at[p.primary].filter, at[p.primary].grade, at[p.fallback].grade))
    BY Zenon DEF LowerNode
  <1> QED BY <1>1, <1>2, <1>3, <1>4, <1>5, <1>6, <1>7, <1>8, <1>9, Zenon DEF LowerCases

LEMMA LowerFilterKinds ==
  ASSUME NEW p, NEW at, NEW obliged, NEW r
  PROVE  /\ p.kind \in {"permit", "permit_trace"} => LowerFilterNode(p, at, obliged, r) = TRUE
         /\ p.kind \in {"deny", "deny_trace"} => LowerFilterNode(p, at, obliged, r) = FALSE
         /\ p.kind = "grant" => LowerFilterNode(p, at, obliged, r) = LowerCondition(p.condition, r)
         /\ p.kind = "or_else" => LowerFilterNode(p, at, obliged, r) = LowerFilterOrElse(p, at, obliged)
         /\ p.kind \in {"all", "any"} /\ p.arms = <<>> => LowerFilterNode(p, at, obliged, r) = FALSE
         /\ p.kind = "all" /\ p.arms # <<>> => LowerFilterNode(p, at, obliged, r) = SqlAnd(Values(at, p.arms))
         /\ p.kind = "any" /\ p.arms # <<>> => LowerFilterNode(p, at, obliged, r) = SqlOr(Values(at, p.arms))
  BY Zenon DEF LowerFilterNode

TraitsCases(p, at, obliged, y) ==
  /\ p.kind = "all" =>
       y =
         Traits(Some(At(at, p.arms), "omits"), TRUE, Some(At(at, p.arms), "misgrades"))
  /\ p.kind = "any" =>
       y =
         Traits(Some(At(at, p.arms), "omits"), Some(At(at, p.arms), "conjoins"),
                Some(At(at, p.arms), "conjoins") \/ Some(At(at, p.arms), "misgrades"))
  /\ p.kind = "or_else" /\ Pruned(p, obliged) =>
       y = [at[p.primary] EXCEPT !.omits = TRUE]
  /\ p.kind = "or_else" /\ ~Pruned(p, obliged) =>
       y = OrElseTraits(at[p.primary], at[p.fallback])
  /\ p.kind \in {"permit", "deny", "grant", "permit_trace", "deny_trace"} =>
       y = Traits(FALSE, FALSE, FALSE)

LEMMA TraitsKinds ==
  ASSUME NEW p, NEW at, NEW obliged
  PROVE  TraitsCases(p, at, obliged, TraitsNode(p, at, obliged))
  <1>1. p.kind = "all" =>
          TraitsNode(p, at, obliged) =
            Traits(Some(At(at, p.arms), "omits"), TRUE, Some(At(at, p.arms), "misgrades"))
    BY Zenon DEF TraitsNode
  <1>2. p.kind = "any" =>
          TraitsNode(p, at, obliged) =
            Traits(Some(At(at, p.arms), "omits"), Some(At(at, p.arms), "conjoins"),
                   Some(At(at, p.arms), "conjoins") \/ Some(At(at, p.arms), "misgrades"))
    BY Zenon DEF TraitsNode
  <1>3. p.kind = "or_else" /\ Pruned(p, obliged) =>
          TraitsNode(p, at, obliged) = [at[p.primary] EXCEPT !.omits = TRUE]
    BY Zenon DEF TraitsNode
  <1>4. p.kind = "or_else" /\ ~Pruned(p, obliged) =>
          TraitsNode(p, at, obliged) = OrElseTraits(at[p.primary], at[p.fallback])
    BY Zenon DEF TraitsNode
  <1>5. p.kind \in {"permit", "deny", "grant", "permit_trace", "deny_trace"} =>
          TraitsNode(p, at, obliged) = Traits(FALSE, FALSE, FALSE)
    BY Zenon DEF TraitsNode
  <1> QED BY <1>1, <1>2, <1>3, <1>4, <1>5, Zenon DEF TraitsCases

LEMMA LowerLocal ==
  ASSUME NEW p, IsTree(p), NEW n \in 1 .. Len(p), NEW obliged, NEW r, NEW nulls, NEW u, NEW v, Same(u, v, n)
  PROVE  LowerNode(p[n], u, obliged, r, nulls) = LowerNode(p[n], v, obliged, r, nulls)
  <1> DEFINE x == p[n]
             y == LowerNode(x, u, obliged, r, nulls)
             z == LowerNode(x, v, obliged, r, nulls)
  <1>1. \/ x.kind \in {"permit", "deny", "permit_trace", "deny_trace", "grant"}
        \/ x.kind \in {"all", "any"} /\ ArmsBefore(x.arms, n)
        \/ x.kind = "or_else" /\ Before(x.primary, n) /\ Before(x.fallback, n)
    BY TreeKinds
  <1> SUFFICES y = z OBVIOUS
  <1> HIDE DEF x
  <1>2. LowerCases(x, u, obliged, r, nulls, y) /\ LowerCases(x, v, obliged, r, nulls, z) BY LowerKinds
  <1> HIDE DEF y, z
  <1>3. CASE x.kind \in {"permit", "deny", "permit_trace", "deny_trace", "grant"}
    BY <1>2, <1>3 DEF LowerCases
  <1>4. CASE x.kind \in {"all", "any"} /\ ArmsBefore(x.arms, n)
    <2>1. At(u, x.arms) = At(v, x.arms) BY <1>4, SameArms
    <2> QED BY <1>2, <1>4, <2>1 DEF LowerCases
  <1>5. CASE x.kind = "or_else" /\ Before(x.primary, n) /\ Before(x.fallback, n)
    <2>1. u[x.primary] = v[x.primary] /\ u[x.fallback] = v[x.fallback] BY <1>5 DEF Same
    <2> QED BY <1>2, <1>5, <2>1 DEF LowerCases
  <1> QED BY <1>1, <1>3, <1>4, <1>5

LEMMA LowerFilterLocal ==
  ASSUME NEW p, IsTree(p), NEW n \in 1 .. Len(p), NEW obliged, NEW r, NEW u, NEW v, Same(u, v, n)
  PROVE  LowerFilterNode(p[n], u, obliged, r) = LowerFilterNode(p[n], v, obliged, r)
  <1> DEFINE x == p[n]
  <1>1. \/ x.kind \in {"permit", "deny", "permit_trace", "deny_trace", "grant"}
        \/ x.kind \in {"all", "any"} /\ ArmsBefore(x.arms, n)
        \/ x.kind = "or_else" /\ Before(x.primary, n) /\ Before(x.fallback, n)
    BY TreeKinds
  <1> SUFFICES LowerFilterNode(x, u, obliged, r) = LowerFilterNode(x, v, obliged, r) OBVIOUS
  <1> HIDE DEF x
  <1>2. CASE x.kind \in {"permit", "deny", "permit_trace", "deny_trace", "grant"}
    BY <1>2, LowerFilterKinds, Zenon
  <1>3. CASE x.kind \in {"all", "any"} /\ ArmsBefore(x.arms, n)
    <2>1. Values(u, x.arms) = Values(v, x.arms) BY <1>3, SameValues
    <2> QED BY <1>3, <2>1, LowerFilterKinds, ZenonT(60)
  <1>4. CASE x.kind = "or_else" /\ Before(x.primary, n) /\ Before(x.fallback, n)
    <2>1. u[x.primary] = v[x.primary] /\ u[x.fallback] = v[x.fallback] BY <1>4 DEF Same
    <2>2. LowerFilterOrElse(x, u, obliged) = LowerFilterOrElse(x, v, obliged) BY <2>1, Zenon DEF LowerFilterOrElse
    <2> QED BY <1>4, <2>2, LowerFilterKinds, Zenon
  <1> QED BY <1>1, <1>2, <1>3, <1>4

LEMMA TraitsLocal ==
  ASSUME NEW p, IsTree(p), NEW n \in 1 .. Len(p), NEW obliged, NEW u, NEW v, Same(u, v, n)
  PROVE  TraitsNode(p[n], u, obliged) = TraitsNode(p[n], v, obliged)
  <1> DEFINE x == p[n]
             y == TraitsNode(x, u, obliged)
             z == TraitsNode(x, v, obliged)
  <1>1. \/ x.kind \in {"permit", "deny", "permit_trace", "deny_trace", "grant"}
        \/ x.kind \in {"all", "any"} /\ ArmsBefore(x.arms, n)
        \/ x.kind = "or_else" /\ Before(x.primary, n) /\ Before(x.fallback, n)
    BY TreeKinds
  <1> SUFFICES y = z OBVIOUS
  <1> HIDE DEF x
  <1>2. TraitsCases(x, u, obliged, y) /\ TraitsCases(x, v, obliged, z) BY TraitsKinds
  <1> HIDE DEF y, z
  <1>3. CASE x.kind \in {"permit", "deny", "permit_trace", "deny_trace", "grant"}
    BY <1>2, <1>3 DEF TraitsCases
  <1>4. CASE x.kind \in {"all", "any"} /\ ArmsBefore(x.arms, n)
    <2>1. At(u, x.arms) = At(v, x.arms) BY <1>4, SameArms
    <2> QED BY <1>2, <1>4, <2>1 DEF TraitsCases
  <1>5. CASE x.kind = "or_else" /\ Before(x.primary, n) /\ Before(x.fallback, n)
    <2>1. u[x.primary] = v[x.primary] /\ u[x.fallback] = v[x.fallback] BY <1>5 DEF Same
    <2> QED BY <1>2, <1>5, <2>1 DEF TraitsCases
  <1> QED BY <1>1, <1>3, <1>4, <1>5

LowerStep(env, at, n) == LowerNode(env[1][n], at, env[2], env[3], env[4])
LowerRec == INSTANCE Recursion WITH Step <- LowerStep

LEMMA LowerTableRec ==
  ASSUME NEW p, IsTree(p), NEW r, NEW nulls
  PROVE  \A n \in 1 .. Len(p) : LowerTable(p, r, nulls)[n] = LowerNode(p[n], LowerTable(p, r, nulls), CarriesObligation(p), r, nulls)
  <1> DEFINE env == <<p, CarriesObligation(p), r, nulls>>
             t == LowerRec!Table(env, Len(p))
  <1>1. LowerTable(p, r, nulls) = t
    BY Zenon DEF LowerTable, LowerRec!Table, LowerStep
  <1>2. \A n, u : LowerStep(env, u, n) = LowerNode(p[n], u, CarriesObligation(p), r, nulls)
    BY Zenon DEF LowerStep
  <1> HIDE DEF env
  <1>3. LowerRec!Local(env, Len(p))
    <2>1. \A n, u, v : LowerRec!Below(u, v, n) => Same(u, v, n) BY DEF LowerRec!Below, Same, Before
    <2>2. \A n \in 1 .. Len(p) : \A u, v : Same(u, v, n) =>
            LowerNode(p[n], u, CarriesObligation(p), r, nulls) = LowerNode(p[n], v, CarriesObligation(p), r, nulls)
      BY LowerLocal
    <2> QED BY <1>2, <2>1, <2>2, ZenonT(60) DEF LowerRec!Local
  <1>4. t = [n \in 1 .. Len(p) |-> LowerStep(env, t, n)]
    BY <1>3, TreePositions, LowerRec!TableEquation
  <1> HIDE DEF t
  <1> QED BY <1>1, <1>2, <1>4

LowerFilterStep(env, at, n) == LowerFilterNode(env[1][n], at, env[2], env[3])
LowerFilterRec == INSTANCE Recursion WITH Step <- LowerFilterStep

LEMMA LowerFilterTableRec ==
  ASSUME NEW p, IsTree(p), NEW r
  PROVE  \A n \in 1 .. Len(p) : LowerFilterTable(p, r)[n] = LowerFilterNode(p[n], LowerFilterTable(p, r), CarriesObligation(p), r)
  <1> DEFINE env == <<p, CarriesObligation(p), r>>
             t == LowerFilterRec!Table(env, Len(p))
  <1>1. LowerFilterTable(p, r) = t
    BY Zenon DEF LowerFilterTable, LowerFilterRec!Table, LowerFilterStep
  <1>2. \A n, u : LowerFilterStep(env, u, n) = LowerFilterNode(p[n], u, CarriesObligation(p), r)
    BY Zenon DEF LowerFilterStep
  <1> HIDE DEF env
  <1>3. LowerFilterRec!Local(env, Len(p))
    <2>1. \A n, u, v : LowerFilterRec!Below(u, v, n) => Same(u, v, n) BY DEF LowerFilterRec!Below, Same, Before
    <2>2. \A n \in 1 .. Len(p) : \A u, v : Same(u, v, n) =>
            LowerFilterNode(p[n], u, CarriesObligation(p), r) = LowerFilterNode(p[n], v, CarriesObligation(p), r)
      BY LowerFilterLocal
    <2> QED BY <1>2, <2>1, <2>2, ZenonT(60) DEF LowerFilterRec!Local
  <1>4. t = [n \in 1 .. Len(p) |-> LowerFilterStep(env, t, n)]
    BY <1>3, TreePositions, LowerFilterRec!TableEquation
  <1> HIDE DEF t
  <1> QED BY <1>1, <1>2, <1>4

TraitsStep(env, at, n) == TraitsNode(env[1][n], at, env[2])
TraitsRec == INSTANCE Recursion WITH Step <- TraitsStep

LEMMA TraitsTableRec ==
  ASSUME NEW p, IsTree(p)
  PROVE  \A n \in 1 .. Len(p) : TraitsTable(p)[n] = TraitsNode(p[n], TraitsTable(p), CarriesObligation(p))
  <1> DEFINE env == <<p, CarriesObligation(p)>>
             t == TraitsRec!Table(env, Len(p))
  <1>1. TraitsTable(p) = t
    BY Zenon DEF TraitsTable, TraitsRec!Table, TraitsStep
  <1>2. \A n, u : TraitsStep(env, u, n) = TraitsNode(p[n], u, CarriesObligation(p))
    BY Zenon DEF TraitsStep
  <1> HIDE DEF env
  <1>3. TraitsRec!Local(env, Len(p))
    <2>1. \A n, u, v : TraitsRec!Below(u, v, n) => Same(u, v, n) BY DEF TraitsRec!Below, Same, Before
    <2>2. \A n \in 1 .. Len(p) : \A u, v : Same(u, v, n) =>
            TraitsNode(p[n], u, CarriesObligation(p)) = TraitsNode(p[n], v, CarriesObligation(p))
      BY TraitsLocal
    <2> QED BY <1>2, <2>1, <2>2, ZenonT(60) DEF TraitsRec!Local
  <1>4. t = [n \in 1 .. Len(p) |-> TraitsStep(env, t, n)]
    BY <1>3, TreePositions, TraitsRec!TableEquation
  <1> HIDE DEF t
  <1> QED BY <1>1, <1>2, <1>4

TraitRecords == [omits : BOOLEAN, conjoins : BOOLEAN, misgrades : BOOLEAN]

SomeArm(t, arms, trait) == \E i \in DOMAIN arms : t[arms[i]][trait] = TRUE

TraitsOfNode(x, t, n, obliged) ==
  /\ t[n] \in TraitRecords
  /\ x.kind = "all" =>
       /\ t[n].omits = TRUE <=> SomeArm(t, x.arms, "omits")
       /\ t[n].conjoins = TRUE
       /\ t[n].misgrades = TRUE <=> SomeArm(t, x.arms, "misgrades")
  /\ x.kind = "any" =>
       /\ t[n].omits = TRUE <=> SomeArm(t, x.arms, "omits")
       /\ t[n].conjoins = TRUE <=> SomeArm(t, x.arms, "conjoins")
       /\ t[n].misgrades = TRUE <=> SomeArm(t, x.arms, "conjoins") \/ SomeArm(t, x.arms, "misgrades")
  /\ x.kind = "or_else" /\ Pruned(x, obliged) =>
       /\ t[n].omits = TRUE
       /\ t[n].conjoins = TRUE <=> t[x.primary].conjoins = TRUE
       /\ t[n].misgrades = TRUE <=> t[x.primary].misgrades = TRUE
  /\ x.kind = "or_else" /\ ~Pruned(x, obliged) =>
       /\ t[n].omits = TRUE <=> t[x.primary].omits = TRUE \/ t[x.fallback].omits = TRUE
       /\ t[n].conjoins = TRUE <=> t[x.primary].conjoins = TRUE \/ t[x.fallback].conjoins = TRUE
       /\ t[n].misgrades = TRUE <=> \/ t[x.primary].omits = TRUE
                                    \/ t[x.primary].misgrades = TRUE \/ t[x.fallback].misgrades = TRUE
  /\ x.kind \in {"permit", "deny", "grant", "permit_trace", "deny_trace"} =>
       t[n].omits = FALSE /\ t[n].conjoins = FALSE /\ t[n].misgrades = FALSE

LEMMA TraitsAre ==
  ASSUME NEW a \in BOOLEAN, NEW b \in BOOLEAN, NEW c \in BOOLEAN
  PROVE  /\ Traits(a, b, c) \in TraitRecords
         /\ Traits(a, b, c).omits = a /\ Traits(a, b, c).conjoins = b /\ Traits(a, b, c).misgrades = c
  BY DEF Traits, TraitRecords

LEMMA SomeIs ==
  ASSUME NEW t, NEW n, NEW arms, ArmsBefore(arms, n), \A i \in DOMAIN arms : t[arms[i]] \in TraitRecords,
         NEW trait \in {"omits", "conjoins", "misgrades"}
  PROVE  Some(At(t, arms), trait) <=> SomeArm(t, arms, trait)
  <1>1. \A i \in DOMAIN arms : t[arms[i]][trait] \in BOOLEAN BY DEF TraitRecords
  <1>2. DOMAIN At(t, arms) = DOMAIN arms /\ \A i \in DOMAIN arms : At(t, arms)[i] = t[arms[i]] BY DEF At
  <1> QED BY <1>1, <1>2 DEF Some, SomeArm

LEMMA TraitsFacts ==
  ASSUME NEW q, IsTree(q)
  PROVE  \A n \in 1 .. Len(q) : TraitsOfNode(q[n], TraitsTable(q), n, CarriesObligation(q))
  <1> DEFINE N == Len(q)
             t == TraitsTable(q)
             ob == CarriesObligation(q)
             G == {n \in 1 .. N : TraitsOfNode(q[n], t, n, ob)}
  <1>1. N \in Nat /\ \A n \in 1 .. N : \A m : Before(m, n) => m \in 1 .. N /\ m < n BY TreePositions
  <1>2. \A n \in 1 .. N : t[n] = TraitsNode(q[n], t, ob) BY TraitsTableRec
  <1>3. ASSUME NEW n \in 1 .. N, \A m \in Nat : 1 <= m /\ m < n => m \in G PROVE n \in G
    <2>1. \A m : Before(m, n) => t[m] \in TraitRecords BY <1>3 DEF Before, TraitsOfNode
    <2> DEFINE x == q[n]
               y == TraitsNode(x, t, ob)
    <2>2. \/ x.kind \in {"permit", "deny", "permit_trace", "deny_trace", "grant"}
          \/ x.kind = "all" /\ ArmsBefore(x.arms, n)
          \/ x.kind = "any" /\ ArmsBefore(x.arms, n)
          \/ x.kind = "or_else" /\ Before(x.primary, n) /\ Before(x.fallback, n)
      BY TreeKinds
    <2>3. t[n] = y BY <1>2
    <2> SUFFICES TraitsOfNode(x, t, n, ob) OBVIOUS
    <2> HIDE DEF x, t, ob
    <2>4. TraitsCases(x, t, ob, y) BY TraitsKinds
    <2> HIDE DEF y
    <2>5. CASE x.kind \in {"permit", "deny", "permit_trace", "deny_trace", "grant"}
      <3>1. y = Traits(FALSE, FALSE, FALSE) BY <2>4, <2>5 DEF TraitsCases
      <3>2. y \in TraitRecords /\ y.omits = FALSE /\ y.conjoins = FALSE /\ y.misgrades = FALSE BY <3>1, TraitsAre
      <3> QED BY <2>3, <2>5, <3>2 DEF TraitsOfNode
    <2>6. CASE x.kind = "all" /\ ArmsBefore(x.arms, n)
      <3> DEFINE a == Some(At(t, x.arms), "omits")
                 c == Some(At(t, x.arms), "misgrades")
      <3>1. y = Traits(a, TRUE, c) BY <2>4, <2>6 DEF TraitsCases
      <3>2. \A i \in DOMAIN x.arms : t[x.arms[i]] \in TraitRecords BY <2>1, <2>6 DEF ArmsBefore
      <3>3. (a <=> SomeArm(t, x.arms, "omits")) /\ (c <=> SomeArm(t, x.arms, "misgrades")) BY <2>6, <3>2, SomeIs
      <3>4. a \in BOOLEAN /\ c \in BOOLEAN BY DEF Some
      <3> HIDE DEF a, c
      <3>5. y \in TraitRecords /\ y.omits = a /\ y.conjoins = TRUE /\ y.misgrades = c BY <3>1, <3>4, TraitsAre
      <3>6. (y.omits = TRUE <=> SomeArm(t, x.arms, "omits")) /\ (y.misgrades = TRUE <=> SomeArm(t, x.arms, "misgrades"))
        BY <3>3, <3>4, <3>5
      <3> QED BY <2>3, <2>6, <3>5, <3>6 DEF TraitsOfNode
    <2>7. CASE x.kind = "any" /\ ArmsBefore(x.arms, n)
      <3> DEFINE a == Some(At(t, x.arms), "omits")
                 b == Some(At(t, x.arms), "conjoins")
                 c == Some(At(t, x.arms), "misgrades")
      <3>1. y = Traits(a, b, b \/ c) BY <2>4, <2>7 DEF TraitsCases
      <3>2. \A i \in DOMAIN x.arms : t[x.arms[i]] \in TraitRecords BY <2>1, <2>7 DEF ArmsBefore
      <3>3. /\ a <=> SomeArm(t, x.arms, "omits")
            /\ b <=> SomeArm(t, x.arms, "conjoins")
            /\ c <=> SomeArm(t, x.arms, "misgrades")
        BY <2>7, <3>2, SomeIs
      <3>4. a \in BOOLEAN /\ b \in BOOLEAN /\ c \in BOOLEAN /\ (b \/ c) \in BOOLEAN BY DEF Some
      <3> HIDE DEF a, b, c
      <3>5. y \in TraitRecords /\ y.omits = a /\ y.conjoins = b /\ y.misgrades = (b \/ c)
        BY <3>1, <3>4, TraitsAre
      <3>6. /\ y.omits = TRUE <=> SomeArm(t, x.arms, "omits")
            /\ y.conjoins = TRUE <=> SomeArm(t, x.arms, "conjoins")
            /\ y.misgrades = TRUE <=> SomeArm(t, x.arms, "conjoins") \/ SomeArm(t, x.arms, "misgrades")
        BY <3>3, <3>4, <3>5
      <3> QED BY <2>3, <2>7, <3>5, <3>6 DEF TraitsOfNode
    <2>8. CASE x.kind = "or_else" /\ Before(x.primary, n) /\ Before(x.fallback, n)
      <3> DEFINE d == t[x.primary]
                 e == t[x.fallback]
      <3>1. d \in TraitRecords /\ e \in TraitRecords BY <2>1, <2>8
      <3>2. Pruned(x, ob) => y = [d EXCEPT !.omits = TRUE] BY <2>4, <2>8 DEF TraitsCases
      <3>3. ~Pruned(x, ob) => y = OrElseTraits(d, e) BY <2>4, <2>8 DEF TraitsCases
      <3> HIDE DEF d, e
      <3>4. CASE Pruned(x, ob)
        <4>1. y \in TraitRecords /\ y.omits = TRUE /\ y.conjoins = d.conjoins /\ y.misgrades = d.misgrades
          BY <3>1, <3>2, <3>4 DEF TraitRecords
        <4> QED BY <2>3, <2>8, <3>4, <4>1 DEF TraitsOfNode, d
      <3>5. CASE ~Pruned(x, ob)
        <4> DEFINE a == d.omits \/ e.omits
                   b == d.conjoins \/ e.conjoins
                   c == d.omits \/ d.misgrades \/ e.misgrades
        <4>1. y = Traits(a, b, c) BY <3>3, <3>5 DEF OrElseTraits
        <4>2. /\ a <=> d.omits = TRUE \/ e.omits = TRUE
              /\ b <=> d.conjoins = TRUE \/ e.conjoins = TRUE
              /\ c <=> d.omits = TRUE \/ d.misgrades = TRUE \/ e.misgrades = TRUE
          BY <3>1 DEF TraitRecords
        <4>3. a \in BOOLEAN /\ b \in BOOLEAN /\ c \in BOOLEAN BY <3>1 DEF TraitRecords
        <4> HIDE DEF a, b, c
        <4>4. y \in TraitRecords /\ y.omits = a /\ y.conjoins = b /\ y.misgrades = c BY <4>1, <4>3, TraitsAre
        <4>5. /\ y.omits = TRUE <=> d.omits = TRUE \/ e.omits = TRUE
              /\ y.conjoins = TRUE <=> d.conjoins = TRUE \/ e.conjoins = TRUE
              /\ y.misgrades = TRUE <=> d.omits = TRUE \/ d.misgrades = TRUE \/ e.misgrades = TRUE
          BY <4>2, <4>3, <4>4
        <4> QED BY <2>3, <2>8, <3>5, <4>4, <4>5 DEF TraitsOfNode, d, e
      <3> QED BY <3>4, <3>5
    <2> QED BY <2>2, <2>5, <2>6, <2>7, <2>8
  <1> HIDE DEF G, N
  <1>4. 1 .. N \subseteq G BY <1>1, <1>3, TraitsRec!Positions
  <1> QED BY <1>4 DEF G, N

-----------------------------------------------------------------------------
(***************************************************************************)
(* The filter.  On the facts of the row it is never NULL, it is true only  *)
(* where the residual permits, and everywhere it permits unless a fallback *)
(* was omitted; lower_filter builds the same predicate.                    *)
(***************************************************************************)
RowTree(q, pf) == IsTree(q) /\ \A n \in 1 .. Len(q) : q[n].kind = "grant" => RowCondition(q[n].condition, pf)

FilterOf(filter, effect, omits, walked) ==
  /\ filter \in BOOLEAN
  /\ filter = TRUE => effect # Denied
  /\ omits = FALSE /\ effect # Denied => filter = TRUE
  /\ walked = filter

LEMMA PlanIs ==
  ASSUME NEW f, NEW g
  PROVE  Plan(f, g).filter = f /\ Plan(f, g).grade = g
  BY DEF Plan

LEMMA GrantFilter ==
  ASSUME NEW c, NEW pf, RowCondition(c, pf), NEW S, NEW r, OfRow(S, r, pf)
  PROVE  /\ LowerCondition(c, r) \in BOOLEAN
         /\ LowerCondition(c, r) = EvalCondition(c, S).satisfied
  <1>1. Len(c) \in 1 .. Len(c) BY Trees DEF RowCondition
  <1>2. LowerCondition(c, r) = LowerConditionTable(c, r)[Len(c)] BY Zenon DEF LowerCondition, Root
  <1>3. EvalCondition(c, S) = ConditionTable(c, S)[Len(c)] BY Zenon DEF EvalCondition, Root
  <1> QED BY <1>1, <1>2, <1>3, LowerConditionIs

ArmFilters(l, arms) == {l[arms[i]].filter : i \in DOMAIN arms}

LEMMA FiltersAre ==
  ASSUME NEW l, NEW arms
  PROVE  Filters(At(l, arms)) = ArmFilters(l, arms)
  <1>1. DOMAIN At(l, arms) = DOMAIN arms /\ \A i \in DOMAIN arms : At(l, arms)[i] = l[arms[i]] BY DEF At
  <1> QED BY <1>1 DEF Filters, ArmFilters

LEMMA FilterFacts ==
  ASSUME NEW q, NEW pf, RowTree(q, pf), NEW S, NEW r, OfRow(S, r, pf), NEW nulls
  PROVE  \A n \in 1 .. Len(q) :
           FilterOf(LowerTable(q, r, nulls)[n].filter, EvalTable(q, S)[n].effect, TraitsTable(q)[n].omits,
                    LowerFilterTable(q, r)[n])
  <1> DEFINE N == Len(q)
             l == LowerTable(q, r, nulls)
             w == LowerFilterTable(q, r)
             v == EvalTable(q, S)
             t == TraitsTable(q)
             ob == CarriesObligation(q)
             Good(n) == FilterOf(l[n].filter, v[n].effect, t[n].omits, w[n])
             G == {n \in 1 .. N : Good(n)}
  <1>0. IsTree(q) BY DEF RowTree
  <1>1. N \in Nat /\ \A n \in 1 .. N : \A m : Before(m, n) => m \in 1 .. N /\ m < n BY <1>0, TreePositions
  <1>2. \A n \in 1 .. N : l[n] = LowerNode(q[n], l, ob, r, nulls) BY <1>0, LowerTableRec
  <1>3. \A n \in 1 .. N : w[n] = LowerFilterNode(q[n], w, ob, r) BY <1>0, LowerFilterTableRec
  <1>4. \A n \in 1 .. N : TraitsOfNode(q[n], t, n, ob) BY <1>0, TraitsFacts
  <1>5. \A n \in 1 .. N : EffectOfNode(q[n], v, n, S) BY <1>0, NodeEffects
  <1>6. ASSUME NEW n \in 1 .. N, \A m \in Nat : 1 <= m /\ m < n => m \in G PROVE n \in G
    <2>1. \A m : Before(m, n) => Good(m) BY <1>6 DEF Before
    <2> DEFINE x == q[n]
               y == LowerNode(x, l, ob, r, nulls)
    <2>2. /\ l[n] = y /\ w[n] = LowerFilterNode(x, w, ob, r)
          /\ TraitsOfNode(x, t, n, ob) /\ EffectOfNode(x, v, n, S)
      BY <1>2, <1>3, <1>4, <1>5
    <2>3. \/ x.kind = "permit" /\ x.outcome \in Outcomes
          \/ x.kind = "deny"
          \/ x.kind \in {"permit_trace", "deny_trace"}
          \/ x.kind = "grant" /\ GrantNode(x)
          \/ x.kind = "all" /\ ArmsBefore(x.arms, n)
          \/ x.kind = "any" /\ ArmsBefore(x.arms, n)
          \/ x.kind = "or_else" /\ Before(x.primary, n) /\ Before(x.fallback, n)
      BY <1>0, TreeKinds
    <2>4. x.kind = "grant" => RowCondition(x.condition, pf) BY DEF RowTree
    <2>5. /\ x.kind = "permit_trace" => v[n].effect # Denied
          /\ x.kind = "deny_trace" => v[n].effect = Denied
      <3>1. x.kind \in {"permit_trace", "deny_trace"} => IsTraceNode(x)
        BY <1>0 DEF IsTree, IsPolicyNode
      <3>2. x.kind \in {"permit_trace", "deny_trace"} => v[n] = x.decision
        BY <1>0, NodeConsults DEF ConsultedOfNode
      <3> QED BY <3>1, <3>2, LatticeAssumption DEF IsTraceNode, PermitDecisions
    <2>6. ArmsBefore(x.arms, n) =>
            /\ x.kind = "all" => AllBounds(v[n], At(v, x.arms))
            /\ x.kind = "any" => AnyBounds(v[n], At(v, x.arms))
      BY <1>0, NodeBounds
    <2> SUFFICES Good(n) OBVIOUS
    <2> HIDE DEF x, l, w, v, t, ob
    <2>7. LowerCases(x, l, ob, r, nulls, y) BY LowerKinds
    <2> HIDE DEF y
    <2>8. CASE x.kind \in {"permit", "permit_trace"}
      <3>1. \E g : y = Plan(TRUE, g) BY <2>7, <2>8 DEF LowerCases
      <3>2. l[n].filter = TRUE BY <2>2, <3>1, PlanIs
      <3>3. v[n].effect # Denied BY <2>2, <2>3, <2>5, <2>8, LatticeAssumption DEF EffectOfNode
      <3>4. w[n] = TRUE BY <2>2, <2>8, LowerFilterKinds, Zenon
      <3> QED BY <3>2, <3>3, <3>4 DEF FilterOf
    <2>9. CASE x.kind \in {"deny", "deny_trace"}
      <3>1. y = Plan(FALSE, Null) BY <2>7, <2>9 DEF LowerCases
      <3>2. l[n].filter = FALSE BY <2>2, <3>1 DEF Plan
      <3>3. v[n].effect = Denied BY <2>2, <2>5, <2>9 DEF EffectOfNode
      <3>4. w[n] = FALSE BY <2>2, <2>9, LowerFilterKinds, Zenon
      <3> QED BY <3>2, <3>3, <3>4 DEF FilterOf
    <2>10. CASE x.kind = "grant"
      <3> DEFINE c == LowerCondition(x.condition, r)
      <3>1. c \in BOOLEAN /\ c = EvalCondition(x.condition, S).satisfied BY <2>4, <2>10, GrantFilter
      <3>2. \E g : y = Plan(c, g) BY <2>7, <2>10 DEF LowerCases
      <3>3. w[n] = c BY <2>2, <2>10, LowerFilterKinds
      <3> HIDE DEF c
      <3>4. l[n].filter = c BY <2>2, <3>2, PlanIs
      <3>5. c = TRUE => v[n].effect # Denied
        BY <2>2, <2>3, <2>10, <3>1, LatticeAssumption DEF EffectOfNode, GrantNode
      <3>6. c = FALSE => v[n].effect = Denied BY <2>2, <2>10, <3>1 DEF EffectOfNode
      <3> QED BY <3>1, <3>3, <3>4, <3>5, <3>6 DEF FilterOf
    <2>11. CASE x.kind \in {"all", "any"} /\ ArmsBefore(x.arms, n) /\ x.arms = <<>>
      <3>1. y = Plan(FALSE, Null) BY <2>7, <2>11 DEF LowerCases
      <3>2. l[n].filter = FALSE BY <2>2, <3>1 DEF Plan
      <3>3. At(v, x.arms) = <<>> /\ DOMAIN At(v, x.arms) = {} BY <2>11, NoArms DEF At
      <3>4. v[n].effect = Denied BY <2>6, <2>11, <3>3 DEF AllBounds, AnyBounds
      <3>5. w[n] = FALSE BY <2>2, <2>11, LowerFilterKinds, Zenon
      <3> QED BY <3>2, <3>4, <3>5 DEF FilterOf
    <2>12. CASE x.kind \in {"all", "any"} /\ ArmsBefore(x.arms, n) /\ x.arms # <<>>
      <3> DEFINE X == ArmFilters(l, x.arms)
      <3>1. \A i \in DOMAIN x.arms : Good(x.arms[i]) BY <2>1, <2>12 DEF ArmsBefore
      <3>2. X \subseteq BOOLEAN BY <3>1 DEF ArmFilters, FilterOf
      <3>3. Filters(At(l, x.arms)) = X BY FiltersAre
      <3>4. Values(w, x.arms) = X
        <4>1. \A i \in DOMAIN x.arms : w[x.arms[i]] = l[x.arms[i]].filter BY <3>1 DEF FilterOf
        <4> QED BY <4>1, Zenon DEF Values, ArmFilters
      <3>5. /\ TRUE \in X <=> \E i \in DOMAIN x.arms : l[x.arms[i]].filter = TRUE
            /\ FALSE \in X <=> \E i \in DOMAIN x.arms : l[x.arms[i]].filter = FALSE
        BY DEF ArmFilters
      <3>6. \A i \in DOMAIN x.arms : l[x.arms[i]].filter \in BOOLEAN BY <3>1 DEF FilterOf
      <3>7. t[n].omits = FALSE => \A i \in DOMAIN x.arms : t[x.arms[i]].omits # TRUE
        BY <2>2, <2>12 DEF TraitsOfNode, SomeArm
      <3>8. \A i \in DOMAIN x.arms : t[x.arms[i]].omits \in BOOLEAN
        <4>1. \A i \in DOMAIN x.arms : x.arms[i] \in 1 .. N BY <1>1, <2>12 DEF ArmsBefore
        <4> QED BY <1>4, <4>1 DEF TraitsOfNode, TraitRecords
      <3>9. \A i \in DOMAIN x.arms : /\ l[x.arms[i]].filter = TRUE => v[x.arms[i]].effect # Denied
                                     /\ t[n].omits = FALSE /\ v[x.arms[i]].effect # Denied => l[x.arms[i]].filter = TRUE
        BY <3>1, <3>7, <3>8 DEF FilterOf
      <3>10. DOMAIN At(v, x.arms) = DOMAIN x.arms /\ \A i \in DOMAIN x.arms : At(v, x.arms)[i] = v[x.arms[i]]
        BY DEF At
      <3>11. At(v, x.arms) # <<>> BY <2>12, AtIsArms
      <3> HIDE DEF X
      <3>12. CASE x.kind = "all"
        <4>1. \E g : y = Plan(SqlAnd(X), g) BY <2>7, <2>12, <3>3, <3>12 DEF LowerCases
        <4>2. l[n].filter = SqlAnd(X) BY <2>2, <4>1, PlanIs
        <4>3. w[n] = SqlAnd(X) BY <2>2, <2>12, <3>4, <3>12, LowerFilterKinds
        <4>4. v[n].effect # Denied <=> \A i \in DOMAIN x.arms : v[x.arms[i]].effect # Denied
          BY <2>6, <2>12, <3>10, <3>11, <3>12 DEF AllBounds
        <4>5. CASE FALSE \in X
          <5>1. SqlAnd(X) = FALSE BY <3>2, <4>5, SqlValues
          <5>2. t[n].omits = FALSE => v[n].effect = Denied BY <3>5, <3>9, <4>4, <4>5
          <5> QED BY <4>2, <4>3, <5>1, <5>2 DEF FilterOf
        <4>6. CASE FALSE \notin X
          <5>1. SqlAnd(X) = TRUE BY <3>2, <4>6, SqlValues
          <5>2. v[n].effect # Denied BY <3>5, <3>6, <3>9, <4>4, <4>6
          <5> QED BY <4>2, <4>3, <5>1, <5>2 DEF FilterOf
        <4> QED BY <4>5, <4>6
      <3>13. CASE x.kind = "any"
        <4>1. \E g : y = Plan(SqlOr(X), g) BY <2>7, <2>12, <3>3, <3>13 DEF LowerCases
        <4>2. l[n].filter = SqlOr(X) BY <2>2, <4>1, PlanIs
        <4>3. w[n] = SqlOr(X) BY <2>2, <2>12, <3>4, <3>13, LowerFilterKinds
        <4>4. v[n].effect # Denied <=> \E i \in DOMAIN x.arms : v[x.arms[i]].effect # Denied
          BY <2>6, <2>12, <3>10, <3>13 DEF AnyBounds
        <4>5. CASE TRUE \in X
          <5>1. SqlOr(X) = TRUE BY <3>2, <4>5, SqlValues
          <5>2. v[n].effect # Denied BY <3>5, <3>9, <4>4, <4>5
          <5> QED BY <4>2, <4>3, <5>1, <5>2 DEF FilterOf
        <4>6. CASE TRUE \notin X
          <5>1. SqlOr(X) = FALSE BY <3>2, <4>6, SqlValues
          <5>2. t[n].omits = FALSE => v[n].effect = Denied BY <3>5, <3>9, <4>4, <4>6
          <5> QED BY <4>2, <4>3, <5>1, <5>2 DEF FilterOf
        <4> QED BY <4>5, <4>6
      <3> QED BY <2>12, <3>12, <3>13
    <2>13. CASE x.kind = "or_else" /\ Before(x.primary, n) /\ Before(x.fallback, n)
      <3> DEFINE a == l[x.primary].filter
                 b == l[x.fallback].filter
      <3>1. Good(x.primary) /\ Good(x.fallback) BY <2>1, <2>13
      <3>2. a \in BOOLEAN /\ b \in BOOLEAN /\ w[x.primary] = a /\ w[x.fallback] = b BY <3>1 DEF FilterOf
      <3>3. w[n] = LowerFilterOrElse(x, w, ob) BY <2>2, <2>13, LowerFilterKinds
      <3>4. t[x.primary].omits \in BOOLEAN /\ t[x.fallback].omits \in BOOLEAN
        BY <1>1, <1>4, <2>13 DEF TraitsOfNode, TraitRecords
      <3>5. v[n].effect = IF v[x.primary].effect # Denied THEN v[x.primary].effect ELSE v[x.fallback].effect
        BY <2>2, <2>13 DEF EffectOfNode
      <3>6. CASE Pruned(x, ob)
        <4>1. y = l[x.primary] BY <2>7, <2>13, <3>6 DEF LowerCases
        <4>2. l[n].filter = a BY <2>2, <4>1
        <4>3. w[n] = SqlOr({a})
          <5>1. {w[x.primary]} \union {} = {a} BY <3>2
          <5> QED BY <3>3, <3>6, <5>1, Zenon DEF LowerFilterOrElse
        <4>4. SqlOr({a}) = a
          <5>1. {a} \subseteq BOOLEAN BY <3>2
          <5>2. CASE a = TRUE
            <6>1. TRUE \in {a} BY <5>2
            <6> QED BY <5>1, <5>2, <6>1, SqlValues
          <5>3. CASE a = FALSE
            <6>1. TRUE \notin {a} BY <5>3
            <6> QED BY <5>1, <5>3, <6>1, SqlValues
          <5> QED BY <3>2, <5>2, <5>3
        <4>5. t[n].omits = TRUE BY <2>2, <2>13, <3>6 DEF TraitsOfNode
        <4>6. a = TRUE => v[n].effect # Denied BY <3>1, <3>5 DEF FilterOf
        <4> QED BY <3>2, <4>2, <4>3, <4>4, <4>5, <4>6 DEF FilterOf
      <3>7. CASE ~Pruned(x, ob)
        <4>1. \E g : y = Plan(SqlOr({a, b}), g) BY <2>7, <2>13, <3>7 DEF LowerCases
        <4>2. l[n].filter = SqlOr({a, b}) BY <2>2, <4>1, PlanIs
        <4>3. w[n] = SqlOr({a, b})
          <5>1. {w[x.primary]} \union {w[x.fallback]} = {a, b} BY <3>2
          <5> QED BY <3>3, <3>7, <5>1, Zenon DEF LowerFilterOrElse
        <4>4. {a, b} \subseteq BOOLEAN BY <3>2
        <4>5. t[n].omits = FALSE => t[x.primary].omits = FALSE /\ t[x.fallback].omits = FALSE
          BY <2>2, <2>13, <3>4, <3>7 DEF TraitsOfNode
        <4>6. CASE a = TRUE \/ b = TRUE
          <5>1. TRUE \in {a, b} BY <4>6
          <5>2. SqlOr({a, b}) = TRUE BY <4>4, <5>1, SqlValues
          <5>3. v[n].effect # Denied BY <3>1, <3>5, <4>6 DEF FilterOf
          <5> QED BY <4>2, <4>3, <5>2, <5>3 DEF FilterOf
        <4>7. CASE a # TRUE /\ b # TRUE
          <5>1. TRUE \notin {a, b} BY <4>7
          <5>2. SqlOr({a, b}) = FALSE BY <4>4, <5>1, SqlValues
          <5>3. t[n].omits = FALSE => v[n].effect = Denied BY <3>1, <3>5, <4>5, <4>7 DEF FilterOf
          <5> QED BY <4>2, <4>3, <5>2, <5>3 DEF FilterOf
        <4> QED BY <4>6, <4>7
      <3> QED BY <3>6, <3>7
    <2> QED BY <2>3, <2>8, <2>9, <2>10, <2>11, <2>12, <2>13
  <1> HIDE DEF G, N
  <1>7. 1 .. N \subseteq G BY <1>1, <1>6, LowerRec!Positions
  <1> QED BY <1>7 DEF G, N

\* What partial_evaluate leaves of a policy asks for facts of the row only.
LEMMA ResidualRow ==
  ASSUME NEW c, IsCondition(c), NEW pf
  PROVE  RowCondition(ResidualCondition(c, pf), pf)
  <1> DEFINE d == ResidualCondition(c, pf)
             t == ReduceConditionTable(c, pf)
  <1>1. /\ IsCondition(d) /\ Len(d) = Len(c)
        /\ \A n \in 1 .. Len(c) : (t[n].known => d[n] = Never) /\ (~t[n].known => d[n] = t[n].residual)
    BY ResidualConditionType
  <1>2. \A n \in 1 .. Len(c) : ReducedCondition(t[n], n, pf) BY ReducedConditionType
  <1> HIDE DEF d, t
  <1>3. Never.kind # "has" BY DEF Never
  <1>4. \A n \in 1 .. Len(c) : d[n].kind = "has" => d[n].fact \in Unknown(pf)
    BY <1>1, <1>2, <1>3 DEF ReducedCondition
  <1>5. RowCondition(d, pf) BY <1>1, <1>4 DEF RowCondition
  <1> QED BY <1>5 DEF d

LEMMA ResidueRows ==
  ASSUME NEW p, IsPolicy(p), NEW pf
  PROVE  RowTree(Residue(p, pf), pf)
  <1> DEFINE N == Len(p)
             t == ReduceTable(p, pf)
             q == Residue(p, pf)
             Good(n) == ~t[n].resolved /\ t[n].residual.kind = "grant" => RowCondition(t[n].residual.condition, pf)
             G == {n \in 1 .. N : Good(n)}
  <1>1. IsTree(p) BY PolicyIsTree
  <1>2. N \in Nat /\ \A n \in 1 .. N : \A m : Before(m, n) => m \in 1 .. N /\ m < n BY <1>1, TreePositions
  <1>3. \A n \in 1 .. N : ReducedPolicy(t[n], n) /\ NodeReduced(p[n], t, t[n], n, pf) BY ReducedShapes
  <1>4. ASSUME NEW n \in 1 .. N, \A m \in Nat : 1 <= m /\ m < n => m \in G PROVE n \in G
    <2>1. \A m : Before(m, n) => Good(m) BY <1>4 DEF Before
    <2> DEFINE x == p[n]
    <2>2. NodeReduced(x, t, t[n], n, pf) BY <1>3
    <2>3. \/ x.kind \in {"permit", "deny"}
          \/ x.kind = "grant" /\ GrantNode(x)
          \/ x.kind = "all" /\ ArmsBefore(x.arms, n)
          \/ x.kind = "any" /\ ArmsBefore(x.arms, n)
          \/ x.kind = "or_else" /\ Before(x.primary, n) /\ Before(x.fallback, n)
      BY PolicyKinds
    <2> SUFFICES Good(n) OBVIOUS
    <2> HIDE DEF x, t
    <2>4. CASE x.kind \in {"permit", "deny"} BY <2>2, <2>4 DEF NodeReduced
    <2>5. CASE x.kind = "grant" /\ GrantNode(x)
      <3>1. GrantReduced(x, t[n], pf) BY <2>2, <2>5 DEF NodeReduced
      <3>2. RowCondition(ResidualCondition(x.condition, pf), pf) BY <2>5, ResidualRow DEF GrantNode
      <3> QED BY <3>1, <3>2 DEF GrantReduced
    <2>6. CASE x.kind = "all"
      <3>1. AllReduced(x, t, t[n], n) BY <2>2, <2>6 DEF NodeReduced
      <3> QED BY <3>1 DEF AllReduced
    <2>7. CASE x.kind = "any"
      <3>1. AnyReduced(x, t, t[n], n) BY <2>2, <2>7 DEF NodeReduced
      <3> QED BY <3>1 DEF AnyReduced
    <2>8. CASE x.kind = "or_else" /\ Before(x.primary, n) /\ Before(x.fallback, n)
      <3>1. OrElseReduced(x, t, t[n]) BY <2>2, <2>8 DEF NodeReduced
      <3>2. Good(x.fallback) /\ Good(x.primary) BY <2>1, <2>8
      <3> QED BY <2>8, <3>1, <3>2 DEF OrElseReduced, ResolvedPermit, ResolvedDeny
    <2> QED BY <2>3, <2>4, <2>5, <2>6, <2>7, <2>8
  <1>5. 1 .. N \subseteq G
    <2> HIDE DEF G, N
    <2> QED BY <1>2, <1>4, LowerRec!Positions
  <1>6. /\ IsTree(q) /\ Len(q) = N
        /\ \A n \in 1 .. N : /\ t[n].resolved => q[n].kind \in {"permit_trace", "deny_trace"}
                             /\ ~t[n].resolved => q[n] = t[n].residual
    BY ResidueIs
  <1>7. \A n \in 1 .. N : t[n].resolved \in BOOLEAN BY <1>3 DEF ReducedPolicy
  <1>8. \A n \in 1 .. N : Good(n) BY <1>5
  <1> HIDE DEF q, t, N
  <1>9. \A n \in 1 .. Len(q) : q[n].kind = "grant" => RowCondition(q[n].condition, pf) BY <1>6, <1>7, <1>8
  <1>10. RowTree(q, pf) BY <1>6, <1>9 DEF RowTree
  <1> QED BY <1>10 DEF q

-----------------------------------------------------------------------------
(***************************************************************************)
(* grade_set: LEAST or GREATEST of the grades that are not NULL, guarded   *)
(* or not.                                                                 *)
(***************************************************************************)
Grades == Int \union {Null}

Within(pick, g, h) == IF pick = "min" THEN g <= h ELSE h <= g

Extremal(pick, g, grades, I) ==
  /\ (\A i \in I : grades[i] = Null) => g = Null
  /\ (\E i \in I : grades[i] # Null) =>
       /\ g \in Int /\ \E i \in I : grades[i] = g
       /\ \A i \in I : grades[i] # Null => Within(pick, g, grades[i])

LEMMA ExtremeIs ==
  ASSUME NEW pick \in {"min", "max"}, NEW X, X \subseteq Int, NEW g \in X, \A x \in X : Within(pick, g, x)
  PROVE  Extreme(pick, X) = g
  <1>1. CASE pick = "min"
    <2>1. \A x \in X : g <= x BY <1>1 DEF Within
    <2>2. Min(X) \in X /\ \A x \in X : Min(X) <= x BY <2>1, Zenon DEF Min
    <2>3. Min(X) = g
      <3> DEFINE m == Min(X)
      <3>1. m \in Int /\ m <= g /\ g <= m BY <2>1, <2>2
      <3> HIDE DEF m
      <3>2. m = g BY <3>1
      <3> QED BY <3>2 DEF m
    <2> QED BY <1>1, <2>3 DEF Extreme
  <1>2. CASE pick = "max"
    <2>1. \A x \in X : g >= x BY <1>2 DEF Within
    <2>2. Max(X) \in X /\ \A x \in X : Max(X) >= x BY <2>1, Zenon DEF Max
    <2>3. Max(X) = g
      <3> DEFINE m == Max(X)
      <3>1. m \in Int /\ m <= g /\ g <= m BY <2>1, <2>2
      <3> HIDE DEF m
      <3>2. m = g BY <3>1
      <3> QED BY <3>2 DEF m
    <2> QED BY <1>2, <2>3 DEF Extreme
  <1> QED BY <1>1, <1>2

Graded(grades) == {grades[i] : i \in DOMAIN grades} \ {Null}

LEMMA NativeCases ==
  ASSUME NEW pick, NEW grades, NEW nulls
  PROVE  /\ Graded(grades) = {} => Native(pick, grades, nulls) = Null
         /\ Graded(grades) # {} /\ ~(nulls /\ \E i \in DOMAIN grades : grades[i] = Null) =>
              Native(pick, grades, nulls) = Extreme(pick, Graded(grades))
  BY Zenon DEF Native, Graded

LEMMA NativeIs ==
  ASSUME NEW pick \in {"min", "max"}, NEW grades, \A i \in DOMAIN grades : grades[i] \in Grades,
         NEW nulls, nulls => \A i \in DOMAIN grades : grades[i] # Null,
         NEW g, Extremal(pick, g, grades, DOMAIN grades)
  PROVE  Native(pick, grades, nulls) = g
  <1> DEFINE X == Graded(grades)
  <1>1. CASE \A i \in DOMAIN grades : grades[i] = Null
    <2>1. X = {} BY <1>1 DEF Graded
    <2>2. g = Null BY <1>1 DEF Extremal
    <2> QED BY <2>1, <2>2, NativeCases
  <1>2. CASE \E i \in DOMAIN grades : grades[i] # Null
    <2>1. /\ g \in Int /\ \E i \in DOMAIN grades : grades[i] = g
          /\ \A i \in DOMAIN grades : grades[i] # Null => Within(pick, g, grades[i])
      BY <1>2 DEF Extremal
    <2>2. X \subseteq Int BY DEF Graded, Grades
    <2>3. g \in X /\ \A x \in X : Within(pick, g, x) BY <2>1, NullAssumption DEF Graded
    <2> HIDE DEF X
    <2>4. Extreme(pick, X) = g BY <2>2, <2>3, ExtremeIs
    <2>5. Native(pick, grades, nulls) = Extreme(pick, X) BY <2>3, NativeCases, Zenon DEF X
    <2> QED BY <2>4, <2>5
  <1> QED BY <1>1, <1>2

LEMMA PairIs ==
  ASSUME NEW pick \in {"min", "max"}, NEW a \in Grades, NEW b \in Grades
  PROVE  /\ NullSafePair(pick, a, b) \in Grades
         /\ a = Null => NullSafePair(pick, a, b) = b
         /\ b = Null => NullSafePair(pick, a, b) = a
         /\ a # Null /\ b # Null => /\ NullSafePair(pick, a, b) \in {a, b}
                                    /\ Within(pick, NullSafePair(pick, a, b), a)
                                    /\ Within(pick, NullSafePair(pick, a, b), b)
  <1>1. CASE a = Null BY <1>1 DEF NullSafePair
  <1>2. CASE a # Null /\ b = Null BY <1>2 DEF NullSafePair
  <1>3. CASE a # Null /\ b # Null
    <2>1. a \in Int /\ b \in Int BY <1>3 DEF Grades
    <2>2. PICK g \in {a, b} : Within(pick, g, a) /\ Within(pick, g, b)
      <3>1. CASE Within(pick, a, b) BY <2>1, <3>1 DEF Within
      <3>2. CASE ~Within(pick, a, b) BY <2>1, <3>2 DEF Within
      <3> QED BY <3>1, <3>2
    <2> DEFINE s == <<a, b>>
    <2>3. DOMAIN s = {1, 2} /\ s[1] = a /\ s[2] = b OBVIOUS
    <2>4. NullSafePair(pick, a, b) = Native(pick, s, TRUE) BY <1>3 DEF NullSafePair
    <2> HIDE DEF s
    <2>5. \A i \in DOMAIN s : s[i] \in Grades /\ s[i] # Null BY <1>3, <2>3
    <2>6. Extremal(pick, g, s, DOMAIN s) BY <1>3, <2>1, <2>2, <2>3 DEF Extremal
    <2>7. Native(pick, s, TRUE) = g BY <2>5, <2>6, NativeIs
    <2> QED BY <1>3, <2>1, <2>2, <2>4, <2>7 DEF Grades
  <1> QED BY <1>1, <1>2, <1>3

SafeStep(env, at, i) == IF i = 1 THEN env[2][1] ELSE NullSafePair(env[1], at[i - 1], env[2][i])
SafeRec == INSTANCE Recursion WITH Step <- SafeStep

LEMMA NullSafeIs ==
  ASSUME NEW pick \in {"min", "max"}, NEW grades, IsArms(grades), grades # <<>>,
         \A i \in DOMAIN grades : grades[i] \in Grades
  PROVE  NullSafe(pick, grades) \in Grades /\ Extremal(pick, NullSafe(pick, grades), grades, DOMAIN grades)
  <1> DEFINE N == Len(grades)
             env == <<pick, grades>>
             t == SafeRec!Table(env, N)
  <1>1. NullSafe(pick, grades) = t[N] BY Zenon DEF NullSafe, SafeRec!Table, SafeStep
  <1>2. N \in Nat /\ N # 0 /\ DOMAIN grades = 1 .. N BY DEF IsArms
  <1>3. \A i, u : SafeStep(env, u, i) = IF i = 1 THEN grades[1] ELSE NullSafePair(pick, u[i - 1], grades[i])
    BY Zenon DEF SafeStep
  <1> HIDE DEF env
  <1>4. SafeRec!Local(env, N) BY <1>2, <1>3 DEF SafeRec!Local, SafeRec!Below
  <1>5. t = [i \in 1 .. N |-> SafeStep(env, t, i)] BY <1>2, <1>4, SafeRec!TableEquation
  <1> HIDE DEF N, t
  <1> DEFINE Good(i) == t[i] \in Grades /\ Extremal(pick, t[i], grades, 1 .. i)
             G == {i \in 1 .. N : Good(i)}
  <1>6. ASSUME NEW i \in 1 .. N, \A m \in Nat : 1 <= m /\ m < i => m \in G PROVE i \in G
    <2>1. CASE i = 1
      <3>1. t[1] = grades[1] BY <1>3, <1>5, <2>1
      <3>2. \A j : j \in 1 .. 1 <=> j = 1 OBVIOUS
      <3>3. grades[1] \in Grades BY <1>2, <2>1
      <3>4. Extremal(pick, t[1], grades, 1 .. 1) BY <3>1, <3>2, <3>3, NullAssumption DEF Extremal, Grades, Within
      <3> QED BY <2>1, <3>1, <3>3, <3>4
    <2>2. CASE i # 1
      <3>1. PICK k \in 1 .. N : i = k + 1 BY <1>2, <2>2
      <3>2. k \in G BY <1>2, <1>6, <3>1
      <3>3. Good(k) BY <3>2
      <3>4. i - 1 = k BY <1>2, <3>1
      <3>5. t[i] = NullSafePair(pick, t[k], grades[i]) BY <1>3, <1>5, <2>2, <3>4
      <3>6. grades[i] \in Grades BY <1>2
      <3>7. \A j : j \in 1 .. i <=> j \in 1 .. k \/ j = i BY <1>2, <3>1
      <3>8. t[i] \in Grades BY <3>3, <3>5, <3>6, PairIs
      <3>9. CASE grades[i] = Null
        <4>1. t[i] = t[k] BY <3>3, <3>5, <3>6, <3>9, PairIs
        <4>2. Extremal(pick, t[i], grades, 1 .. i) BY <3>3, <3>7, <3>9, <4>1 DEF Extremal
        <4> QED BY <3>8, <4>2
      <3>10. CASE grades[i] # Null /\ t[k] = Null
        <4>1. t[i] = grades[i] BY <3>3, <3>5, <3>6, <3>10, PairIs
        <4>2. \A j \in 1 .. k : grades[j] = Null BY <3>3, <3>10, NullAssumption DEF Extremal
        <4>3. grades[i] \in Int /\ Within(pick, grades[i], grades[i]) BY <3>6, <3>10 DEF Within, Grades
        <4>4. \A j \in 1 .. i : grades[j] # Null => j = i BY <3>7, <4>2
        <4>5. i \in 1 .. i BY <3>7
        <4>6. Extremal(pick, t[i], grades, 1 .. i) BY <3>10, <4>1, <4>3, <4>4, <4>5 DEF Extremal
        <4> QED BY <3>8, <4>6
      <3>11. CASE grades[i] # Null /\ t[k] # Null
        <4> DEFINE g == t[i]
                   h == t[k]
                   e == grades[i]
        <4>1. g \in {h, e} /\ Within(pick, g, h) /\ Within(pick, g, e)
          BY <3>3, <3>5, <3>6, <3>11, PairIs
        <4>2. h \in Int /\ e \in Int BY <3>3, <3>6, <3>11 DEF Grades
        <4>3. \E j \in 1 .. k : grades[j] # Null BY <3>3, <3>11 DEF Extremal
        <4>4. /\ \E j \in 1 .. k : grades[j] = h
              /\ \A j \in 1 .. k : grades[j] # Null => Within(pick, h, grades[j])
          BY <3>3, <4>3 DEF Extremal
        <4>5. \A j \in 1 .. k : grades[j] \in Grades BY <1>2, <3>1
        <4> HIDE DEF g, h
        <4>6. \A j \in 1 .. k : grades[j] # Null => Within(pick, g, grades[j])
          BY <4>1, <4>2, <4>4, <4>5 DEF Within, Grades
        <4>7. \A j \in 1 .. i : grades[j] # Null => Within(pick, g, grades[j]) BY <3>7, <4>1, <4>6
        <4>8. \E j \in 1 .. i : grades[j] = g BY <3>7, <4>1, <4>4
        <4>9. \E j \in 1 .. i : grades[j] # Null BY <3>7, <3>11
        <4>10. g \in Int BY <4>1, <4>2
        <4>11. Extremal(pick, g, grades, 1 .. i) BY <4>7, <4>8, <4>9, <4>10 DEF Extremal
        <4> QED BY <3>8, <4>11 DEF g
      <3> QED BY <3>9, <3>10, <3>11
    <2> QED BY <2>1, <2>2
  <1> HIDE DEF G
  <1>7. 1 .. N \subseteq G BY <1>2, <1>6, SafeRec!Positions
  <1>8. Good(N) BY <1>2, <1>7 DEF G
  <1> QED BY <1>1, <1>2, <1>8

\* Every backend computes the same grade.
LEMMA GradeSetIs ==
  ASSUME NEW pick \in {"min", "max"}, NEW grades, IsArms(grades), grades # <<>>,
         \A i \in DOMAIN grades : grades[i] \in Grades, NEW nulls \in BOOLEAN
  PROVE  /\ GradeSet(pick, grades, nulls) = NullSafe(pick, grades)
         /\ GradeSet(pick, grades, nulls) \in Grades
         /\ Extremal(pick, GradeSet(pick, grades, nulls), grades, DOMAIN grades)
  <1> DEFINE g == NullSafe(pick, grades)
  <1>1. g \in Grades /\ Extremal(pick, g, grades, DOMAIN grades) BY NullSafeIs
  <1> HIDE DEF g
  <1>2. CASE nulls = TRUE BY <1>1, <1>2 DEF GradeSet, g
  <1>3. CASE nulls = FALSE
    <2>1. GradeSet(pick, grades, nulls) = Native(pick, grades, nulls) BY <1>3 DEF GradeSet
    <2>2. Native(pick, grades, nulls) = g BY <1>1, <1>3, NativeIs
    <2> QED BY <1>1, <2>1, <2>2 DEF g
  <1> QED BY <1>2, <1>3

-----------------------------------------------------------------------------
(***************************************************************************)
(* The grade of a residual: the same on every backend, and what the        *)
(* residual grants.                                                        *)
(***************************************************************************)
ArmGrades(l, arms) == Field(At(l, arms), "grade")

LEMMA ArmGradesAre ==
  ASSUME NEW l, NEW n, NEW arms, ArmsBefore(arms, n)
  PROVE  /\ IsArms(ArmGrades(l, arms)) /\ (ArmGrades(l, arms) = <<>> <=> arms = <<>>)
         /\ DOMAIN ArmGrades(l, arms) = DOMAIN arms
         /\ \A i \in DOMAIN arms : ArmGrades(l, arms)[i] = l[arms[i]].grade
  <1> DEFINE s == At(l, arms)
             g == ArmGrades(l, arms)
  <1>1. IsArms(s) /\ (s = <<>> <=> arms = <<>>) BY AtIsArms
  <1>2. DOMAIN s = DOMAIN arms /\ \A i \in DOMAIN arms : s[i] = l[arms[i]] BY DEF At
  <1>3. g = [i \in DOMAIN s |-> s[i].grade] BY DEF ArmGrades, Field
  <1> HIDE DEF s, g
  <1>4. DOMAIN s = 1 .. Len(s) /\ Len(s) \in Nat BY <1>1 DEF IsArms
  <1>5. g \in Seq({s[i].grade : i \in DOMAIN s}) BY <1>3, <1>4
  <1>6. DOMAIN g = DOMAIN arms /\ \A i \in DOMAIN arms : g[i] = l[arms[i]].grade BY <1>2, <1>3
  <1>7. IsArms(g) BY <1>5 DEF IsArms
  <1>8. g = <<>> <=> arms = <<>>
    <2>1. DOMAIN g = 1 .. Len(g) /\ (g = <<>> <=> Len(g) = 0) /\ Len(g) \in Nat BY <1>7 DEF IsArms
    <2>2. s = <<>> <=> Len(s) = 0 BY <1>1 DEF IsArms
    <2>3. 1 .. Len(g) = 1 .. Len(s) BY <1>2, <1>4, <1>6, <2>1
    <2>4. Len(g) = 0 <=> Len(s) = 0
      <3>1. Len(g) = 0 <=> 1 \notin 1 .. Len(g) BY <2>1
      <3>2. Len(s) = 0 <=> 1 \notin 1 .. Len(s) BY <1>4
      <3> QED BY <2>3, <3>1, <3>2
    <2> QED BY <1>1, <2>1, <2>2, <2>4
  <1> QED BY <1>6, <1>7, <1>8 DEF g

LEMMA OutcomeNodes ==
  ASSUME NEW q, IsTree(q), NEW n \in 1 .. Len(q)
  PROVE  /\ q[n].kind \in {"permit", "grant"} => q[n].outcome \in Outcomes
         /\ q[n].kind = "permit_trace" => q[n].decision.effect \in Outcomes
  <1>1. IsPolicyNode(q[n], n) \/ IsTraceNode(q[n]) BY DEF IsTree
  <1> QED BY <1>1 DEF IsPolicyNode, IsTraceNode, PermitDecisions

LEMMA SamePlans ==
  ASSUME NEW q, IsTree(q), NEW r
  PROVE  \A n \in 1 .. Len(q) : /\ LowerTable(q, r, TRUE)[n].grade \in Grades
                                /\ LowerTable(q, r, TRUE)[n] = LowerTable(q, r, FALSE)[n]
  <1> DEFINE N == Len(q)
             l == LowerTable(q, r, TRUE)
             k == LowerTable(q, r, FALSE)
             ob == CarriesObligation(q)
             Good(n) == l[n].grade \in Grades /\ l[n] = k[n]
             G == {n \in 1 .. N : Good(n)}
  <1>1. N \in Nat BY TreePositions
  <1>2. \A n \in 1 .. N : l[n] = LowerNode(q[n], l, ob, r, TRUE) /\ k[n] = LowerNode(q[n], k, ob, r, FALSE)
    BY LowerTableRec
  <1>3. ASSUME NEW n \in 1 .. N, \A m \in Nat : 1 <= m /\ m < n => m \in G PROVE n \in G
    <2>1. \A m : Before(m, n) => Good(m) BY <1>3 DEF Before
    <2> DEFINE x == q[n]
               y == LowerNode(x, l, ob, r, TRUE)
               z == LowerNode(x, k, ob, r, FALSE)
    <2>2. l[n] = y /\ k[n] = z BY <1>2
    <2>3. \/ x.kind \in {"permit", "permit_trace", "deny", "deny_trace", "grant"}
          \/ x.kind \in {"all", "any"} /\ ArmsBefore(x.arms, n)
          \/ x.kind = "or_else" /\ Before(x.primary, n) /\ Before(x.fallback, n)
      BY TreeKinds
    <2>4. /\ x.kind \in {"permit", "grant"} => x.outcome \in Outcomes
          /\ x.kind = "permit_trace" => x.decision.effect \in Outcomes
      BY OutcomeNodes
    <2> SUFFICES Good(n) OBVIOUS
    <2> HIDE DEF x, l, k, ob
    <2>5. LowerCases(x, l, ob, r, TRUE, y) /\ LowerCases(x, k, ob, r, FALSE, z) BY LowerKinds
    <2> HIDE DEF y, z
    <2>6. CASE x.kind \in {"permit", "permit_trace", "deny", "deny_trace", "grant"}
      <3>1. y = z BY <2>5, <2>6 DEF LowerCases
      <3>2. y.grade \in Grades
        <4>1. CASE x.kind \in {"deny", "deny_trace"} BY <2>5, <4>1 DEF LowerCases, Plan, Grades
        <4>2. CASE x.kind \in {"permit", "permit_trace"}
          <5>1. \E o \in Outcomes : y = Plan(TRUE, Ordinal(o)) BY <2>4, <2>5, <4>2 DEF LowerCases
          <5> QED BY <5>1, OrdinalAssumption DEF Plan, Grades
        <4>3. CASE x.kind = "grant"
          <5> DEFINE c == LowerCondition(x.condition, r)
          <5>1. y = Plan(c, CaseWhen(c, Ordinal(x.outcome), Null)) BY <2>5, <4>3 DEF LowerCases
          <5> HIDE DEF c
          <5>2. y.grade = CaseWhen(c, Ordinal(x.outcome), Null) BY <5>1, PlanIs
          <5> QED BY <2>4, <4>3, <5>2, OrdinalAssumption DEF CaseWhen, Grades
        <4> QED BY <2>6, <4>1, <4>2, <4>3
      <3> QED BY <2>2, <3>1, <3>2
    <2>7. CASE x.kind \in {"all", "any"} /\ ArmsBefore(x.arms, n) /\ x.arms = <<>>
      <3>1. y = Plan(FALSE, Null) /\ z = Plan(FALSE, Null) BY <2>5, <2>7 DEF LowerCases
      <3> QED BY <2>2, <3>1 DEF Plan, Grades
    <2>8. CASE x.kind \in {"all", "any"} /\ ArmsBefore(x.arms, n) /\ x.arms # <<>>
      <3> DEFINE g == ArmGrades(l, x.arms)
      <3>1. \A i \in DOMAIN x.arms : Good(x.arms[i]) BY <2>1, <2>8 DEF ArmsBefore
      <3>2. At(l, x.arms) = At(k, x.arms) BY <3>1 DEF At
      <3>3. IsArms(g) /\ g # <<>> /\ \A i \in DOMAIN g : g[i] \in Grades
        <4>1. /\ IsArms(g) /\ (g = <<>> <=> x.arms = <<>>) /\ DOMAIN g = DOMAIN x.arms
              /\ \A i \in DOMAIN x.arms : g[i] = l[x.arms[i]].grade
          BY <2>8, ArmGradesAre
        <4> HIDE DEF g
        <4> QED BY <2>8, <3>1, <4>1
      <3>4. g = Field(At(k, x.arms), "grade") /\ g = Field(At(l, x.arms), "grade") BY <3>2 DEF ArmGrades
      <3> HIDE DEF g
      <3>5. \A pick \in {"min", "max"} : /\ GradeSet(pick, g, TRUE) = GradeSet(pick, g, FALSE)
                                         /\ GradeSet(pick, g, TRUE) \in Grades
        BY <3>3, GradeSetIs
      <3>6. CASE x.kind = "all"
        <4> DEFINE f == SqlAnd(Filters(At(l, x.arms)))
                   d == GradeSet("min", g, TRUE)
                   e == GradeSet("min", g, FALSE)
        <4>1. y = Plan(f, d) /\ z = Plan(f, e)
          BY <2>5, <2>8, <3>2, <3>4, <3>6 DEF LowerCases
        <4>2. d = e /\ d \in Grades BY <3>5
        <4> HIDE DEF f, d, e
        <4>3. y.grade = d /\ y = z BY <4>1, <4>2, PlanIs
        <4> QED BY <2>2, <4>2, <4>3
      <3>7. CASE x.kind = "any"
        <4> DEFINE f == SqlOr(Filters(At(l, x.arms)))
                   d == GradeSet("max", g, TRUE)
                   e == GradeSet("max", g, FALSE)
        <4>1. y = Plan(f, d) /\ z = Plan(f, e)
          BY <2>5, <2>8, <3>2, <3>4, <3>7 DEF LowerCases
        <4>2. d = e /\ d \in Grades BY <3>5
        <4> HIDE DEF f, d, e
        <4>3. y.grade = d /\ y = z BY <4>1, <4>2, PlanIs
        <4> QED BY <2>2, <4>2, <4>3
      <3> QED BY <2>8, <3>6, <3>7
    <2>9. CASE x.kind = "or_else" /\ Before(x.primary, n) /\ Before(x.fallback, n)
      <3>1. Good(x.primary) /\ Good(x.fallback) BY <2>1, <2>9
      <3>2. CASE Pruned(x, ob)
        <4>1. y = l[x.primary] /\ z = k[x.primary] BY <2>5, <2>9, <3>2 DEF LowerCases
        <4> QED BY <2>2, <3>1, <4>1
      <3>3. CASE ~Pruned(x, ob)
        <4> DEFINE a == l[x.primary]
                   b == l[x.fallback]
        <4>1. /\ y = Plan(SqlOr({a.filter, b.filter}), CaseWhen(a.filter, a.grade, b.grade))
              /\ z = Plan(SqlOr({a.filter, b.filter}), CaseWhen(a.filter, a.grade, b.grade))
          BY <2>5, <2>9, <3>1, <3>3 DEF LowerCases
        <4>2. a.grade \in Grades /\ b.grade \in Grades BY <3>1
        <4> HIDE DEF a, b
        <4>3. y = z /\ y.grade = CaseWhen(a.filter, a.grade, b.grade) BY <4>1, PlanIs
        <4> QED BY <2>2, <4>2, <4>3 DEF CaseWhen
      <3> QED BY <3>2, <3>3
    <2> QED BY <2>3, <2>6, <2>7, <2>8, <2>9
  <1> HIDE DEF G, N
  <1>4. 1 .. N \subseteq G BY <1>1, <1>3, LowerRec!Positions
  <1> QED BY <1>4 DEF G, N

\* In a total order a bound is one of the arms' outcomes.
LEMMA AllAttains ==
  ASSUME NEW d, NEW arms, IsArms(arms), \A i \in DOMAIN arms : arms[i].effect \in Outcomes \union {Denied},
         d.effect \in Outcomes, AllBounds(d, arms)
  PROVE  /\ \A i \in DOMAIN arms : arms[i].effect \in Outcomes /\ Ordinal(d.effect) <= Ordinal(arms[i].effect)
         /\ \E i \in DOMAIN arms : Ordinal(arms[i].effect) = Ordinal(d.effect)
  <1> DEFINE g == [i \in DOMAIN arms |-> Ordinal(arms[i].effect)]
             m == NullSafe("min", g)
  <1>1. d.effect # Denied BY LatticeAssumption
  <1>2. arms # <<>> /\ \A i \in DOMAIN arms : arms[i].effect \in Outcomes BY <1>1 DEF AllBounds
  <1>3. \A o \in Outcomes : Leq(o, d.effect) <=> \A i \in DOMAIN arms : Leq(o, arms[i].effect) BY <1>1 DEF AllBounds
  <1>4. \A i \in DOMAIN arms : Ordinal(d.effect) <= Ordinal(arms[i].effect)
    <2>1. Leq(d.effect, d.effect) BY LeqOrder
    <2> QED BY <1>2, <1>3, <2>1, OrdinalAssumption
  <1>5. IsArms(g) /\ g # <<>> /\ DOMAIN g = DOMAIN arms
    <2>1. DOMAIN arms = 1 .. Len(arms) /\ Len(arms) \in Nat /\ Len(arms) # 0 BY <1>2 DEF IsArms
    <2>2. g \in Seq({Ordinal(arms[i].effect) : i \in DOMAIN arms}) BY <2>1
    <2>3. IsArms(g) BY <2>2 DEF IsArms
    <2>4. 1 \in DOMAIN g BY <2>1
    <2> HIDE DEF g
    <2>5. g # <<>> BY <2>3, <2>4 DEF IsArms
    <2>6. DOMAIN g = DOMAIN arms BY DEF g
    <2> QED BY <2>3, <2>5, <2>6
  <1>6. \A i \in DOMAIN g : g[i] = Ordinal(arms[i].effect) /\ g[i] \in Int BY <1>2, OrdinalAssumption
  <1> HIDE DEF g
  <1>7. Extremal("min", m, g, DOMAIN g) BY <1>5, <1>6, NullSafeIs DEF Grades
  <1> HIDE DEF m
  <1>8. \E i \in DOMAIN g : g[i] # Null
    <2>1. 1 \in DOMAIN g BY <1>5 DEF IsArms
    <2> QED BY <1>6, <2>1, NullAssumption
  <1>9. PICK k \in DOMAIN g : \A i \in DOMAIN g : g[k] <= g[i]
    BY <1>6, <1>7, <1>8, NullAssumption DEF Extremal, Within
  <1>10. Leq(arms[k].effect, d.effect)
    BY <1>2, <1>3, <1>5, <1>6, <1>9, OrdinalAssumption
  <1>11. Ordinal(arms[k].effect) <= Ordinal(d.effect) /\ Ordinal(arms[k].effect) \in Int /\ Ordinal(d.effect) \in Int
    BY <1>2, <1>5, <1>10, OrdinalAssumption
  <1>12. k \in DOMAIN arms /\ Ordinal(d.effect) <= Ordinal(arms[k].effect) BY <1>4, <1>5
  <1>13. Ordinal(arms[k].effect) = Ordinal(d.effect) BY <1>11, <1>12
  <1> QED BY <1>2, <1>4, <1>12, <1>13

LEMMA AnyAttains ==
  ASSUME NEW d, NEW arms, IsArms(arms), \A i \in DOMAIN arms : arms[i].effect \in Outcomes \union {Denied},
         d.effect \in Outcomes, AnyBounds(d, arms)
  PROVE  /\ \A i \in DOMAIN arms : arms[i].effect # Denied => Ordinal(arms[i].effect) <= Ordinal(d.effect)
         /\ \E i \in DOMAIN arms : arms[i].effect # Denied /\ Ordinal(arms[i].effect) = Ordinal(d.effect)
  <1> DEFINE g == [i \in DOMAIN arms |-> IF arms[i].effect = Denied THEN Null ELSE Ordinal(arms[i].effect)]
             m == NullSafe("max", g)
  <1>1. d.effect # Denied BY LatticeAssumption
  <1>2. PICK j \in DOMAIN arms : arms[j].effect # Denied BY <1>1 DEF AnyBounds
  <1>3. \A u \in Outcomes : Leq(d.effect, u) <=>
          \A i \in DOMAIN arms : arms[i].effect # Denied => Leq(arms[i].effect, u)
    BY <1>1 DEF AnyBounds
  <1>4. \A i \in DOMAIN arms : arms[i].effect # Denied => Ordinal(arms[i].effect) <= Ordinal(d.effect)
    <2>1. Leq(d.effect, d.effect) BY LeqOrder
    <2> QED BY <1>3, <2>1, OrdinalAssumption
  <1>5. IsArms(g) /\ g # <<>> /\ DOMAIN g = DOMAIN arms
    <2>1. DOMAIN arms = 1 .. Len(arms) /\ Len(arms) \in Nat /\ Len(arms) # 0 BY <1>2 DEF IsArms
    <2>2. g \in Seq({IF arms[i].effect = Denied THEN Null ELSE Ordinal(arms[i].effect) : i \in DOMAIN arms}) BY <2>1
    <2>3. IsArms(g) BY <2>2 DEF IsArms
    <2>4. 1 \in DOMAIN g BY <2>1
    <2> HIDE DEF g
    <2>5. g # <<>> BY <2>3, <2>4 DEF IsArms
    <2>6. DOMAIN g = DOMAIN arms BY DEF g
    <2> QED BY <2>3, <2>5, <2>6
  <1>6. \A i \in DOMAIN g : /\ arms[i].effect = Denied => g[i] = Null
                            /\ arms[i].effect # Denied => g[i] = Ordinal(arms[i].effect) /\ g[i] \in Int
                            /\ g[i] \in Grades
    BY OrdinalAssumption DEF Grades
  <1> HIDE DEF g
  <1>7. Extremal("max", m, g, DOMAIN g) BY <1>5, <1>6, NullSafeIs
  <1> HIDE DEF m
  <1>8. g[j] # Null /\ j \in DOMAIN g BY <1>2, <1>5, <1>6, NullAssumption
  <1>9. PICK k \in DOMAIN g : g[k] # Null /\ \A i \in DOMAIN g : g[i] # Null => g[i] <= g[k]
    BY <1>7, <1>8, NullAssumption DEF Extremal, Within
  <1>10. k \in DOMAIN arms /\ arms[k].effect # Denied /\ arms[k].effect \in Outcomes BY <1>5, <1>6, <1>9
  <1>11. \A i \in DOMAIN arms : arms[i].effect # Denied => Ordinal(arms[i].effect) <= Ordinal(arms[k].effect)
    <2> SUFFICES ASSUME NEW i \in DOMAIN arms, arms[i].effect # Denied
                 PROVE  Ordinal(arms[i].effect) <= Ordinal(arms[k].effect)
      OBVIOUS
    <2>1. g[i] # Null /\ g[i] = Ordinal(arms[i].effect) /\ i \in DOMAIN g BY <1>5, <1>6, NullAssumption
    <2>2. g[k] = Ordinal(arms[k].effect) BY <1>6, <1>10
    <2> QED BY <1>9, <2>1, <2>2
  <1>12. Leq(d.effect, arms[k].effect) BY <1>3, <1>10, <1>11, OrdinalAssumption
  <1>13. Ordinal(d.effect) <= Ordinal(arms[k].effect) /\ Ordinal(arms[k].effect) \in Int /\ Ordinal(d.effect) \in Int
    BY <1>10, <1>12, OrdinalAssumption
  <1>14. Ordinal(arms[k].effect) <= Ordinal(d.effect) BY <1>4, <1>10
  <1>15. Ordinal(arms[k].effect) = Ordinal(d.effect) BY <1>13, <1>14
  <1> QED BY <1>4, <1>10, <1>15

\* A row that is not selected has no grade, unless the residual conjoins; a
\* selected row has at most the granted one, and that one if nothing was
\* omitted, unless the residual misgrades.
GradeOf(plan, effect, traits) ==
  /\ plan.filter = FALSE /\ traits.conjoins = FALSE => plan.grade = Null
  /\ plan.filter = TRUE /\ traits.misgrades = FALSE =>
       /\ plan.grade \in Int /\ plan.grade <= Ordinal(effect)
       /\ traits.omits = FALSE => plan.grade = Ordinal(effect)

LEMMA GradeFacts ==
  ASSUME NEW q, NEW pf, RowTree(q, pf), NEW S, NEW r, OfRow(S, r, pf)
  PROVE  \A n \in 1 .. Len(q) : GradeOf(LowerTable(q, r, TRUE)[n], EvalTable(q, S)[n].effect, TraitsTable(q)[n])
  <1> DEFINE N == Len(q)
             l == LowerTable(q, r, TRUE)
             w == LowerFilterTable(q, r)
             v == EvalTable(q, S)
             t == TraitsTable(q)
             ob == CarriesObligation(q)
             Good(n) == GradeOf(l[n], v[n].effect, t[n])
             Filter(n) == FilterOf(l[n].filter, v[n].effect, t[n].omits, w[n])
             G == {n \in 1 .. N : Good(n)}
  <1>0. IsTree(q) BY DEF RowTree
  <1>1. N \in Nat /\ \A n \in 1 .. N : \A m : Before(m, n) => m \in 1 .. N /\ m < n BY <1>0, TreePositions
  <1>2. \A n \in 1 .. N : l[n] = LowerNode(q[n], l, ob, r, TRUE) BY <1>0, LowerTableRec
  <1>3. \A n \in 1 .. N : l[n].grade \in Grades BY <1>0, SamePlans
  <1>4. \A n \in 1 .. N : TraitsOfNode(q[n], t, n, ob) BY <1>0, TraitsFacts
  <1>5. \A n \in 1 .. N : EffectOfNode(q[n], v, n, S) BY <1>0, NodeEffects
  <1>6. \A n \in 1 .. N : Filter(n) BY FilterFacts
  <1>7. \A n \in 1 .. N : v[n].effect \in Outcomes \union {Denied} /\ t[n] \in TraitRecords
    <2>1. v \in [1 .. N -> Auditable] BY <1>0, EvalTableRec
    <2> HIDE DEF v, t, N
    <2> QED BY <1>4, <2>1, Auditing DEF TraitsOfNode
  <1>8. ASSUME NEW n \in 1 .. N, \A m \in Nat : 1 <= m /\ m < n => m \in G PROVE n \in G
    <2>1. \A m : Before(m, n) => /\ Good(m) /\ Filter(m) /\ l[m].grade \in Grades
                                 /\ v[m].effect \in Outcomes \union {Denied} /\ t[m] \in TraitRecords
      <3>1. \A m : Before(m, n) => Good(m) /\ m \in 1 .. N BY <1>1, <1>8 DEF Before
      <3> HIDE DEF l, v, t, w, N
      <3> QED BY <1>3, <1>6, <1>7, <3>1
    <2> DEFINE x == q[n]
               y == LowerNode(x, l, ob, r, TRUE)
    <2>2. /\ l[n] = y /\ TraitsOfNode(x, t, n, ob) /\ EffectOfNode(x, v, n, S) /\ Filter(n)
          /\ v[n].effect \in Outcomes \union {Denied} /\ t[n] \in TraitRecords
      BY <1>2, <1>4, <1>5, <1>6, <1>7
    <2>3. \/ x.kind \in {"permit", "permit_trace", "deny", "deny_trace", "grant"}
          \/ x.kind \in {"all", "any"} /\ ArmsBefore(x.arms, n)
          \/ x.kind = "or_else" /\ Before(x.primary, n) /\ Before(x.fallback, n)
      BY <1>0, TreeKinds
    <2>4. /\ x.kind \in {"permit", "grant"} => x.outcome \in Outcomes
          /\ x.kind = "permit_trace" => x.decision.effect \in Outcomes
      BY <1>0, OutcomeNodes
    <2>5. x.kind \in {"permit_trace", "deny_trace"} => v[n] = x.decision
      BY <1>0, NodeConsults DEF ConsultedOfNode
    <2>6. ArmsBefore(x.arms, n) =>
            /\ x.kind = "all" => AllBounds(v[n], At(v, x.arms))
            /\ x.kind = "any" => AnyBounds(v[n], At(v, x.arms))
      BY <1>0, NodeBounds
    <2> SUFFICES Good(n) OBVIOUS
    <2> HIDE DEF x, l, w, v, t, ob
    <2>7. LowerCases(x, l, ob, r, TRUE, y) BY LowerKinds
    <2> HIDE DEF y
    <2>8. CASE x.kind \in {"permit", "permit_trace"}
      <3>1. v[n].effect \in Outcomes BY <2>2, <2>4, <2>5, <2>8 DEF EffectOfNode
      <3>2. y = Plan(TRUE, Ordinal(v[n].effect)) BY <2>2, <2>5, <2>7, <2>8 DEF LowerCases, EffectOfNode
      <3>3. l[n].filter = TRUE /\ l[n].grade = Ordinal(v[n].effect) BY <2>2, <3>2 DEF Plan
      <3>4. Ordinal(v[n].effect) \in Int BY <3>1, OrdinalAssumption
      <3> QED BY <3>3, <3>4 DEF GradeOf
    <2>9. CASE x.kind \in {"deny", "deny_trace"}
      <3>1. y = Plan(FALSE, Null) BY <2>7, <2>9 DEF LowerCases
      <3>2. l[n].filter = FALSE /\ l[n].grade = Null BY <2>2, <3>1 DEF Plan
      <3> QED BY <3>2 DEF GradeOf
    <2>10. CASE x.kind = "grant"
      <3> DEFINE c == LowerCondition(x.condition, r)
      <3>1. y = Plan(c, CaseWhen(c, Ordinal(x.outcome), Null)) BY <2>7, <2>10 DEF LowerCases
      <3> HIDE DEF c
      <3>2. l[n].filter = c /\ l[n].grade = CaseWhen(c, Ordinal(x.outcome), Null) BY <2>2, <3>1, PlanIs
      <3>3. Ordinal(x.outcome) \in Int BY <2>4, <2>10, OrdinalAssumption
      <3>4. v[n].effect # Denied => v[n].effect = x.outcome BY <2>2, <2>10 DEF EffectOfNode
      <3>5. c = TRUE => v[n].effect = x.outcome BY <2>2, <3>2, <3>4 DEF FilterOf
      <3>6. c = TRUE => l[n].grade = Ordinal(x.outcome) BY <3>2 DEF CaseWhen
      <3>7. c = FALSE => l[n].grade = Null BY <3>2 DEF CaseWhen
      <3> QED BY <3>2, <3>3, <3>5, <3>6, <3>7 DEF GradeOf
    <2>11. CASE x.kind \in {"all", "any"} /\ ArmsBefore(x.arms, n) /\ x.arms = <<>>
      <3>1. y = Plan(FALSE, Null) BY <2>7, <2>11 DEF LowerCases
      <3>2. l[n].filter = FALSE /\ l[n].grade = Null BY <2>2, <3>1 DEF Plan
      <3> QED BY <3>2 DEF GradeOf
    <2>12. CASE x.kind \in {"all", "any"} /\ ArmsBefore(x.arms, n) /\ x.arms # <<>>
      <3> DEFINE s == ArmGrades(l, x.arms)
                 d == At(v, x.arms)
                 g == l[n].grade
      <3>1. \A i \in DOMAIN x.arms : /\ Good(x.arms[i]) /\ Filter(x.arms[i]) /\ l[x.arms[i]].grade \in Grades
                                     /\ v[x.arms[i]].effect \in Outcomes \union {Denied}
                                     /\ t[x.arms[i]] \in TraitRecords
        BY <2>1, <2>12 DEF ArmsBefore
      <3>2. /\ IsArms(s) /\ s # <<>> /\ DOMAIN s = DOMAIN x.arms
            /\ \A i \in DOMAIN x.arms : s[i] = l[x.arms[i]].grade
        BY <2>12, ArmGradesAre
      <3>3. /\ IsArms(d) /\ DOMAIN d = DOMAIN x.arms
            /\ \A i \in DOMAIN x.arms : d[i] = v[x.arms[i]]
        BY <2>12, AtIsArms DEF At
      <3>4. \A i \in DOMAIN d : d[i].effect \in Outcomes \union {Denied} BY <3>1, <3>3
      <3>5. \A i \in DOMAIN s : s[i] \in Grades BY <3>1, <3>2
      <3>6. /\ x.kind = "all" => g = GradeSet("min", s, TRUE) /\ l[n].filter = SqlAnd(ArmFilters(l, x.arms))
            /\ x.kind = "any" => g = GradeSet("max", s, TRUE) /\ l[n].filter = SqlOr(ArmFilters(l, x.arms))
        <4>1. Filters(At(l, x.arms)) = ArmFilters(l, x.arms) BY FiltersAre
        <4>2. Field(At(l, x.arms), "grade") = s BY DEF ArmGrades
        <4> HIDE DEF s
        <4>3. x.kind = "all" => y = Plan(SqlAnd(ArmFilters(l, x.arms)), GradeSet("min", s, TRUE))
          BY <2>7, <2>12, <4>1, <4>2 DEF LowerCases
        <4>4. x.kind = "any" => y = Plan(SqlOr(ArmFilters(l, x.arms)), GradeSet("max", s, TRUE))
          BY <2>7, <2>12, <4>1, <4>2 DEF LowerCases
        <4>5. x.kind = "all" => g = GradeSet("min", s, TRUE) /\ l[n].filter = SqlAnd(ArmFilters(l, x.arms))
          <5> DEFINE f == SqlAnd(ArmFilters(l, x.arms))
                     h == GradeSet("min", s, TRUE)
          <5>1. x.kind = "all" => y = Plan(f, h) BY <4>3
          <5> HIDE DEF f, h
          <5>2. x.kind = "all" => y.filter = f /\ y.grade = h BY <5>1, PlanIs
          <5> QED BY <2>2, <5>2 DEF f, h
        <4>6. x.kind = "any" => g = GradeSet("max", s, TRUE) /\ l[n].filter = SqlOr(ArmFilters(l, x.arms))
          <5> DEFINE f == SqlOr(ArmFilters(l, x.arms))
                     h == GradeSet("max", s, TRUE)
          <5>1. x.kind = "any" => y = Plan(f, h) BY <4>4
          <5> HIDE DEF f, h
          <5>2. x.kind = "any" => y.filter = f /\ y.grade = h BY <5>1, PlanIs
          <5> QED BY <2>2, <5>2 DEF f, h
        <4> QED BY <4>5, <4>6
      <3>7. ArmFilters(l, x.arms) \subseteq BOOLEAN BY <3>1 DEF ArmFilters, FilterOf
      <3>8. \A i \in DOMAIN x.arms : /\ l[x.arms[i]].filter \in BOOLEAN
                                     /\ t[x.arms[i]].omits \in BOOLEAN /\ t[x.arms[i]].conjoins \in BOOLEAN
                                     /\ t[x.arms[i]].misgrades \in BOOLEAN
        BY <3>1 DEF FilterOf, TraitRecords
      <3>9. t[n].omits = FALSE => \A i \in DOMAIN x.arms : t[x.arms[i]].omits = FALSE
        BY <2>2, <2>12, <3>8 DEF TraitsOfNode, SomeArm
      <3>10. t[n].misgrades = FALSE => \A i \in DOMAIN x.arms : t[x.arms[i]].misgrades = FALSE
        BY <2>2, <2>12, <3>8 DEF TraitsOfNode, SomeArm
      <3> HIDE DEF s, d
      <3>11. CASE x.kind = "all"
        <4>1. Extremal("min", g, s, DOMAIN s) BY <3>2, <3>5, <3>6, <3>11, GradeSetIs
        <4>2. AllBounds(v[n], d) BY <2>6, <2>12, <3>11 DEF d
        <4>3. t[n].conjoins = TRUE BY <2>2, <3>11 DEF TraitsOfNode
        <4>4. ASSUME l[n].filter = TRUE, t[n].misgrades = FALSE
              PROVE  /\ g \in Int /\ g <= Ordinal(v[n].effect)
                     /\ t[n].omits = FALSE => g = Ordinal(v[n].effect)
          <5>1. v[n].effect \in Outcomes BY <2>2, <4>4 DEF FilterOf
          <5>2. FALSE \notin ArmFilters(l, x.arms) BY <3>6, <3>7, <3>11, <4>4, SqlValues
          <5>3. \A i \in DOMAIN x.arms : l[x.arms[i]].filter = TRUE BY <3>8, <5>2 DEF ArmFilters
          <5>4. \A i \in DOMAIN x.arms : /\ s[i] \in Int /\ s[i] <= Ordinal(d[i].effect)
                                         /\ t[n].omits = FALSE => s[i] = Ordinal(d[i].effect)
            BY <3>1, <3>2, <3>3, <3>9, <3>10, <4>4, <5>3 DEF GradeOf
          <5>5. /\ \A i \in DOMAIN d : d[i].effect \in Outcomes /\ Ordinal(v[n].effect) <= Ordinal(d[i].effect)
                /\ \E i \in DOMAIN d : Ordinal(d[i].effect) = Ordinal(v[n].effect)
            BY <3>3, <3>4, <4>2, <5>1, AllAttains
          <5>6. \E i \in DOMAIN s : s[i] # Null BY <3>2, <3>3, <5>4, <5>5, NullAssumption
          <5>7. g \in Int /\ (\E i \in DOMAIN s : s[i] = g) /\ \A i \in DOMAIN s : s[i] # Null => g <= s[i]
            BY <4>1, <5>6 DEF Extremal, Within
          <5>8. PICK i \in DOMAIN d : Ordinal(d[i].effect) = Ordinal(v[n].effect) BY <5>5
          <5>9. Ordinal(v[n].effect) \in Int BY <5>1, OrdinalAssumption
          <5>10. g <= s[i] /\ s[i] \in Int /\ s[i] <= Ordinal(v[n].effect) BY <3>2, <3>3, <5>4, <5>7, <5>8, NullAssumption
          <5>11. g <= Ordinal(v[n].effect)
            <6> HIDE DEF g
            <6> QED BY <5>7, <5>9, <5>10
          <5>12. ASSUME t[n].omits = FALSE PROVE g = Ordinal(v[n].effect)
            <6>1. PICK j \in DOMAIN s : s[j] = g BY <5>7
            <6>2. s[j] = Ordinal(d[j].effect) /\ j \in DOMAIN d BY <3>2, <3>3, <5>4, <5>12
            <6>3. Ordinal(v[n].effect) <= g BY <5>5, <6>1, <6>2
            <6> HIDE DEF g
            <6> QED BY <5>7, <5>9, <5>11, <6>3
          <5> QED BY <5>7, <5>11, <5>12
        <4> QED BY <4>3, <4>4 DEF GradeOf
      <3>12. CASE x.kind = "any"
        <4>1. Extremal("max", g, s, DOMAIN s) BY <3>2, <3>5, <3>6, <3>12, GradeSetIs
        <4>2. AnyBounds(v[n], d) BY <2>6, <2>12, <3>12 DEF d
        <4>3. t[n].conjoins = FALSE => \A i \in DOMAIN x.arms : t[x.arms[i]].conjoins = FALSE
          BY <2>2, <3>8, <3>12 DEF TraitsOfNode, SomeArm
        <4>4. t[n].misgrades = FALSE => \A i \in DOMAIN x.arms : t[x.arms[i]].conjoins = FALSE
          BY <2>2, <3>8, <3>12 DEF TraitsOfNode, SomeArm
        <4>5. ASSUME l[n].filter = FALSE, t[n].conjoins = FALSE PROVE g = Null
          <5>1. TRUE \notin ArmFilters(l, x.arms) BY <3>6, <3>7, <3>12, <4>5, SqlValues
          <5>2. \A i \in DOMAIN x.arms : l[x.arms[i]].filter = FALSE BY <3>8, <5>1 DEF ArmFilters
          <5>3. \A i \in DOMAIN s : s[i] = Null BY <3>1, <3>2, <4>3, <4>5, <5>2 DEF GradeOf
          <5> QED BY <4>1, <5>3 DEF Extremal
        <4>6. ASSUME l[n].filter = TRUE, t[n].misgrades = FALSE
              PROVE  /\ g \in Int /\ g <= Ordinal(v[n].effect)
                     /\ t[n].omits = FALSE => g = Ordinal(v[n].effect)
          <5>1. v[n].effect \in Outcomes BY <2>2, <4>6 DEF FilterOf
          <5>2. TRUE \in ArmFilters(l, x.arms) BY <3>6, <3>7, <3>12, <4>6, SqlValues
          <5>3. PICK k \in DOMAIN x.arms : l[x.arms[k]].filter = TRUE BY <5>2 DEF ArmFilters
          <5>4. \A i \in DOMAIN x.arms :
                  /\ l[x.arms[i]].filter = FALSE => s[i] = Null
                  /\ l[x.arms[i]].filter = TRUE =>
                       /\ s[i] \in Int /\ s[i] <= Ordinal(d[i].effect) /\ d[i].effect # Denied
                       /\ t[n].omits = FALSE => s[i] = Ordinal(d[i].effect)
                  /\ t[n].omits = FALSE /\ d[i].effect # Denied => l[x.arms[i]].filter = TRUE
            BY <3>1, <3>2, <3>3, <3>9, <3>10, <4>4, <4>6 DEF GradeOf, FilterOf
          <5>5. /\ \A i \in DOMAIN d : d[i].effect # Denied => Ordinal(d[i].effect) <= Ordinal(v[n].effect)
                /\ \E i \in DOMAIN d : d[i].effect # Denied /\ Ordinal(d[i].effect) = Ordinal(v[n].effect)
            BY <3>3, <3>4, <4>2, <5>1, AnyAttains
          <5>6. \E i \in DOMAIN s : s[i] # Null BY <3>2, <5>3, <5>4, NullAssumption
          <5>7. g \in Int /\ (\E i \in DOMAIN s : s[i] = g) /\ \A i \in DOMAIN s : s[i] # Null => s[i] <= g
            BY <4>1, <5>6 DEF Extremal, Within
          <5>8. PICK j \in DOMAIN s : s[j] = g BY <5>7
          <5>9. l[x.arms[j]].filter = TRUE BY <3>2, <3>8, <5>4, <5>7, <5>8, NullAssumption
          <5>10. Ordinal(v[n].effect) \in Int BY <5>1, OrdinalAssumption
          <5>11. g <= Ordinal(d[j].effect) /\ d[j].effect \in Outcomes /\ j \in DOMAIN d /\ d[j].effect # Denied
            BY <3>2, <3>3, <3>4, <5>4, <5>8, <5>9
          <5>12. g <= Ordinal(v[n].effect)
            <6>1. Ordinal(d[j].effect) \in Int /\ Ordinal(d[j].effect) <= Ordinal(v[n].effect)
              BY <5>5, <5>11, OrdinalAssumption
            <6> HIDE DEF g
            <6> QED BY <5>7, <5>10, <5>11, <6>1
          <5>13. ASSUME t[n].omits = FALSE PROVE g = Ordinal(v[n].effect)
            <6>1. PICK i \in DOMAIN d : d[i].effect # Denied /\ Ordinal(d[i].effect) = Ordinal(v[n].effect) BY <5>5
            <6>2. s[i] = Ordinal(d[i].effect) /\ s[i] \in Int /\ i \in DOMAIN s BY <3>2, <3>3, <5>4, <5>13, <6>1
            <6>3. Ordinal(v[n].effect) <= g BY <5>7, <6>1, <6>2, NullAssumption
            <6> HIDE DEF g
            <6> QED BY <5>7, <5>10, <5>12, <6>3
          <5> QED BY <5>7, <5>12, <5>13
        <4> QED BY <4>5, <4>6 DEF GradeOf
      <3> QED BY <2>12, <3>11, <3>12
    <2>13. CASE x.kind = "or_else" /\ Before(x.primary, n) /\ Before(x.fallback, n)
      <3> DEFINE a == l[x.primary]
                 b == l[x.fallback]
      <3>1. Good(x.primary) /\ Good(x.fallback) /\ Filter(x.primary) /\ Filter(x.fallback) BY <2>1, <2>13
      <3>2. t[x.primary] \in TraitRecords /\ t[x.fallback] \in TraitRecords /\ t[n] \in TraitRecords BY <2>1, <2>2, <2>13
      <3>3. v[n].effect = IF v[x.primary].effect # Denied THEN v[x.primary].effect ELSE v[x.fallback].effect
        BY <2>2, <2>13 DEF EffectOfNode
      <3>4. a.filter \in BOOLEAN /\ b.filter \in BOOLEAN BY <3>1 DEF FilterOf
      <3>5. a.filter = TRUE => v[n].effect = v[x.primary].effect BY <3>1, <3>3 DEF FilterOf
      <3>6. CASE Pruned(x, ob)
        <4>1. l[n] = a BY <2>2, <2>7, <2>13, <3>6 DEF LowerCases
        <4>2. /\ t[n].omits = TRUE
              /\ t[n].conjoins = FALSE => t[x.primary].conjoins = FALSE
              /\ t[n].misgrades = FALSE => t[x.primary].misgrades = FALSE
          BY <2>2, <2>13, <3>2, <3>6 DEF TraitsOfNode, TraitRecords
        <4> QED BY <3>1, <3>5, <4>1, <4>2 DEF GradeOf
      <3>7. CASE ~Pruned(x, ob)
        <4>1. y = Plan(SqlOr({a.filter, b.filter}), CaseWhen(a.filter, a.grade, b.grade))
          BY <2>7, <2>13, <3>7 DEF LowerCases
        <4>2. l[n].filter = SqlOr({a.filter, b.filter}) /\ l[n].grade = CaseWhen(a.filter, a.grade, b.grade)
          BY <2>2, <4>1, PlanIs
        <4>3. {a.filter, b.filter} \subseteq BOOLEAN BY <3>4
        <4>4. /\ t[n].omits = FALSE => t[x.primary].omits = FALSE /\ t[x.fallback].omits = FALSE
              /\ t[n].conjoins = FALSE => t[x.primary].conjoins = FALSE /\ t[x.fallback].conjoins = FALSE
              /\ t[n].misgrades = FALSE => /\ t[x.primary].misgrades = FALSE /\ t[x.fallback].misgrades = FALSE
                                           /\ t[x.primary].omits = FALSE
          BY <2>2, <2>13, <3>2, <3>7 DEF TraitsOfNode, TraitRecords
        <4>5. CASE a.filter = TRUE
          <5>1. TRUE \in {a.filter, b.filter} BY <4>5
          <5>2. l[n].filter = TRUE BY <4>2, <4>3, <5>1, SqlValues
          <5>3. l[n].grade = a.grade BY <4>2, <4>5 DEF CaseWhen
          <5> QED BY <3>1, <3>5, <4>4, <4>5, <5>2, <5>3 DEF GradeOf
        <4>6. CASE a.filter = FALSE /\ b.filter = TRUE
          <5>1. TRUE \in {a.filter, b.filter} BY <4>6
          <5>2. l[n].filter = TRUE BY <4>2, <4>3, <5>1, SqlValues
          <5>3. l[n].grade = b.grade BY <4>2, <4>6 DEF CaseWhen
          <5>4. t[n].misgrades = FALSE => v[n].effect = v[x.fallback].effect BY <3>1, <3>3, <4>4, <4>6 DEF FilterOf
          <5> QED BY <3>1, <4>4, <4>6, <5>2, <5>3, <5>4 DEF GradeOf
        <4>7. CASE a.filter = FALSE /\ b.filter = FALSE
          <5>1. TRUE \notin {a.filter, b.filter} BY <4>7
          <5>2. l[n].filter = FALSE BY <4>2, <4>3, <5>1, SqlValues
          <5>3. l[n].grade = b.grade BY <4>2, <4>7 DEF CaseWhen
          <5> QED BY <3>1, <4>4, <4>7, <5>2, <5>3 DEF GradeOf
        <4> QED BY <3>4, <4>5, <4>6, <4>7
      <3> QED BY <3>6, <3>7
    <2> QED BY <2>3, <2>8, <2>9, <2>10, <2>11, <2>12, <2>13
  <1> HIDE DEF G, N
  <1>9. 1 .. N \subseteq G BY <1>1, <1>8, LowerRec!Positions
  <1> QED BY <1>9 DEF G, N

-----------------------------------------------------------------------------
(***************************************************************************)
(* lower_result: the query of a policy, on a row.                          *)
(***************************************************************************)
LEMMA RowIsCompletion ==
  ASSUME NEW pf, NEW r
  PROVE  FactsOfRow(pf, r) \in Completions(pf) /\ OfRow(FactsOfRow(pf, r), r, pf)
  <1>1. FactsOfRow(pf, r) \in Completions(pf) BY DEF FactsOfRow, Completions
  <1>2. OfRow(FactsOfRow(pf, r), r, pf) BY DEF FactsOfRow, OfRow, Unknown, Known, Present
  <1> QED BY <1>1, <1>2

\* The fragments before the tenant is enforced
RowPlan(result, r, nulls) ==
  IF ~result.resolved THEN Lower(result.residual, r, nulls)
  ELSE IF IsPermit(result.decision) THEN Plan(TRUE, Ordinal(result.decision.effect))
  ELSE Plan(FALSE, Null)

LEMMA LowerResultIs ==
  ASSUME NEW result, NEW r, NEW nulls
  PROVE  LowerResult(result, r, nulls) =
           Plan(EnforceTenantFilter(RowPlan(result, r, nulls).filter, r),
                EnforceTenantProjection(RowPlan(result, r, nulls).grade, r))
  BY Zenon DEF LowerResult, RowPlan

LEMMA TenantOnly ==
  ASSUME NEW r \in Rows, NEW g
  PROVE  /\ \A f \in BOOLEAN : EnforceTenantFilter(f, r) = TRUE <=> r.tenant = Tenant /\ f = TRUE
         /\ r.tenant = Tenant => EnforceTenantProjection(g, r) = g
         /\ r.tenant # Tenant => EnforceTenantProjection(g, r) = Null
  <1>1. Tenant # Null BY NullAssumption, TenantAssumption
  <1>2. r.tenant = Tenant => TenantGuard(r) = TRUE BY <1>1 DEF TenantGuard
  <1>3. r.tenant # Tenant => TenantGuard(r) # TRUE BY NullAssumption DEF TenantGuard
  <1>4. \A f \in BOOLEAN : EnforceTenantFilter(f, r) = TRUE <=> r.tenant = Tenant /\ f = TRUE
    <2> SUFFICES ASSUME NEW f \in BOOLEAN
                 PROVE  EnforceTenantFilter(f, r) = TRUE <=> r.tenant = Tenant /\ f = TRUE
      OBVIOUS
    <2> DEFINE a == TenantGuard(r)
    <2>1. EnforceTenantFilter(f, r) = SqlAnd({a, f}) BY DEF EnforceTenantFilter
    <2>2. a = TRUE \/ a = FALSE \/ a = Null BY DEF TenantGuard
    <2> HIDE DEF a
    <2>3. CASE a = TRUE /\ f = TRUE
      <3>1. FALSE \notin {a, f} /\ {a, f} \subseteq BOOLEAN BY <2>3
      <3>2. SqlAnd({a, f}) = TRUE BY <3>1, SqlValues
      <3> QED BY <1>3, <2>1, <2>3, <3>2 DEF a
    <2>4. CASE f = FALSE \/ a = FALSE
      <3>1. FALSE \in {a, f} BY <2>4
      <3>2. SqlAnd({a, f}) = FALSE BY <3>1, Zenon DEF SqlAnd
      <3>3. ~(r.tenant = Tenant /\ f = TRUE) BY <1>2, <2>4 DEF a
      <3> QED BY <2>1, <3>2, <3>3
    <2>5. CASE f = TRUE /\ a = Null
      <3>1. FALSE \notin {a, f} /\ Null \in {a, f} BY <2>5, NullAssumption
      <3>2. SqlAnd({a, f}) = Null BY <3>1, Zenon DEF SqlAnd
      <3>3. r.tenant # Tenant BY <1>2, <2>5, NullAssumption DEF a
      <3> QED BY <2>1, <3>2, <3>3, NullAssumption
    <2> QED BY <2>2, <2>3, <2>4, <2>5
  <1>5. EnforceTenantFilter(TRUE, r) = TRUE <=> r.tenant = Tenant BY <1>4
  <1>6. r.tenant = Tenant => EnforceTenantProjection(g, r) = g BY <1>5 DEF EnforceTenantProjection, CaseWhen
  <1>7. r.tenant # Tenant => EnforceTenantProjection(g, r) = Null BY <1>5 DEF EnforceTenantProjection, CaseWhen
  <1> QED BY <1>4, <1>6, <1>7

\* What the fragments are on a row, before the tenant is enforced.
RowIsFaithful(h, r, plan, effect) ==
  /\ plan.filter \in BOOLEAN
  /\ plan.filter = TRUE => effect # Denied
  /\ ~OmitsFallback(h) /\ effect # Denied => plan.filter = TRUE
  /\ plan.filter = TRUE /\ ~MisgradesRows(h) =>
       /\ plan.grade \in Int /\ plan.grade <= Ordinal(effect)
       /\ ~OmitsFallback(h) => plan.grade = Ordinal(effect)
  /\ ~h.resolved => LowerFilter(h.residual, r) = plan.filter

LEMMA PlanFacts ==
  ASSUME NEW p, IsPolicy(p), NEW pf, NEW r \in Rows, NEW h, h = PartialEvaluate(p, pf)
  PROVE  /\ RowPlan(h, r, TRUE) = RowPlan(h, r, FALSE)
         /\ RowIsFaithful(h, r, RowPlan(h, r, TRUE), Evaluate(p, FactsOfRow(pf, r)).effect)
  <1> DEFINE N == Len(p)
             q == Residue(p, pf)
             R == ReduceTable(p, pf)
             S == FactsOfRow(pf, r)
             v == EvalTable(q, S)
             e == Evaluate(p, S).effect
  <1>1. IsPolicy(p) /\ h = PartialEvaluate(p, pf) OBVIOUS
  <1>2. S \in Completions(pf) /\ OfRow(S, r, pf) BY RowIsCompletion
  <1>3. N \in 1 .. N /\ IsTree(p) /\ IsTree(q) /\ Len(q) = N BY <1>1, PolicyIsTree, TreePositions, ResidueIs
  <1>4. ReducedPolicy(R[N], N) BY <1>1, <1>3, ReducedShapes
  <1>5. e = v[N].effect
    <2>1. \A X : Agree(S, S, X) BY DEF Agree
    <2> DEFINE u == EvalTable(p, S)
    <2>2. S \in Completions(pf) BY <1>2
    <2> HIDE DEF S
    <2>3. \A n \in 1 .. N : Agree(S, S, R[n].consulted \union v[n].consulted) => u[n].effect = v[n].effect
      BY <1>1, <2>2, PolicyPreserved
    <2>4. Evaluate(p, S) = u[N] BY DEF Evaluate, Root
    <2> HIDE DEF R, v, u, N
    <2> QED BY <1>3, <2>1, <2>3, <2>4
  <1>6. CASE R[N].resolved
    <2> DEFINE x == q[N]
    <2>1. h = R[N] BY <1>1, <1>6, PartialEvaluateIs
    <2>2. x.kind \in {"permit_trace", "deny_trace"} /\ x.decision.effect = R[N].decision.effect
      BY <1>1, <1>3, <1>6, ResidueIs
    <2>3. ConsultedOfNode(x, v, N, S) BY <1>3, NodeConsults
    <2>4. e = h.decision.effect
      <3> HIDE DEF x, v, N, e, R
      <3> QED BY <1>5, <2>1, <2>2, <2>3 DEF ConsultedOfNode
    <2>5. h.decision \in Auditable /\ h.resolved = TRUE BY <1>4, <1>6, <2>1 DEF ReducedPolicy
    <2>6. e \in Outcomes \/ e = Denied BY <2>4, <2>5, Auditing
    <2> HIDE DEF e, S, q, R, N, v
    <2>7. CASE e # Denied
      <3>1. RowPlan(h, r, TRUE) = Plan(TRUE, Ordinal(e)) /\ RowPlan(h, r, FALSE) = Plan(TRUE, Ordinal(e))
        BY <2>4, <2>5, <2>7 DEF RowPlan, IsPermit
      <3> DEFINE y == RowPlan(h, r, TRUE)
      <3>0. RowPlan(h, r, TRUE) = RowPlan(h, r, FALSE) BY <3>1, Zenon
      <3>a. y = Plan(TRUE, Ordinal(e)) BY <3>1
      <3> HIDE DEF y
      <3>2. y.filter = TRUE /\ y.grade = Ordinal(e) BY <3>a DEF Plan
      <3>3. Ordinal(e) \in Int BY <2>6, <2>7, OrdinalAssumption
      <3>4. y.filter \in BOOLEAN /\ y.grade \in Int /\ y.grade <= Ordinal(e)
        <4> DEFINE o == Ordinal(e)
        <4>1. o \in Int /\ y.grade = o BY <3>2, <3>3
        <4> HIDE DEF o
        <4>2. y.grade \in Int /\ y.grade <= o BY <4>1
        <4> QED BY <3>2, <4>2 DEF o
      <3>5. RowIsFaithful(h, r, y, e) BY <2>5, <2>7, <3>2, <3>4 DEF RowIsFaithful
      <3> QED BY <3>0, <3>5 DEF e, S, y
    <2>8. CASE e = Denied
      <3>1. RowPlan(h, r, TRUE) = Plan(FALSE, Null) /\ RowPlan(h, r, FALSE) = Plan(FALSE, Null)
        BY <2>4, <2>5, <2>8 DEF RowPlan, IsPermit
      <3> DEFINE y == RowPlan(h, r, TRUE)
      <3>0. RowPlan(h, r, TRUE) = RowPlan(h, r, FALSE) BY <3>1, Zenon
      <3>a. y = Plan(FALSE, Null) BY <3>1
      <3> HIDE DEF y
      <3>2. y.filter = FALSE BY <3>a DEF Plan
      <3>3. RowIsFaithful(h, r, y, e) BY <2>5, <2>8, <3>2 DEF RowIsFaithful
      <3> QED BY <3>0, <3>3 DEF e, S, y
    <2> QED BY <2>7, <2>8
  <1>7. CASE ~R[N].resolved
    <2> DEFINE l == LowerTable(q, r, TRUE)
               t == TraitsTable(q)
               w == LowerFilterTable(q, r)
    <2>1. h = Pending(q, R[N].consulted) BY <1>1, <1>7, PartialEvaluateIs
    <2>2. h.resolved = FALSE /\ h.residual = q
      <3> HIDE DEF q, R, N
      <3> QED BY <2>1 DEF Pending
    <2>3. RowTree(q, pf) BY <1>1, ResidueRows
    <2>4. FilterOf(l[N].filter, v[N].effect, t[N].omits, w[N]) BY <1>2, <1>3, <2>3, FilterFacts
    <2>5. GradeOf(l[N], v[N].effect, t[N]) BY <1>2, <1>3, <2>3, GradeFacts
    <2>6. l[N] = LowerTable(q, r, FALSE)[N] BY <1>3, SamePlans
    <2>7. t[N] \in TraitRecords BY <1>3, TraitsFacts DEF TraitsOfNode
    <2>8. \A nulls : RowPlan(h, r, nulls) = LowerTable(q, r, nulls)[N]
      <3>1. \A nulls : RowPlan(h, r, nulls) = Lower(q, r, nulls) BY <2>2 DEF RowPlan
      <3>2. \A nulls : Lower(q, r, nulls) = LowerTable(q, r, nulls)[N] BY <1>3 DEF Lower, Root
      <3> QED BY <3>1, <3>2
    <2>9. LowerFilter(h.residual, r) = w[N] BY <1>3, <2>2 DEF LowerFilter, Root
    <2>10. /\ ~OmitsFallback(h) <=> t[N].omits = FALSE
           /\ MisgradesRows(h) <=> t[N].misgrades = TRUE
      <3>1. Root(TraitsTable(h.residual), h.residual) = t[N] BY <1>3, <2>2 DEF Root
      <3> HIDE DEF t
      <3> QED BY <2>2, <2>7, <3>1 DEF OmitsFallback, MisgradesRows, TraitRecords
    <2>11. RowPlan(h, r, TRUE) = l[N] /\ RowPlan(h, r, TRUE) = RowPlan(h, r, FALSE) BY <2>6, <2>8
    <2> HIDE DEF l, t, w, v, q, N, R, S, e
    <2>12. RowIsFaithful(h, r, l[N], e)
      BY <1>5, <2>4, <2>5, <2>7, <2>9, <2>10 DEF RowIsFaithful, FilterOf, GradeOf, TraitRecords
    <2> QED BY <2>11, <2>12 DEF e, S
  <1>8. R[N].resolved \in BOOLEAN BY <1>4 DEF ReducedPolicy
  <1> QED BY <1>6, <1>7, <1>8

-----------------------------------------------------------------------------
PolicyInv ==
  /\ policy \in Policies /\ facts \in PartialFacts
  /\ held # NoResidual =>
       \E known \in PartialFacts : Extends(facts, known) /\ held = PartialEvaluate(policy, known)

LEMMA PolicyInvInductive ==
  /\ ResidualInit => PolicyInv
  /\ PolicyInv /\ [ResidualNext]_pvars => PolicyInv'
  <1>1. ResidualInit => PolicyInv BY DEF ResidualInit, PolicyInv
  <1>2. ASSUME PolicyInv, Reduce PROVE PolicyInv'
    <2>1. Extends(facts, facts) BY DEF Extends
    <2> QED BY <1>2, <2>1 DEF PolicyInv, Reduce
  <1>3. ASSUME PolicyInv, NEW f \in Facts, NEW value \in {"present", "absent"}, Learn(f, value) PROVE PolicyInv'
    <2>1. facts' \in PartialFacts BY <1>3 DEF PolicyInv, Learn, PartialFacts, Presence
    <2>2. PICK known \in PartialFacts : Extends(facts, known) /\ held = PartialEvaluate(policy, known)
      BY <1>3 DEF PolicyInv, Learn
    <2>3. Extends(facts', known) BY <1>3, <2>2 DEF Extends, Learn, PolicyInv, PartialFacts
    <2>4. held' = PartialEvaluate(policy', known) /\ policy' \in Policies BY <1>3, <2>2 DEF Learn, PolicyInv
    <2> QED BY <2>1, <2>3, <2>4 DEF PolicyInv
  <1>4. ASSUME PolicyInv, UNCHANGED pvars PROVE PolicyInv'
    BY <1>4 DEF PolicyInv, pvars
  <1> QED BY <1>1, <1>2, <1>3, <1>4 DEF ResidualNext

\* Whatever a service has learned since, the residual it holds is the reduction
\* of its policy with facts that the facts it knows now extend (partial_evaluate).
THEOREM PolicyInvHolds == ResidualSpec => []PolicyInv
  BY PolicyInvInductive, PTL DEF ResidualSpec

LEMMA InvPolicy ==
  ASSUME PolicyInv
  PROVE  /\ IsPolicy(policy) /\ Len(policy) \in 1 .. Len(policy)
         /\ \A S : Evaluate(policy, S) = EvalTable(policy, S)[Len(policy)]
         /\ \A S : Meaning(policy, S) = MeaningTable(policy, S)[Len(policy)]
         /\ RequiredFacts(policy) = RequiredFactsTable(policy)[Len(policy)]
  <1>1. IsPolicy(policy) BY PoliciesAssumption DEF PolicyInv
  <1>2. Len(policy) \in 1 .. Len(policy) BY <1>1, PolicyIsTree, TreePositions
  <1> QED BY <1>1, <1>2 DEF Evaluate, Meaning, RequiredFacts, Root

\* evaluate computes the meet, join and fallback of what the clauses grant, for
\* every policy, every lattice and every set of facts.
THEOREM EvaluateDenotesHolds == ResidualSpec => []EvaluateDenotes
  <1>1. PolicyInv => EvaluateDenotes
    <2> SUFFICES ASSUME PolicyInv PROVE EvaluateDenotes OBVIOUS
    <2> DEFINE S == Present(facts)
               n == Len(policy)
    <2>1. IsPolicy(policy) /\ n \in 1 .. Len(policy) BY InvPolicy
    <2>2. EvalTable(policy, S)[n].effect = MeaningTable(policy, S)[n] BY <2>1, MeaningIsEffect
    <2>3. Evaluate(policy, S) = EvalTable(policy, S)[n] /\ Meaning(policy, S) = MeaningTable(policy, S)[n] BY InvPolicy
    <2> QED BY <2>2, <2>3 DEF EvaluateDenotes
  <1> QED BY <1>1, PolicyInvHolds, PTL

\* The consulted facts of a trace are announced by required_facts and
\* determine the whole decision.
THEOREM ConsultedDeterminesHolds == ResidualSpec => []ConsultedDetermines
  <1>1. PolicyInv => ConsultedDetermines
    <2> SUFFICES ASSUME PolicyInv PROVE ConsultedDetermines OBVIOUS
    <2> DEFINE S == Present(facts)
               n == Len(policy)
               d == Evaluate(policy, S)
    <2>1. IsPolicy(policy) /\ n \in 1 .. Len(policy) /\ IsTree(policy) BY InvPolicy, PolicyIsTree
    <2>2. \A m \in 1 .. Len(policy) : policy[m].kind \notin {"permit_trace", "deny_trace"} BY <2>1, PolicyKinds
    <2>3. \A T : /\ EvalTable(policy, S)[n].consulted \subseteq RequiredFactsTable(policy)[n]
                 /\ Agree(S, T, EvalTable(policy, S)[n].consulted) =>
                      EvalTable(policy, T)[n] = EvalTable(policy, S)[n]
      BY <2>1, <2>2, DecisionConsulted
    <2>4. /\ \A T : Evaluate(policy, T) = EvalTable(policy, T)[n]
          /\ RequiredFacts(policy) = RequiredFactsTable(policy)[n]
      BY InvPolicy
    <2> HIDE DEF S, n
    <2>5. d.consulted \subseteq RequiredFacts(policy) BY <2>3, <2>4
    <2>6. \A T \in SUBSET Facts : T \intersect d.consulted = S \intersect d.consulted => Evaluate(policy, T) = d
      BY <2>3, <2>4 DEF Agree
    <2> QED BY <2>5, <2>6 DEF ConsultedDetermines, S
  <1> QED BY <1>1, PolicyInvHolds, PTL

LEMMA HeldCompletes ==
  ASSUME PolicyInv, held # NoResidual, NEW S \in Completions(facts), NEW T
  PROVE  /\ CompleteResidual(held, S) \in Auditable
         /\ Agree(S, T, CompleteResidual(held, S).consulted) =>
              Evaluate(policy, T).effect = CompleteResidual(held, S).effect
  <1>1. PICK known \in PartialFacts : Extends(facts, known) /\ held = PartialEvaluate(policy, known) BY DEF PolicyInv
  <1>2. S \in Completions(known) BY <1>1, FewerCompletions DEF PolicyInv
  <1>3. IsPolicy(policy) BY InvPolicy
  <1> QED BY <1>1, <1>2, <1>3, Completed

\* A residual that was kept while facts became known, completed with whatever
\* is still open, has the effect of evaluating the policy outright.
THEOREM PartialPreservesEffectHolds == ResidualSpec => []PartialPreservesEffect
  <1>1. PolicyInv => PartialPreservesEffect
    <2> SUFFICES ASSUME PolicyInv, held # NoResidual, NEW S \in Completions(facts)
                 PROVE  CompleteResidual(held, S).effect = Evaluate(policy, S).effect
      BY DEF PartialPreservesEffect
    <2>1. \A X : Agree(S, S, X) BY DEF Agree
    <2> QED BY <2>1, HeldCompletes
  <1> QED BY <1>1, PolicyInvHolds, PTL

\* A completed decision passes validate_audit_semantics, and the facts it says
\* were consulted justify it against the original policy.
THEOREM CompletedIsAuditableHolds == ResidualSpec => []CompletedIsAuditable
  <1>1. PolicyInv => CompletedIsAuditable
    <2> SUFFICES ASSUME PolicyInv, held # NoResidual, NEW S \in Completions(facts)
                 PROVE  LET d == CompleteResidual(held, S)
                        IN  /\ ValidSemantics(d)
                            /\ \A T \in SUBSET Facts : T \intersect d.consulted = S \intersect d.consulted =>
                                 Evaluate(policy, T).effect = d.effect
      BY DEF CompletedIsAuditable
    <2> DEFINE d == CompleteResidual(held, S)
    <2>1. \A T : d \in Auditable /\ (Agree(S, T, d.consulted) => Evaluate(policy, T).effect = d.effect)
      BY HeldCompletes
    <2> HIDE DEF d
    <2>2. ValidSemantics(d) BY <2>1 DEF Auditable
    <2>3. \A T \in SUBSET Facts : T \intersect d.consulted = S \intersect d.consulted =>
            Evaluate(policy, T).effect = d.effect
      BY <2>1 DEF Agree
    <2> QED BY <2>2, <2>3 DEF d
  <1> QED BY <1>1, PolicyInvHolds, PTL

\* What partial_evaluate leaves asks only for facts that were unknown, and asks
\* for something.
THEOREM ResidualAsksUnknownHolds == ResidualSpec => ResidualAsksUnknown
  <1>1. ASSUME PolicyInv, ResidualNext, held = NoResidual, ~held'.resolved
        PROVE  RequiredFacts(held'.residual) # {} /\ RequiredFacts(held'.residual) \subseteq Unknown(facts)
    <2> DEFINE n == Len(policy)
               q == Residue(policy, facts)
    <2>1. held' = PartialEvaluate(policy, facts) BY <1>1 DEF ResidualNext, Reduce, Learn
    <2>2. IsPolicy(policy) /\ n \in 1 .. Len(policy) BY <1>1, InvPolicy
    <2>3. ~ReduceTable(policy, facts)[n].resolved /\ held' = Pending(q, ReduceTable(policy, facts)[n].consulted)
      BY <1>1, <2>1, <2>2, PartialEvaluateIs
    <2>4. held'.residual = q BY <2>3, PendingIs
    <2>5. RequiredFacts(q) = RequiredFactsTable(q)[n] BY <2>2, ResidueIs DEF RequiredFacts, Root
    <2>6. RequiredFactsTable(q)[n] \subseteq Unknown(facts) /\ RequiredFactsTable(q)[n] # {}
      BY <2>2, <2>3, ResidueFacts
    <2> QED BY <2>4, <2>5, <2>6
  <1>2. PolicyInv /\ [ResidualNext]_pvars =>
          [held = NoResidual /\ ~held'.resolved =>
             /\ RequiredFacts(held'.residual) # {}
             /\ RequiredFacts(held'.residual) \subseteq Unknown(facts)]_held
    BY <1>1 DEF pvars
  <1> QED BY <1>2, PolicyInvHolds, PTL DEF ResidualSpec, ResidualAsksUnknown

-----------------------------------------------------------------------------
(***************************************************************************)
(* The query and its rows.                                                 *)
(***************************************************************************)
ListInv ==
  /\ policy \in Policies /\ facts \in PartialFacts
  /\ held # NoResidual => held = PartialEvaluate(policy, facts)
  /\ row # NoRow => row \in Rows

LEMMA ListInvInductive ==
  /\ ListInit => ListInv
  /\ ListInv /\ [ListNext]_svars => ListInv'
  <1>1. ListInit => ListInv BY DEF ListInit, ResidualInit, ListInv
  <1>2. ASSUME ListInv, ReduceOnce PROVE ListInv' BY <1>2 DEF ListInv, ReduceOnce, Reduce
  <1>3. ASSUME ListInv, NEW r \in Rows, Scan(r) PROVE ListInv' BY <1>3 DEF ListInv, Scan, pvars
  <1>4. ASSUME ListInv, UNCHANGED svars PROVE ListInv' BY <1>4 DEF ListInv, svars, pvars
  <1> QED BY <1>1, <1>2, <1>3, <1>4 DEF ListNext

\* The query is the one of the service's own policy and known facts.
THEOREM ListInvHolds == ListSpec => []ListInv
  BY ListInvInductive, PTL DEF ListSpec

LEMMA ScanFacts ==
  ASSUME ListInv, Scanning
  PROVE  /\ row \in Rows
         /\ RowPlan(held, row, TRUE) = RowPlan(held, row, FALSE)
         /\ RowIsFaithful(held, row, RowPlan(held, row, TRUE), Evaluate(policy, RowFacts).effect)
  <1>1. IsPolicy(policy) /\ held = PartialEvaluate(policy, facts) /\ row \in Rows
    BY PoliciesAssumption DEF ListInv, Scanning
  <1> QED BY <1>1, PlanFacts DEF RowFacts

LEMMA OnRowIs ==
  ASSUME NEW nulls
  PROVE  /\ OnRow(nulls).filter = EnforceTenantFilter(RowPlan(held, row, nulls).filter, row)
         /\ OnRow(nulls).grade = EnforceTenantProjection(RowPlan(held, row, nulls).grade, row)
  BY LowerResultIs, PlanIs DEF OnRow

\* A row that leaves the database is the tenant's own and one the policy
\* permits, and no permitted row is hidden unless its permit hangs on an
\* omitted fallback, whatever the policy, the facts and the row's columns.
THEOREM FilterIsExactHolds == ListSpec => []FilterIsExact
  <1>1. ListInv => FilterIsExact
    <2> SUFFICES ASSUME ListInv, Scanning
                 PROVE  /\ Selected => row.tenant = Tenant /\ IsPermit(Evaluate(policy, RowFacts))
                        /\ Complete /\ row.tenant = Tenant /\ IsPermit(Evaluate(policy, RowFacts)) => Selected
      BY DEF FilterIsExact, SelectedIsPermitted, PermittedIsSelected
    <2> DEFINE y == RowPlan(held, row, TRUE)
    <2>1. RowIsFaithful(held, row, y, Evaluate(policy, RowFacts).effect) BY ScanFacts
    <2>2. row \in Rows BY DEF ListInv, Scanning
    <2>3. OnRow(TRUE).filter = EnforceTenantFilter(y.filter, row) BY OnRowIs
    <2> HIDE DEF y
    <2>4. y.filter \in BOOLEAN BY <2>1 DEF RowIsFaithful, Complete, Misgrades
    <2>5. Selected <=> row.tenant = Tenant /\ y.filter = TRUE BY <2>2, <2>3, <2>4, TenantOnly DEF Selected
    <2> QED BY <2>1, <2>5 DEF RowIsFaithful, Complete, Misgrades, IsPermit
  <1> QED BY <1>1, ListInvHolds, PTL

\* The grade of a selected row is at most what the policy grants and exactly
\* that when no fallback was omitted, outside the policies that misgrade; a
\* row of another tenant has no grade on any backend.
THEOREM GradeIsFaithfulHolds == ListSpec => []GradeIsFaithful
  <1>1. ListInv => GradeIsFaithful
    <2> SUFFICES ASSUME ListInv, Scanning PROVE GradeIsFaithful BY DEF GradeIsFaithful
    <2> DEFINE y == RowPlan(held, row, TRUE)
               z == RowPlan(held, row, FALSE)
               e == Evaluate(policy, RowFacts).effect
    <2>1. y = z /\ RowIsFaithful(held, row, y, e) BY ScanFacts
    <2>2. row \in Rows BY DEF ListInv, Scanning
    <2>3. /\ OnRow(TRUE).filter = EnforceTenantFilter(y.filter, row)
          /\ OnRow(TRUE).grade = EnforceTenantProjection(y.grade, row)
          /\ OnRow(FALSE).grade = EnforceTenantProjection(z.grade, row)
      BY OnRowIs
    <2> HIDE DEF y, z, e
    <2>4. y.filter \in BOOLEAN BY <2>1 DEF RowIsFaithful, Complete, Misgrades
    <2>5. Selected <=> row.tenant = Tenant /\ y.filter = TRUE BY <2>2, <2>3, <2>4, TenantOnly DEF Selected
    <2>6. row.tenant # Tenant => OnRow(TRUE).grade = Null /\ OnRow(FALSE).grade = Null BY <2>2, <2>3, TenantOnly
    <2>7. row.tenant = Tenant => OnRow(TRUE).grade = y.grade BY <2>2, <2>3, TenantOnly
    <2>8. ASSUME Selected, ~Misgrades
          PROVE  /\ OnRow(TRUE).grade # Null /\ OnRow(TRUE).grade <= Ordinal(e)
                 /\ Complete => OnRow(TRUE).grade = Ordinal(e)
      <3>1. /\ y.grade \in Int /\ y.grade <= Ordinal(e)
            /\ Complete => y.grade = Ordinal(e)
        BY <2>1, <2>5, <2>8 DEF RowIsFaithful, Complete, Misgrades
      <3> QED BY <2>5, <2>7, <2>8, <3>1, NullAssumption
    <2> QED BY <2>6, <2>8 DEF GradeIsFaithful, e
  <1> QED BY <1>1, ListInvHolds, PTL

\* The guarded grade of SQLite and MySQL is the grade of Postgres, and
\* lower_filter builds the filter lower_result builds.
THEOREM LoweringsAgreeHolds == ListSpec => []LoweringsAgree
  <1>1. ListInv => LoweringsAgree
    <2> SUFFICES ASSUME ListInv, Scanning
                 PROVE  /\ OnRow(TRUE) = OnRow(FALSE)
                        /\ ~held.resolved =>
                             EnforceTenantFilter(LowerFilter(held.residual, row), row) = OnRow(TRUE).filter
      BY DEF LoweringsAgree
    <2> DEFINE y == RowPlan(held, row, TRUE)
               e == Evaluate(policy, RowFacts).effect
    <2>1. y = RowPlan(held, row, FALSE) /\ RowIsFaithful(held, row, y, e) BY ScanFacts
    <2>2. \A nulls : OnRow(nulls) = Plan(EnforceTenantFilter(RowPlan(held, row, nulls).filter, row),
                                         EnforceTenantProjection(RowPlan(held, row, nulls).grade, row))
      BY LowerResultIs DEF OnRow
    <2>3. OnRow(TRUE) = Plan(EnforceTenantFilter(y.filter, row), EnforceTenantProjection(y.grade, row)) BY <2>2
    <2>4. OnRow(FALSE) = Plan(EnforceTenantFilter(y.filter, row), EnforceTenantProjection(y.grade, row)) BY <2>1, <2>2
    <2>5. OnRow(TRUE).filter = EnforceTenantFilter(y.filter, row) BY OnRowIs
    <2> HIDE DEF y, e
    <2>6. ~held.resolved => LowerFilter(held.residual, row) = y.filter BY <2>1 DEF RowIsFaithful, Complete, Misgrades
    <2> QED BY <2>3, <2>4, <2>5, <2>6
  <1> QED BY <1>1, ListInvHolds, PTL
=============================================================================
