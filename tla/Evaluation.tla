----------------------------- MODULE Evaluation -----------------------------
(***************************************************************************)
(* gatekeep's pure core: conditions, policies and evaluate (evaluate.rs,   *)
(* policy_model.rs).                                                       *)
(*                                                                         *)
(* A condition or a policy is the sequence of its nodes, records tagged by *)
(* `kind`, in which the arms of a node are the positions of earlier nodes  *)
(* and the last node is the root.  What a recursive function of the code   *)
(* computes is a table over these positions.  The same operators evaluate  *)
(* Policy and ResidualPolicy, whose extra nodes are "permit_trace" and     *)
(* "deny_trace".                                                           *)
(*                                                                         *)
(* Obligations, decisive facts and consulted facts are sets: the code      *)
(* deduplicates them and no property here depends on their order.  One     *)
(* `label` stands for the clause's label, reason code and deny shape.      *)
(* KnownFacts is the set of facts that are present: an omitted fact is     *)
(* absent.                                                                 *)
(***************************************************************************)
EXTENDS Naturals, Sequences, FiniteSetsExt

CONSTANTS
  Facts,
  Outcomes,        \* the outcome type of a policy
  Meet(_, _),      \* Lattice::meet
  Join(_, _),      \* Lattice::join
  Denied,          \* Effect::Deny
  Obligations,
  Labels, NoLabel

\* The laws check_lattice checks.
ASSUME LatticeAssumption ==
  /\ Denied \notin Outcomes
  /\ \A x, y \in Outcomes :
       /\ Meet(x, y) \in Outcomes /\ Join(x, y) \in Outcomes
       /\ Meet(x, y) = Meet(y, x) /\ Join(x, y) = Join(y, x)
       /\ Meet(x, Join(x, y)) = x /\ Join(x, Meet(x, y)) = x
  /\ \A x, y, z \in Outcomes :
       Meet(x, Meet(y, z)) = Meet(Meet(x, y), z) /\ Join(x, Join(y, z)) = Join(Join(x, y), z)

ASSUME LabelAssumption == NoLabel \in Labels

-----------------------------------------------------------------------------
Always == [kind |-> "always"]
Never == [kind |-> "never"]
Has(f) == [kind |-> "has", fact |-> f]
Not(n) == [kind |-> "not", arm |-> n]

\* Condition::All / Any and Policy::All / Any
AllOf(arms) == [kind |-> "all", arms |-> arms]
AnyOf(arms) == [kind |-> "any", arms |-> arms]

Permit(o) == [kind |-> "permit", outcome |-> o]
Deny == [kind |-> "deny"]
Grant(o, c, obligations, label) ==
  [kind |-> "grant", outcome |-> o, condition |-> c, obligations |-> obligations, label |-> label]
OrElse(m, n) == [kind |-> "or_else", primary |-> m, fallback |-> n]

\* ResidualPolicy::PermitWithTrace, DenyWithTrace
PermitWithTrace(d) == [kind |-> "permit_trace", decision |-> d]
DenyWithTrace(d) == [kind |-> "deny_trace", decision |-> d]

\* The values of a node's arms
At(table, arms) == [i \in DOMAIN arms |-> table[arms[i]]]

Root(table, tree) == table[Len(tree)]

\* The arms a loop has visited that returns at the first of `hits`
Visited(arms, hits) == {i \in DOMAIN arms : \A j \in hits : i <= j}

Consulted(arms, I) == UNION {arms[i].consulted : i \in I}

-----------------------------------------------------------------------------
(***************************************************************************)
(* eval_condition.  A loop over arms returns at the first arm whose value  *)
(* is `stop`: FALSE for All, TRUE for Any.  No arms: not satisfied.        *)
(***************************************************************************)
ConditionEval(sat, decisive, consulted) ==
  [satisfied |-> sat, decisive |-> decisive, consulted |-> consulted]

Hits(arms, stop) == {i \in DOMAIN arms : arms[i].satisfied = stop}

\* The arms whose decisive facts an All or Any reports
Deciding(arms, hits) == IF hits = {} THEN DOMAIN arms ELSE hits \intersect Visited(arms, hits)

\* Slip: an early return keeps only what the deciding arm consulted.
VisitForgets(arms, stop) ==
  LET hits == Hits(arms, stop)
  IN  ConditionEval(arms # <<>> /\ (stop <=> hits # {}),
                    UNION {arms[i].decisive : i \in Deciding(arms, hits)},
                    Consulted(arms, Deciding(arms, hits)))

Visit(arms, stop) ==
  LET hits == Hits(arms, stop)
  IN  ConditionEval(arms # <<>> /\ (stop <=> hits # {}),
                    UNION {arms[i].decisive : i \in Deciding(arms, hits)},
                    Consulted(arms, Visited(arms, hits)))

EvalConditionNode(c, at, S) ==
  CASE c.kind = "always" -> ConditionEval(TRUE, {}, {})
    [] c.kind = "never"  -> ConditionEval(FALSE, {}, {})
    [] c.kind = "has"    -> ConditionEval(c.fact \in S, {c.fact}, {c.fact})
    [] c.kind = "not"    -> ConditionEval(~at[c.arm].satisfied, at[c.arm].decisive, at[c.arm].consulted)
    [] c.kind = "all"    -> Visit(At(at, c.arms), FALSE)
    [] c.kind = "any"    -> Visit(At(at, c.arms), TRUE)

ConditionTable(c, S) ==
  LET at[n \in 1 .. Len(c)] == EvalConditionNode(c[n], at, S) IN at

EvalCondition(c, S) == Root(ConditionTable(c, S), c)

-----------------------------------------------------------------------------
(***************************************************************************)
(* A Decision: the effect is an outcome or Denied; `decisive` is the       *)
(* DecisiveClause.                                                         *)
(***************************************************************************)
Decision(effect, obligations, clause, facts, label) ==
  [effect |-> effect, obligations |-> obligations,
   decisive |-> [clause |-> clause, facts |-> facts, label |-> label], consulted |-> {}]

IsPermit(d) == d.effect # Denied

GenericDeny == Decision(Denied, {}, "deny", {}, NoLabel)

WithConsulted(d, consulted) == [d EXCEPT !.consulted = consulted]

EvalGrant(p, S) ==
  LET e == EvalCondition(p.condition, S)
  IN  WithConsulted(
        IF e.satisfied THEN Decision(p.outcome, p.obligations, "permit", e.decisive, p.label)
        ELSE Decision(Denied, {}, "deny", e.decisive, p.label),
        e.consulted)

\* Slip: of two incomparable permits the first is kept.
MeetPermitsFirst(d, e) == IF Meet(d.effect, e.effect) = e.effect THEN e ELSE d

\* Permit::meet
MeetPermits(d, e) ==
  LET o == Meet(d.effect, e.effect)
  IN  IF o = d.effect THEN d
      ELSE IF o = e.effect THEN e
      ELSE Decision(o, {}, "permit", {}, NoLabel)

\* Permit::join
JoinPermits(d, e) ==
  LET o == Join(d.effect, e.effect)
      both == d.obligations \union e.obligations
  IN  IF o = d.effect /\ o = e.effect THEN [d EXCEPT !.obligations = both]
      ELSE IF o = e.effect THEN e
      ELSE IF o = d.effect THEN d
      ELSE Decision(o, both, "permit", {}, NoLabel)

\* The permit that eval_all_by holds after the last arm
CommonPermit(arms) ==
  LET permit[i \in 1 .. Len(arms)] ==
        IF i = 1 THEN arms[1] ELSE MeetPermits(permit[i - 1], arms[i])
  IN  permit[Len(arms)]

\* eval_all_by: the first denial is the result.
EvalAll(arms) ==
  LET denials == {i \in DOMAIN arms : ~IsPermit(arms[i])}
  IN  IF arms = <<>> THEN GenericDeny
      ELSE WithConsulted(IF denials = {} THEN CommonPermit(arms) ELSE arms[Min(denials)],
                         Consulted(arms, Visited(arms, denials)))

\* One turn of eval_any_by, which holds the first denial until an arm permits
Incoming(held, arm) ==
  IF ~IsPermit(arm) THEN held
  ELSE IF ~IsPermit(held) THEN arm
  ELSE JoinPermits(held, arm)

WinningPermit(arms) ==
  LET winning[i \in 1 .. Len(arms)] ==
        IF i = 1 THEN arms[1] ELSE Incoming(winning[i - 1], arms[i])
  IN  winning[Len(arms)]

\* eval_any_by: every arm is evaluated; without a permit the first denial stands.
EvalAny(arms) ==
  IF arms = <<>> THEN GenericDeny
  ELSE WithConsulted(WinningPermit(arms), Consulted(arms, DOMAIN arms))

EvalOrElse(primary, fallback) ==
  IF IsPermit(primary) THEN primary
  ELSE WithConsulted(fallback, primary.consulted \union fallback.consulted)

\* eval_policy, eval_residual_policy
EvalNode(p, at, S) ==
  CASE p.kind = "permit" -> Decision(p.outcome, {}, "permit", {}, NoLabel)
    [] p.kind = "deny"   -> GenericDeny
    [] p.kind \in {"permit_trace", "deny_trace"} -> p.decision
    [] p.kind = "grant"  -> EvalGrant(p, S)
    [] p.kind = "all"    -> EvalAll(At(at, p.arms))
    [] p.kind = "any"    -> EvalAny(At(at, p.arms))
    [] p.kind = "or_else" -> EvalOrElse(at[p.primary], at[p.fallback])

EvalTable(p, S) == LET at[n \in 1 .. Len(p)] == EvalNode(p[n], at, S) IN at

\* evaluate, evaluate_residual
Evaluate(p, S) == Root(EvalTable(p, S), p)

\* collect_condition_facts
ConditionFactsNode(c, at) ==
  CASE c.kind \in {"always", "never"} -> {}
    [] c.kind = "has" -> {c.fact}
    [] c.kind = "not" -> at[c.arm]
    [] c.kind \in {"all", "any"} -> UNION {at[c.arms[i]] : i \in DOMAIN c.arms}

ConditionFactsTable(c) == LET at[n \in 1 .. Len(c)] == ConditionFactsNode(c[n], at) IN at
ConditionFacts(c) == Root(ConditionFactsTable(c), c)

\* collect_policy_facts, collect_residual_policy_facts
RequiredFactsNode(p, at) ==
  CASE p.kind = "grant" -> ConditionFacts(p.condition)
    [] p.kind \in {"all", "any"} -> UNION {at[p.arms[i]] : i \in DOMAIN p.arms}
    [] p.kind = "or_else" -> at[p.primary] \union at[p.fallback]
    [] OTHER -> {}

RequiredFactsTable(p) == LET at[n \in 1 .. Len(p)] == RequiredFactsNode(p[n], at) IN at

\* required_facts, required_residual_facts
RequiredFacts(p) == Root(RequiredFactsTable(p), p)

-----------------------------------------------------------------------------
(***************************************************************************)
(* Trees: the arms of a node come before it.                               *)
(***************************************************************************)
Before(m, n) == m \in Nat /\ 1 <= m /\ m < n

ArmsBefore(arms, n) == arms \in Seq(Nat) /\ \A i \in DOMAIN arms : Before(arms[i], n)

IsConditionNode(c, n) ==
  \/ c.kind \in {"always", "never"}
  \/ c.kind = "has" /\ c.fact \in Facts
  \/ c.kind = "not" /\ Before(c.arm, n)
  \/ c.kind \in {"all", "any"} /\ ArmsBefore(c.arms, n)

IsCondition(c) ==
  /\ Len(c) \in Nat \ {0} /\ DOMAIN c = 1 .. Len(c)
  /\ \A n \in 1 .. Len(c) : IsConditionNode(c[n], n)

Decisions ==
  [effect : Outcomes \union {Denied}, obligations : SUBSET Obligations,
   decisive : [clause : {"permit", "deny"}, facts : SUBSET Facts, label : Labels],
   consulted : SUBSET Facts]

IsPolicyNode(p, n) ==
  \/ p.kind = "permit" /\ p.outcome \in Outcomes
  \/ p.kind = "deny"
  \/ /\ p.kind = "grant" /\ p.outcome \in Outcomes /\ IsCondition(p.condition)
     /\ p.obligations \subseteq Obligations /\ p.label \in Labels
  \/ p.kind \in {"all", "any"} /\ ArmsBefore(p.arms, n)
  \/ p.kind = "or_else" /\ Before(p.primary, n) /\ Before(p.fallback, n)

IsPolicy(p) ==
  /\ Len(p) \in Nat \ {0} /\ DOMAIN p = 1 .. Len(p)
  /\ \A n \in 1 .. Len(p) : IsPolicyNode(p[n], n)

-----------------------------------------------------------------------------
(***************************************************************************)
(* The reference: what a policy means, without loops, order or early       *)
(* return.  All is the greatest lower bound of its arms' outcomes and      *)
(* denies when one arm denies; Any is the least upper bound of the         *)
(* outcomes its arms permit.                                               *)
(***************************************************************************)
HoldsNode(c, at, S) ==
  CASE c.kind = "always" -> TRUE
    [] c.kind = "never"  -> FALSE
    [] c.kind = "has"    -> c.fact \in S
    [] c.kind = "not"    -> ~at[c.arm]
    [] c.kind = "all"    -> c.arms # <<>> /\ \A i \in DOMAIN c.arms : at[c.arms[i]]
    [] c.kind = "any"    -> \E i \in DOMAIN c.arms : at[c.arms[i]]

HoldsTable(c, S) == LET at[n \in 1 .. Len(c)] == HoldsNode(c[n], at, S) IN at
Holds(c, S) == Root(HoldsTable(c, S), c)

Leq(x, y) == Meet(x, y) = x

GreatestLowerBound(X) ==
  CHOOSE m \in Outcomes : \A l \in Outcomes : Leq(l, m) <=> \A x \in X : Leq(l, x)
LeastUpperBound(X) ==
  CHOOSE m \in Outcomes : \A u \in Outcomes : Leq(m, u) <=> \A x \in X : Leq(x, u)

MeaningNode(p, at, S) ==
  LET effects == {at[p.arms[i]] : i \in DOMAIN p.arms}
      granted == effects \ {Denied}
  IN  CASE p.kind = "permit" -> p.outcome
        [] p.kind = "deny"   -> Denied
        [] p.kind = "grant"  -> IF Holds(p.condition, S) THEN p.outcome ELSE Denied
        [] p.kind = "all"    -> IF granted = {} \/ Denied \in effects THEN Denied
                                ELSE GreatestLowerBound(granted)
        [] p.kind = "any"    -> IF granted = {} THEN Denied ELSE LeastUpperBound(granted)
        [] p.kind = "or_else" -> IF at[p.primary] # Denied THEN at[p.primary] ELSE at[p.fallback]

MeaningTable(p, S) == LET at[n \in 1 .. Len(p)] == MeaningNode(p[n], at, S) IN at
Meaning(p, S) == Root(MeaningTable(p, S), p)

=============================================================================
