----------------------------- MODULE Reduction -----------------------------
(***************************************************************************)
(* partial_evaluate and complete_residual (partial.rs): the facts of a     *)
(* request are present, absent or left unknown, and a policy is reduced to *)
(* a decision or to what is left of it.                                    *)
(*                                                                         *)
(* A residual has its nodes at the positions of the policy's: a reduced    *)
(* arm stays where the arm was.                                            *)
(***************************************************************************)
EXTENDS Evaluation

Presence == {"present", "absent", "unknown"}
PartialFacts == [Facts -> Presence]

Known(pf) == {f \in Facts : pf[f] # "unknown"}
Unknown(pf) == Facts \ Known(pf)
Present(pf) == {f \in Facts : pf[f] = "present"}    \* partial_to_known

\* The known facts that extend what is known.
Completions(pf) == {Present(pf) \union U : U \in SUBSET Unknown(pf)}

\* The elements of s at the positions in I, in their order
KeptBefore(kept, i) == IF i = 1 THEN <<>> ELSE kept[i - 1]
Kept(s, I) ==
  LET kept[i \in 1 .. Len(s)] ==
        IF i \in I THEN Append(KeptBefore(kept, i), s[i]) ELSE KeptBefore(kept, i)
  IN  IF s = <<>> THEN <<>> ELSE kept[Len(s)]

-----------------------------------------------------------------------------
(***************************************************************************)
(* reduce_condition                                                        *)
(***************************************************************************)
KnownCondition(sat, consulted) == [known |-> TRUE, satisfied |-> sat, consulted |-> consulted]
PendingCondition(residual, consulted) ==
  [known |-> FALSE, residual |-> residual, consulted |-> consulted]

KnownHits(arms, stop) == {i \in DOMAIN arms : arms[i].known /\ arms[i].satisfied = stop}

\* The arms, as positions, that are not known
PendingArms(c, at) == Kept(c.arms, {i \in DOMAIN c.arms : ~at[c.arms[i]].known})

\* reduce_condition_all, reduce_condition_any: arms that are known and do not
\* decide are dropped, and a single pending arm stands for itself.
ReduceArms(c, at, stop) ==
  LET arms == At(at, c.arms)
      hits == KnownHits(arms, stop)
      pending == PendingArms(c, at)
      consulted == Consulted(arms, Visited(arms, hits))
  IN  IF hits # {} \/ pending = <<>>
      THEN KnownCondition(c.arms # <<>> /\ (stop <=> hits # {}), consulted)
      ELSE IF Len(pending) = 1 THEN PendingCondition(at[pending[1]].residual, consulted)
      ELSE PendingCondition([kind |-> c.kind, arms |-> pending], consulted)

ReduceConditionNode(c, at, pf) ==
  CASE c.kind = "always" -> KnownCondition(TRUE, {})
    [] c.kind = "never"  -> KnownCondition(FALSE, {})
    [] c.kind = "has"    -> IF c.fact \in Unknown(pf) THEN PendingCondition(c, {})
                            ELSE KnownCondition(c.fact \in Present(pf), {c.fact})
    [] c.kind = "not"    -> IF at[c.arm].known
                            THEN KnownCondition(~at[c.arm].satisfied, at[c.arm].consulted)
                            ELSE PendingCondition(c, at[c.arm].consulted)
    [] c.kind = "all"    -> ReduceArms(c, at, FALSE)
    [] c.kind = "any"    -> ReduceArms(c, at, TRUE)

ReduceConditionTable(c, pf) ==
  LET at[n \in 1 .. Len(c)] == ReduceConditionNode(c[n], at, pf) IN at

\* Nothing refers to the place of a condition that was known.
ResidualCondition(c, pf) ==
  LET r == ReduceConditionTable(c, pf)
  IN  [n \in 1 .. Len(c) |-> IF r[n].known THEN Never ELSE r[n].residual]

-----------------------------------------------------------------------------
(***************************************************************************)
(* reduce_policy                                                           *)
(***************************************************************************)
Resolved(d) == [resolved |-> TRUE, decision |-> d, consulted |-> d.consulted]
Pending(residual, consulted) ==
  [resolved |-> FALSE, residual |-> residual, consulted |-> consulted]

\* policy_from_decision: a resolved arm becomes a constant that keeps its trace.
FromResolved(r) ==
  LET d == WithConsulted(r.decision, {})
  IN  IF IsPermit(d) THEN PermitWithTrace(d) ELSE DenyWithTrace(d)

ResidualNode(r) == IF r.resolved THEN FromResolved(r) ELSE r.residual

\* evaluate_residual on an All or Any of constants sees their decisions.
Constants(at, arms) == [i \in DOMAIN arms |-> FromResolved(at[arms[i]]).decision]

\* Slip: a pending grant keeps its whole condition.
ReduceGrantWhole(p, pf) ==
  LET r == Root(ReduceConditionTable(p.condition, pf), p.condition)
  IN  IF r.known THEN Resolved(WithConsulted(EvalGrant(p, Present(pf)), r.consulted))
      ELSE Pending(p, r.consulted)

ReduceGrant(p, pf) ==
  LET r == Root(ReduceConditionTable(p.condition, pf), p.condition)
  IN  IF r.known THEN Resolved(WithConsulted(EvalGrant(p, Present(pf)), r.consulted))
      ELSE Pending(Grant(p.outcome, ResidualCondition(p.condition, pf), p.obligations, p.label),
                   r.consulted)

ResolvedPermit(r) == r.resolved /\ IsPermit(r.decision)
ResolvedDeny(r) == r.resolved /\ ~IsPermit(r.decision)

\* The arms, as positions, that were reduced to a permit, a denial or neither
Permits(p, at) == Kept(p.arms, {i \in DOMAIN p.arms : ResolvedPermit(at[p.arms[i]])})
Denials(p, at) == Kept(p.arms, {i \in DOMAIN p.arms : ResolvedDeny(at[p.arms[i]])})
StillPending(p, at) == Kept(p.arms, {i \in DOMAIN p.arms : ~at[p.arms[i]].resolved})

\* reduce_all: a resolved denial decides at once; otherwise the resolved
\* permits are moved before the pending arms.
ReduceAll(p, at) ==
  LET arms == At(at, p.arms)
      denials == {i \in DOMAIN arms : ResolvedDeny(arms[i])}
      consulted == Consulted(arms, Visited(arms, denials))
  IN  IF denials # {} THEN Resolved(WithConsulted(arms[Min(denials)].decision, consulted))
      ELSE IF StillPending(p, at) = <<>>
      THEN Resolved(WithConsulted(EvalAll(Constants(at, Permits(p, at))), consulted))
      ELSE Pending(AllOf(Permits(p, at) \o StillPending(p, at)), consulted)

\* Slip: a resolved permit resolves the disjunction.
ReduceAnyEager(p, at) ==
  LET arms == At(at, p.arms)
      consulted == Consulted(arms, DOMAIN arms)
  IN  IF StillPending(p, at) = <<>> \/ Permits(p, at) # <<>>
      THEN Resolved(WithConsulted(EvalAny(Constants(at, Permits(p, at))), consulted))
      ELSE Pending(AnyOf(StillPending(p, at)), consulted)

\* reduce_any: resolved denials are dropped, except that the first one stays
\* to explain the denial when no arm has permitted yet.
ReduceAny(p, at) ==
  LET arms == At(at, p.arms)
      consulted == Consulted(arms, DOMAIN arms)
      first == IF Permits(p, at) = <<>> /\ Denials(p, at) # <<>> THEN <<Denials(p, at)[1]>>
               ELSE Permits(p, at)
  IN  IF StillPending(p, at) = <<>>
      THEN Resolved(WithConsulted(EvalAny(Constants(at, first)), consulted))
      ELSE Pending(AnyOf(first \o StillPending(p, at)), consulted)

\* reduce_or_else: a denied primary leaves its fallback.
ReduceOrElse(p, at) ==
  LET primary == at[p.primary]
      fallback == at[p.fallback]
      consulted == primary.consulted \union fallback.consulted
  IN  IF ResolvedPermit(primary) THEN primary
      ELSE IF ~primary.resolved THEN Pending(p, consulted)
      ELSE IF fallback.resolved THEN Resolved(WithConsulted(fallback.decision, consulted))
      ELSE Pending(fallback.residual, consulted)

ReduceNode(p, at, pf) ==
  CASE p.kind \in {"permit", "deny"} -> Resolved(EvalNode(p, <<>>, Present(pf)))
    [] p.kind = "grant"   -> ReduceGrant(p, pf)
    [] p.kind = "all"     -> ReduceAll(p, at)
    [] p.kind = "any"     -> ReduceAny(p, at)
    [] p.kind = "or_else" -> ReduceOrElse(p, at)

ReduceTable(p, pf) == LET at[n \in 1 .. Len(p)] == ReduceNode(p[n], at, pf) IN at

\* partial_evaluate
PartialEvaluate(p, pf) ==
  LET r == ReduceTable(p, pf)
  IN  IF Root(r, p).resolved THEN Root(r, p)
      ELSE Pending([n \in 1 .. Len(p) |-> ResidualNode(r[n])], Root(r, p).consulted)

\* Slip: the facts consulted before the residual are forgotten.
CompleteResidualOnly(r, S) == IF r.resolved THEN r.decision ELSE Evaluate(r.residual, S)

\* complete_residual, with_prior_consulted
CompleteResidual(r, S) ==
  IF r.resolved THEN r.decision
  ELSE LET d == Evaluate(r.residual, S)
       IN  WithConsulted(d, r.consulted \union d.consulted)

\* validate_audit_semantics: the trace tells the same story as the effect.
ValidSemantics(d) ==
  /\ d.decisive.clause = IF IsPermit(d) THEN "permit" ELSE "deny"
  /\ ~IsPermit(d) => d.obligations = {}

=============================================================================
